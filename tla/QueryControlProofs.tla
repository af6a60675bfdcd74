------------------------- MODULE QueryControlProofs -------------------------
(***************************************************************************)
(* Where a request of module QueryPipeline may be, and what its handler    *)
(* knows there.  RequestOK ties the step of a request to its kind, to the  *)
(* local variables of its handler and to the record of its attempt: a      *)
(* submit never stores a state behind the stored one, no record is there   *)
(* before the operation is registered, and what is made active has been    *)
(* executed.  The lemmas show that every step inside the try block and its *)
(* exception handlers keeps RequestOK of the request that takes it         *)
(* (InsideSteps), and what it does to the attempt records and the active   *)
(* attempt (KeySteps).  QueryLifecycleProofs and QueryLockProofs build     *)
(* their inductive invariants on it.                                       *)
(***************************************************************************)
EXTENDS QueryPipeline, TLAPS

(* The steps of each kind of request. *)
QueryLabels == {"start", "reserved", "register", "track", "store", "llm", "eval", "quota_exec",
                "exec", "save", "activate", "reply", "rollback", "cancel", "cancel_exec",
                "t_store", "t_active", "discard", "fin_op", "fin_lock", "end", "done", "crashed"}

SubmitLabels == QueryLabels \cup {"prepare", "touch", "policy"}

RetryLabels == QueryLabels \cup
    {"ready", "load_active", "load_attempt", "decide", "bound", "quota_llm", "track_new",
     "retire_prior", "drop_prior", "drop_active", "reject_track", "reject_store",
     "reject_prior", "t_prior"}

AcceptLabels == AcceptPc \cup {"start", "end", "done", "crashed"}

DeleteLabels == DeletePc \cup {"start", "done", "crashed"}

Fits(q, l) ==
    /\ Kind[q] = "submit" => l \in SubmitLabels
    /\ IsRetry(q) => l \in RetryLabels
    /\ Kind[q] = "accept" => l \in AcceptLabels
    /\ Kind[q] = "delete" => l \in DeleteLabels

IsQuery(q) == Kind[q] = "submit" \/ IsRetry(q)

(* The try block with its exception handlers, and the whole of what runs   *)
(* under the processing lock.                                              *)
Inside == TryPc \cup TimeoutPc \cup {"discard"}

Locked == Inside \cup FinallyPc

(* A retry that has read its prior attempt; before and after the operation *)
(* is registered; once the attempt of the request may be the active one.   *)
Loaded == {"register", "track", "store", "decide", "bound", "quota_llm", "llm", "eval",
           "quota_exec", "exec", "save", "track_new", "activate", "reject_track",
           "reject_store", "cancel_exec"}

Unregistered == {"start", "ready", "reserved", "prepare", "touch", "load_active",
                 "load_attempt", "register"}

Working == {"track", "store", "policy", "decide", "bound", "quota_llm", "llm", "eval",
            "quota_exec", "exec", "save", "track_new", "activate", "reject_track",
            "reject_store", "cancel_exec"}

Over == {"end", "done", "crashed"}

PostActive == {"retire_prior", "reply", "rollback", "discard", "t_prior", "t_store", "t_active",
               "fin_op", "fin_lock"} \cup Over

(* The state of the attempt in hand at step l. *)
StateFits(q, l, st) ==
    /\ Kind[q] = "submit" =>
        /\ l \in {"register", "track", "policy", "llm"} => st = "PENDING"
        /\ l = "eval" => st = "GENERATED"
        /\ l \in {"quota_exec", "exec", "cancel_exec"} => st = "EVALUATED"
        /\ l = "save" => st = "EXECUTED"
        /\ l = "store" => st \in AttemptStates \ {"TIMEOUT"}
    /\ IsRetry(q) /\ l = "store" => st = "EXECUTED"

(* What is known of the local variables f of a handler, at step l and at   *)
(* any step.                                                               *)
LabelFits(q, l, f) ==
    /\ l \in TimeoutPc => f.late
    /\ IsRetry(q) /\ l \in Loaded => f.tmo # None
    /\ l \in Unregistered => f.trk = None
    /\ l \in Working => f.trk # None
    /\ StateFits(q, l, f.state)

FrameFits(q, f) ==
    /\ Kind[q] \in {"submit", "delete"} => f.chat = Target[q]
    /\ IsRetry(q) /\ f.tmo # None => f.chat \in Chats

(* What is known of the record rec of attempt q at step l: none is stored  *)
(* before the pipeline has begun, a submit never stores a state behind     *)
(* that record, and what is made active is executed.                       *)
AttemptFits(q, l, st, rec) ==
    rec # None =>
        /\ l \notin Unregistered
        /\ IsRetry(q) => l \notin Loaded \ {"activate"}
        /\ l \in {"save", "activate"} => rec.state = "EXECUTED"
        /\ Kind[q] = "submit" /\ l \in Working => Rank[rec.state] =< Rank[st]

RequestOK(q) ==
    /\ Fits(q, pc[q])
    /\ LabelFits(q, pc[q], frame[q])
    /\ FrameFits(q, frame[q])
    /\ AttemptFits(q, pc[q], frame[q].state, attempt[q])
    /\ IsRetry(q) \/ Kind[q] = "accept" => pc[q] = "start" \/ Prior(q) \in Requests
    /\ due[q] # <<>> => pc[q] \in TryPc \cup {"t_store"}

RequestsOK == \A q \in Requests : RequestOK(q)

(* Steps at which nothing special is known of the request. *)
PlainPc == {"discard", "reply", "rollback", "cancel", "retire_prior", "drop_prior", "drop_active",
            "reject_prior", "fin_op", "fin_lock", "end", "done", "crashed"}

-----------------------------------------------------------------------------
(* What a step does to the control state and to the local variables. *)
Waits == {<<>>, <<"ensure">>, <<"log">>, <<"ensure", "log">>, <<"log", "ensure">>,
          <<"ensure", "log", "ensure">>, <<"ensure", "log", "ensure", "log">>}

(* Request r goes to one of the steps in L, perhaps after some awaits. *)
Goes(r, L) ==
    /\ pc' \in [Requests -> Labels]
    /\ due' \in [Requests -> Seq({"ensure", "log"})]
    /\ pc'[r] \in L
    /\ due'[r] # <<>> => pc'[r] \in TryPc \cup {"t_store"}
    /\ \A q \in Requests \ {r} : pc'[q] = pc[q] /\ due'[q] = due[q]

(* Only the frame of r changes; it then holds these values. *)
FrameStep(r, c, p, tk, st, tm, lt) ==
    /\ frame' \in [Requests -> Frames]
    /\ \A q \in Requests \ {r} : frame'[q] = frame[q]
    /\ frame'[r].chat = c
    /\ frame'[r].prior = p
    /\ frame'[r].trk = tk
    /\ frame'[r].state = st
    /\ frame'[r].tmo = tm
    /\ frame'[r].late = lt

(* A step within the handler that keeps its chat session and its attempts. *)
FrameMoves(r, st, tm, lt) == FrameStep(r, frame[r].chat, frame[r].prior, frame[r].trk, st, tm, lt)

FrameKept(r) == FrameMoves(r, frame[r].state, frame[r].tmo, frame[r].late)

-----------------------------------------------------------------------------
(* Request r may be at step l after this step. *)
MayReach(r, l) ==
    /\ l \in Inside \cup {"fin_op"}
    /\ pc[r] \in PostActive => l \in PostActive
    /\ Fits(r, l)
    /\ LabelFits(r, l, frame'[r])
    /\ AttemptFits(r, l, frame'[r].state, attempt'[r])

(* The frame of r keeps what an inside step must keep. *)
FrameInside(r) ==
    /\ frame' \in [Requests -> Frames]
    /\ \A q \in Requests \ {r} : frame'[q] = frame[q]
    /\ frame'[r].prior = frame[r].prior
    /\ frame'[r].tmo \in {r, frame[r].tmo, frame[r].prior}
    /\ frame[r].late => frame'[r].late
    /\ frame'[r].chat = frame[r].chat \/ frame[r].trk = None
    /\ frame[r].trk # None => frame'[r].trk # None
    /\ frame[r].trk = None => frame'[r].trk = None \/ RegisterQueryOperation(r)

(* A step inside the try block or its exception handlers: the request      *)
(* stays there or goes to its finally clause, keeps its attempts and its   *)
(* chat session, and a deadline that has fired has fired for good.         *)
InsideStep(r) ==
    /\ pc[r] \in Inside
    /\ Goes(r, Inside \cup {"fin_op"})
    /\ pc[r] \in PostActive => pc'[r] \in PostActive
    /\ FrameInside(r)
    /\ RequestOK(r)'

-----------------------------------------------------------------------------
(* What the steps of a query do to the keys in Redis. *)
(* An attempt record is removed, or moves forward: that of the request     *)
(* itself while its pipeline runs, or the one its timeout handler marks.   *)
AttemptStep(r) ==
    /\ attempt' \in [Requests -> Maybe(Attempts)]
    /\ \A a \in Requests :
        \/ attempt'[a] \in {attempt[a], None}
        \/ /\ (a = r /\ pc[r] \in Working) \/ (a = frame[r].tmo /\ pc'[r] = "t_active")
           /\ attempt[a] # None => Rank[attempt[a].state] =< Rank[attempt'[a].state]

(* The active attempt is removed, or replaced by that of the request. *)
ActiveStep(r) ==
    /\ active' \in [HttpSessions -> Maybe(Requests)]
    /\ \A h \in HttpSessions :
        \/ active'[h] \in {active[h], None}
        \/ h = Http[r] /\ active'[h] = r /\ pc[r] = "activate" /\ attempt' = attempt /\ pc'[r] \in PostActive
    /\ pc[r] = "t_active" => active'[Http[r]] = None

QueryMove(r) ==
    /\ InsideStep(r)
    /\ AttemptStep(r)
    /\ ActiveStep(r)
    /\ UNCHANGED <<lock, marker, acceptLock, inflight, database>>
    /\ op' = op \/ RegisterQueryOperation(r)

(* Steps that read Redis at most. *)
LocalAction(r) ==
    \/ PrepareSubmit(r) \/ OpenChatSession(r) \/ LoadActive(r) \/ LoadAttempt(r)
    \/ EnsureSessionActive(r) \/ LogAuditDurably(r) \/ LogSubmitAndResolvePolicy(r)
    \/ SubmitGenerate(r) \/ SubmitEvaluate(r) \/ SubmitQuota(r) \/ SubmitExecute(r)
    \/ SubmitSave(r) \/ Reply(r) \/ RollbackRequest(r)
    \/ RetryDecide(r) \/ RetryBound(r) \/ ConsumeRetryQuota(r) \/ RetryGenerate(r)
    \/ RetryEvaluate(r) \/ RetryExecute(r) \/ RetrySave(r)
    \/ HandleCancelled(r) \/ DeadlineExpires(r) \/ StageCancelled(r) \/ DiscardCutShort(r)

(* Steps that write Redis, between the lock and the finally clause. *)
KeyAction(r) ==
    \/ RegisterQueryOperation(r) \/ TrackSessionAttempt(r) \/ StoreAttempt(r)
    \/ SetActiveAttempt(r) \/ RetryTrackNew(r) \/ DeletePrior(r) \/ DropActive(r)
    \/ RejectTrack(r) \/ RejectStore(r) \/ RejectPrior(r) \/ HandleCancelledExecution(r)
    \/ TimeoutDeletePrior(r) \/ TimeoutStore(r) \/ TimeoutDropActive(r)
    \/ DiscardInvalidatedAttempt(r)

-----------------------------------------------------------------------------
(* The awaits of the handlers are sequences of audit and session checks. *)
LEMMA WaitsType == Waits \subseteq Seq({"ensure", "log"})
  BY DEF Waits

LEMMA WaitsHas ==
  /\ <<>> \in Waits /\ <<"ensure">> \in Waits /\ <<"log">> \in Waits
  /\ <<"ensure", "log">> \in Waits /\ <<"log", "ensure">> \in Waits
  /\ <<"ensure", "log", "ensure">> \in Waits
  /\ <<"ensure", "log", "ensure", "log">> \in Waits
  BY DEF Waits

(* The steps by name, so that no proof has to expand the sets for them. *)
LEMMA TryHas ==
  /\ "prepare" \in TryPc /\ "touch" \in TryPc /\ "load_active" \in TryPc
  /\ "load_attempt" \in TryPc /\ "register" \in TryPc /\ "track" \in TryPc
  /\ "store" \in TryPc /\ "policy" \in TryPc /\ "decide" \in TryPc /\ "bound" \in TryPc
  /\ "quota_llm" \in TryPc /\ "quota_exec" \in TryPc /\ "save" \in TryPc
  /\ "track_new" \in TryPc /\ "activate" \in TryPc /\ "retire_prior" \in TryPc
  /\ "drop_prior" \in TryPc /\ "drop_active" \in TryPc /\ "reject_track" \in TryPc
  /\ "reject_store" \in TryPc /\ "reject_prior" \in TryPc /\ "reply" \in TryPc
  /\ "rollback" \in TryPc /\ "cancel" \in TryPc /\ "cancel_exec" \in TryPc
  /\ "llm" \in TryPc /\ "eval" \in TryPc /\ "exec" \in TryPc
  BY DEF TryPc, Stages

(* The steps of the handlers, the finally clause, accept and delete by name. *)
LEMMA OtherHas ==
  /\ "t_prior" \in TimeoutPc /\ "t_store" \in TimeoutPc /\ "t_active" \in TimeoutPc
  /\ "fin_op" \in FinallyPc /\ "fin_lock" \in FinallyPc
  /\ "a_lock" \in AcceptPc /\ "a_active" \in AcceptPc /\ "a_attempt" \in AcceptPc
  /\ "a_row" \in AcceptPc /\ "a_drop" \in AcceptPc /\ "a_inactive" \in AcceptPc
  /\ "a_audit" \in AcceptPc /\ "a_unlock" \in AcceptPc
  /\ "d_mark" \in DeletePc /\ "d_cancel" \in DeletePc /\ "d_clean" \in DeletePc
  /\ "d_delete" \in DeletePc /\ "d_commit" \in DeletePc /\ "d_undo" \in DeletePc
  BY DEF TimeoutPc, FinallyPc, AcceptPc, DeletePc

(* Every step is a label. *)
LEMMA LabelsHas ==
  /\ TryPc \subseteq Labels /\ TimeoutPc \subseteq Labels /\ FinallyPc \subseteq Labels
  /\ AcceptPc \subseteq Labels /\ DeletePc \subseteq Labels
  /\ "start" \in Labels /\ "ready" \in Labels /\ "reserved" \in Labels
  /\ "discard" \in Labels /\ "end" \in Labels /\ "done" \in Labels
  /\ "crashed" \in Labels
  BY DEF Labels

(* What runs inside the try block or its handlers. *)
LEMMA InsideFacts ==
  /\ Inside \subseteq Labels /\ "start" \notin Inside \cup {"fin_op"}
  /\ TryPc \cup TimeoutPc \subseteq Inside /\ "discard" \in Inside
  BY LabelsHas DEF Inside, TryPc, TimeoutPc, Stages

(* A request that works on its attempt is inside, registered and not yet past it. *)
LEMMA WorkingFacts ==
  /\ Working \subseteq Inside /\ Working \cap PostActive = {}
  /\ Working \cap Unregistered = {} /\ Working \cap TimeoutPc = {}
  /\ Working \ {"policy"} \subseteq Loaded
  BY TryHas, InsideFacts DEF Working, PostActive, Over, Unregistered, TimeoutPc, Loaded

(* The working steps by name. *)
LEMMA WorkingHas ==
  /\ "track" \in Working /\ "store" \in Working /\ "policy" \in Working /\ "decide" \in Working
  /\ "bound" \in Working /\ "quota_llm" \in Working /\ "llm" \in Working /\ "eval" \in Working
  /\ "quota_exec" \in Working /\ "exec" \in Working /\ "save" \in Working
  /\ "track_new" \in Working /\ "activate" \in Working /\ "reject_track" \in Working
  /\ "reject_store" \in Working /\ "cancel_exec" \in Working
  BY DEF Working

(* Where a request of each kind may be. *)
LEMMA Roles ==
  ASSUME QueryAssumption, NEW q \in Requests
  PROVE  /\ Kind[q] \in RequestKinds
         /\ IsRetry(q) <=> Kind[q] \notin {"submit", "accept", "delete"}
  BY DEF QueryAssumption, RequestKinds, IsRetry

(* The steps that only a submit takes. *)
LEMMA SubmitOnly ==
  ASSUME QueryAssumption, NEW q \in Requests, NEW l \in {"prepare", "touch", "policy"}, Fits(q, l)
  PROVE  Kind[q] = "submit"
  BY Roles DEF Fits, RetryLabels, QueryLabels, AcceptLabels, DeleteLabels, AcceptPc, DeletePc

(* The steps that only a regenerate or a reject takes. *)
LEMMA RetryOnly ==
  ASSUME QueryAssumption, NEW q \in Requests,
         NEW l \in {"ready", "load_active", "load_attempt", "decide", "bound", "quota_llm",
                    "track_new", "retire_prior", "drop_prior", "drop_active", "reject_track",
                    "reject_store", "reject_prior", "t_prior"}, Fits(q, l)
  PROVE  IsRetry(q)
  BY Roles DEF Fits, SubmitLabels, QueryLabels, AcceptLabels, DeleteLabels, AcceptPc, DeletePc

(* Only a query runs under the processing lock. *)
LEMMA QueryOnly ==
  ASSUME QueryAssumption, NEW q \in Requests, NEW l \in Locked \cup {"reserved"}, Fits(q, l)
  PROVE  IsQuery(q)
  BY Roles DEF Fits, IsQuery, Locked, Inside, TryPc, Stages, TimeoutPc, FinallyPc,
               AcceptLabels, DeleteLabels, AcceptPc, DeletePc

(* Any submit step fits a submit. *)
LEMMA SubmitTo ==
  ASSUME NEW q, NEW l \in SubmitLabels, Kind[q] = "submit"
  PROVE  Fits(q, l)
  BY DEF Fits, IsRetry

(* Any retry step fits a retry. *)
LEMMA RetryTo ==
  ASSUME NEW q, NEW l \in RetryLabels, IsRetry(q)
  PROVE  Fits(q, l)
  BY DEF Fits, IsRetry

(* Any step the two share fits a query. *)
LEMMA QueryTo ==
  ASSUME NEW q, NEW l \in QueryLabels, IsQuery(q)
  PROVE  Fits(q, l)
  BY SubmitTo, RetryTo DEF IsQuery, SubmitLabels, RetryLabels

(* At a plain step nothing is asked of the frame or of the record. *)
LEMMA PlainFits ==
  ASSUME NEW q, NEW l \in PlainPc
  PROVE  /\ \A f : LabelFits(q, l, f)
         /\ \A st, rec : AttemptFits(q, l, st, rec)
  BY DEF PlainPc, LabelFits, StateFits, TimeoutPc, Loaded, Unregistered, Working, AttemptFits

(* What a request knows at a step of its pipeline, and what it has to know *)
(* to go to one.                                                           *)
LEMMA RankOrder ==
  /\ \A s \in AttemptStates : Rank[s] \in Nat /\ Rank[s] =< 6
  /\ Rank["PENDING"] = 0 /\ Rank["GENERATED"] = 1 /\ Rank["EVALUATED"] = 2
  /\ Rank["EXECUTED"] = 3 /\ Rank["REJECTED"] = 4 /\ Rank["FAILED"] = 5 /\ Rank["TIMEOUT"] = 6
  BY DEF Rank, AttemptStates

-----------------------------------------------------------------------------
(* A step that awaits and goes on, and one that goes on at once. *)
LEMMA Arrives ==
  ASSUME TypeOK, NEW r \in Requests, NEW l \in Labels, NEW list \in Waits, AwaitThen(r, list, l),
         list # <<>> => l \in TryPc \cup {"t_store"}, NEW L, l \in L
  PROVE  Goes(r, L)
  BY WaitsType DEF TypeOK, AwaitThen, Goes

LEMMA GotoGoes ==
  ASSUME TypeOK, NEW r \in Requests, NEW l \in Labels, Goto(r, l), NEW L, l \in L
  PROVE  Goes(r, L)
  BY Arrives, WaitsHas DEF Goto

(* The writes of local variables that the handlers make.  Each lemma is    *)
(* stated for any values, so that the provers need not look into them.     *)
LEMMA FrameWritten ==
  ASSUME frame \in [Requests -> Frames], NEW r \in Requests, NEW f \in Frames,
         frame' = [frame EXCEPT ![r] = f]
  PROVE  FrameStep(r, f.chat, f.prior, f.trk, f.state, f.tmo, f.late)
  BY DEF FrameStep

(* Writing the outcome keeps what the invariant reads of a frame. *)
LEMMA WriteOk ==
  ASSUME frame \in [Requests -> Frames], NEW r \in Requests,
         NEW v \in BOOLEAN,
         frame' = [frame EXCEPT ![r].ok = v]
  PROVE  FrameKept(r)
  <1> DEFINE f == [frame[r] EXCEPT !.ok = v]
  <1>1. f \in Frames
    BY ZenonT(60) DEF Frames
  <1>2. frame' = [frame EXCEPT ![r] = f]
    BY Zenon
  <1>3. /\ f.chat = frame[r].chat /\ f.prior = frame[r].prior /\ f.trk = frame[r].trk
        /\ f.state = frame[r].state /\ f.tmo = frame[r].tmo /\ f.late = frame[r].late
    BY ZenonT(30) DEF Frames
  <1> HIDE DEF f
  <1> QED
    BY <1>1, <1>2, <1>3, FrameWritten, Zenon DEF FrameKept, FrameMoves

(* So does raising an exception. *)
LEMMA FailFrame ==
  ASSUME TypeOK, NEW r \in Requests, Fail(r)
  PROVE  FrameKept(r)
  BY WriteOk, Zenon DEF Fail, TypeOK

(* So does leaving the frame as it is. *)
LEMMA SameFrame ==
  ASSUME TypeOK, NEW r \in Requests, UNCHANGED frame
  PROVE  FrameKept(r)
  BY DEF TypeOK, FrameKept, FrameMoves, FrameStep

(* RequestOK in the next state, part by part. *)
LEMMA RequestOKNext ==
  ASSUME NEW q, Fits(q, pc'[q]), LabelFits(q, pc'[q], frame'[q]), FrameFits(q, frame'[q]),
         AttemptFits(q, pc'[q], frame'[q].state, attempt'[q]),
         IsRetry(q) \/ Kind[q] = "accept" => pc'[q] = "start" \/ frame'[q].prior \in Requests,
         due'[q] # <<>> => pc'[q] \in TryPc \cup {"t_store"}
  PROVE  RequestOK(q)'
  BY Zenon DEF RequestOK, Fits, LabelFits, FrameFits, AttemptFits, StateFits, IsRetry, Prior

(* Before the operation is registered there is no attempt yet. *)
LEMMA EarlySource ==
  ASSUME NEW r \in Requests, RequestOK(r), pc[r] \in Unregistered
  PROVE  frame[r].trk = None /\ attempt[r] = None /\ pc[r] \notin PostActive
  <1>1. pc[r] \notin PostActive
    BY DEF Unregistered, PostActive, Over
  <1> QED
    BY <1>1 DEF RequestOK, LabelFits, AttemptFits

(* What a submit knows of its attempt while it works on it. *)
LEMMA SubmitSource ==
  ASSUME NEW r \in Requests, RequestOK(r), pc[r] \in Working, Kind[r] = "submit"
  PROVE  /\ StateFits(r, pc[r], frame[r].state)
         /\ attempt[r] # None =>
              /\ pc[r] \in {"save", "activate"} => attempt[r].state = "EXECUTED"
              /\ Rank[attempt[r].state] =< Rank[frame[r].state]
  BY WorkingFacts DEF RequestOK, LabelFits, AttemptFits

(* What a retry knows of its attempt while it works on it. *)
LEMMA RetrySource ==
  ASSUME NEW r \in Requests, RequestOK(r), pc[r] \in Working, pc[r] # "policy", IsRetry(r)
  PROVE  /\ frame[r].tmo # None
         /\ StateFits(r, pc[r], frame[r].state)
         /\ pc[r] # "activate" => attempt[r] = None
  BY WorkingFacts DEF RequestOK, LabelFits, AttemptFits

(* A stored attempt has a state, an HTTP session and a chat session. *)
LEMMA RecordType ==
  ASSUME TypeOK, NEW a \in Requests, attempt[a] # None
  PROVE  /\ attempt[a] \in Attempts /\ attempt[a].state \in AttemptStates
         /\ attempt[a].http \in HttpSessions /\ attempt[a].chat \in Chats
  BY DEF TypeOK, Maybe, Attempts

(* A later state of the attempt in hand is still not behind its record. *)
LEMMA SubmitBehind ==
  ASSUME TypeOK, NEW r \in Requests, RequestOK(r), pc[r] \in Working,
         Kind[r] = "submit", NEW s \in AttemptStates, frame[r].state = s,
         NEW st \in AttemptStates, Rank[s] =< Rank[st]
  PROVE  attempt[r] # None => Rank[attempt[r].state] =< Rank[st]
  <1>1. attempt[r] # None => Rank[attempt[r].state] =< Rank[s] /\ attempt[r].state \in AttemptStates
    BY SubmitSource, RecordType
  <1>2. Rank[s] \in Nat /\ Rank[st] \in Nat /\ \A x \in AttemptStates : Rank[x] \in Nat
    BY RankOrder
  <1> QED
    BY <1>1, <1>2

(***************************************************************************)
(* A step of the try block, or of one of its exception handlers, stays     *)
(* inside it or goes to the finally clause, and keeps RequestOK.           *)
(***************************************************************************)
LEMMA InsideSteps ==
  ASSUME QueryAssumption, TypeOK, NEW r \in Requests, RequestOK(r)
  PROVE  /\ LocalAction(r) => InsideStep(r) /\ UNCHANGED <<redis, inflight, database>> /\ pc[r] # "t_active"
         /\ KeyAction(r) => InsideStep(r)
  <1>EnsureGoes.
    ASSUME NEW l \in TryPc \cup {"t_store"}, EnsureThen(r, l), NEW L, l \in L
    PROVE  Goes(r, L)
    BY <1>EnsureGoes, Arrives, WaitsHas, LabelsHas, OtherHas DEF EnsureThen
  <1>AwaitGoes.
    ASSUME NEW l \in TryPc \cup {"t_store"}, NEW list \in Waits, AwaitThen(r, list, l), NEW L,
           l \in L
    PROVE  Goes(r, L)
    <2> USE <1>AwaitGoes
    <2>1. l \in Labels
      BY LabelsHas, OtherHas
    <2> QED
      BY <2>1, Arrives
  <1>RaiseStep.
    ASSUME Raise(r)
    PROVE  FrameKept(r) /\ Goes(r, {"fin_op"})
    BY Zenon, <1>RaiseStep, FailFrame, GotoGoes, OtherHas, LabelsHas DEF Raise
  <1>StepsInside.
    ASSUME pc[r] \in Inside, NEW L, Goes(r, L), \A l \in L : MayReach(r, l), FrameInside(r),
           FrameFits(r, frame'[r])
    PROVE  InsideStep(r)
    <2> USE <1>StepsInside
    <2>1. pc'[r] \in L /\ MayReach(r, pc'[r])
      BY Zenon DEF Goes
    <2>2. Goes(r, Inside \cup {"fin_op"})
      BY Zenon, <2>1 DEF Goes, MayReach
    <2>3. IsRetry(r) \/ Kind[r] = "accept" => frame'[r].prior \in Requests
      BY Zenon, InsideFacts DEF RequestOK, FrameInside, Prior
    <2>4. /\ Fits(r, pc'[r]) /\ LabelFits(r, pc'[r], frame'[r])
          /\ AttemptFits(r, pc'[r], frame'[r].state, attempt'[r])
          /\ pc[r] \in PostActive => pc'[r] \in PostActive
      BY <2>1 DEF MayReach
    <2>5. due'[r] # <<>> => pc'[r] \in TryPc \cup {"t_store"}
      BY Zenon DEF Goes
    <2>6. RequestOK(r)'
      BY Zenon, <2>3, <2>4, <2>5, RequestOKNext
    <2> QED
      BY Zenon, <2>2, <2>4, <2>6 DEF InsideStep
  <1>MovesInside.
    ASSUME pc[r] \in Inside, NEW l, Goes(r, {l}), MayReach(r, l), NEW st, NEW tm, NEW lt,
           FrameMoves(r, st, tm, lt), frame[r].late => lt, tm \in {r, frame[r].tmo},
           IsRetry(r) /\ tm # None => frame[r].tmo # None
    PROVE  InsideStep(r)
    <2> USE <1>MovesInside
    <2>1. FrameFits(r, frame'[r])
      BY Zenon DEF RequestOK, FrameFits, FrameMoves, FrameStep
    <2>2. FrameInside(r)
      BY Zenon DEF FrameMoves, FrameStep, FrameInside
    <2> QED
      BY <2>1, <2>2, <1>StepsInside
  <1>KeepsInside.
    ASSUME pc[r] \in Inside, NEW l, Goes(r, {l}), MayReach(r, l), FrameKept(r)
    PROVE  InsideStep(r)
    BY <1>KeepsInside, <1>MovesInside DEF FrameKept
  (* A step that reaches one at which nothing special is known. *)
  <1>PlainReach.
    ASSUME NEW l \in PlainPc \cap (Inside \cup {"fin_op"}), Fits(r, l),
           pc[r] \in PostActive => l \in PostActive
    PROVE  MayReach(r, l)
    BY <1>PlainReach, PlainFits DEF MayReach
  <1>RaisesInside.
    ASSUME pc[r] \in Inside, Raise(r)
    PROVE  InsideStep(r)
    <2> USE <1>RaisesInside
    <2>1. Goes(r, {"fin_op"}) /\ FrameKept(r)
      BY Zenon, <1>RaiseStep
    <2>2. Fits(r, "fin_op")
      BY QueryOnly, QueryTo DEF RequestOK, Locked, QueryLabels
    <2>3. MayReach(r, "fin_op")
      BY <2>2, <1>PlainReach DEF PlainPc, PostActive
    <2> QED
      BY <2>1, <2>2, <2>3, <1>KeepsInside
  <1>SubmitLabelsHas. /\ "touch" \in SubmitLabels /\ "register" \in SubmitLabels /\ "track" \in SubmitLabels
                      /\ "store" \in SubmitLabels /\ "policy" \in SubmitLabels /\ "llm" \in SubmitLabels
                      /\ "eval" \in SubmitLabels /\ "quota_exec" \in SubmitLabels /\ "exec" \in SubmitLabels
                      /\ "save" \in SubmitLabels /\ "activate" \in SubmitLabels /\ "cancel_exec" \in SubmitLabels
                      /\ "policy" \notin Loaded
    BY DEF SubmitLabels, QueryLabels, Loaded
  <1>RetryLabelsHas. /\ "load_attempt" \in RetryLabels /\ "register" \in RetryLabels /\ "track" \in RetryLabels
                     /\ "decide" \in RetryLabels /\ "bound" \in RetryLabels /\ "quota_llm" \in RetryLabels
                     /\ "llm" \in RetryLabels /\ "eval" \in RetryLabels /\ "quota_exec" \in RetryLabels
                     /\ "exec" \in RetryLabels /\ "save" \in RetryLabels /\ "track_new" \in RetryLabels
                     /\ "store" \in RetryLabels /\ "activate" \in RetryLabels /\ "cancel_exec" \in RetryLabels
                     /\ "reject_track" \in RetryLabels /\ "reject_store" \in RetryLabels
                     /\ "retire_prior" \in RetryLabels /\ "drop_prior" \in RetryLabels /\ "drop_active" \in RetryLabels
                     /\ "reject_prior" \in RetryLabels /\ "t_prior" \in RetryLabels
    BY DEF RetryLabels, QueryLabels
  <1>QueryLabelsHas. /\ "reply" \in QueryLabels /\ "rollback" \in QueryLabels /\ "cancel" \in QueryLabels
                     /\ "discard" \in QueryLabels /\ "t_store" \in QueryLabels /\ "t_active" \in QueryLabels
                     /\ "fin_op" \in QueryLabels
    BY Zenon DEF QueryLabels
  <1>WorkingSource.
    ASSUME pc[r] \in Working
    PROVE  pc[r] \in Inside /\ pc[r] \notin PostActive /\ frame[r].trk # None
    BY Zenon, <1>WorkingSource, WorkingFacts DEF RequestOK, LabelFits
  <1>SubmitReach.
    ASSUME Kind[r] = "submit", NEW l \in Working \cap SubmitLabels, pc[r] \notin PostActive,
           frame'[r].trk # None, StateFits(r, l, frame'[r].state),
           attempt'[r] # None =>
              /\ l \in {"save", "activate"} => attempt'[r].state = "EXECUTED"
              /\ Rank[attempt'[r].state] =< Rank[frame'[r].state]
    PROVE  MayReach(r, l)
    <2> USE <1>SubmitReach
    <2>1. Fits(r, l) /\ l \in Inside
      BY SubmitTo, WorkingFacts
    <2>2. ~IsRetry(r)
      BY Zenon DEF IsRetry
    <2>3. LabelFits(r, l, frame'[r])
      BY Zenon, <2>2, WorkingFacts DEF LabelFits
    <2>4. AttemptFits(r, l, frame'[r].state, attempt'[r])
      BY Zenon, <2>2, WorkingFacts, <1>SubmitLabelsHas DEF AttemptFits
    <2> QED
      BY Zenon, <2>1, <2>3, <2>4 DEF MayReach
  <1>RetryReach.
    ASSUME IsRetry(r), NEW l \in Working \cap RetryLabels, pc[r] \notin PostActive,
           frame'[r].trk # None, frame'[r].tmo # None, StateFits(r, l, frame'[r].state),
           attempt'[r] # None => l = "activate" /\ attempt'[r].state = "EXECUTED"
    PROVE  MayReach(r, l)
    <2> USE <1>RetryReach
    <2>1. Fits(r, l) /\ l \in Inside
      BY RetryTo, WorkingFacts
    <2>2. Kind[r] # "submit"
      BY Zenon DEF IsRetry
    <2>3. LabelFits(r, l, frame'[r])
      BY Zenon, WorkingFacts DEF LabelFits
    <2>4. AttemptFits(r, l, frame'[r].state, attempt'[r])
      BY <2>2, WorkingFacts DEF AttemptFits
    <2> QED
      BY Zenon, <2>1, <2>3, <2>4 DEF MayReach
  <1>PlainQueryReach.
    ASSUME IsQuery(r), NEW l \in {"reply", "rollback", "discard", "fin_op"}
    PROVE  MayReach(r, l)
    BY Zenon, <1>PlainQueryReach, <1>PlainReach, QueryTo, <1>QueryLabelsHas, TryHas, InsideFacts DEF PlainPc, PostActive
  (* The usual ways on: the next step of the pipeline, with or without a new *)
  (* state of the attempt in hand, an answer, or the end of a retry.         *)
  <1>SubmitOnward.
    ASSUME Kind[r] = "submit", pc[r] \in Working, NEW l \in Working \cap SubmitLabels, Goes(r, {l}),
           FrameKept(r), attempt' = attempt, StateFits(r, l, frame[r].state),
           l \in {"save", "activate"} => pc[r] = "save"
    PROVE  InsideStep(r)
    <2> USE <1>SubmitOnward
    <2>1. pc[r] \in Inside /\ pc[r] \notin PostActive /\ frame[r].trk # None
      BY Zenon, <1>WorkingSource
    <2>2. frame'[r].trk = frame[r].trk /\ frame'[r].state = frame[r].state
      BY Zenon DEF FrameKept, FrameMoves, FrameStep
    <2>3. attempt'[r] # None =>
             /\ l \in {"save", "activate"} => attempt'[r].state = "EXECUTED"
             /\ Rank[attempt'[r].state] =< Rank[frame'[r].state]
      BY Zenon, <2>2, SubmitSource
    <2>4. MayReach(r, l)
      BY Zenon, <2>1, <2>2, <2>3, <1>SubmitReach
    <2> QED
      BY Zenon, <2>1, <2>4, <1>KeepsInside
  <1>RetryOnward.
    ASSUME IsRetry(r), pc[r] \in Working \ {"policy", "activate"},
           NEW l \in (Working \cap RetryLabels) \ {"store"}, Goes(r, {l}), FrameKept(r),
           attempt' = attempt
    PROVE  InsideStep(r)
    <2> USE <1>RetryOnward
    <2>1. pc[r] \in Inside /\ pc[r] \notin PostActive /\ frame[r].trk # None
      BY Zenon, <1>WorkingSource
    <2>2. frame[r].tmo # None /\ attempt[r] = None
      BY RetrySource
    <2>3. StateFits(r, l, frame[r].state)
      BY Zenon DEF StateFits, IsRetry
    <2>4. frame'[r].trk # None /\ frame'[r].tmo # None /\ frame'[r].state = frame[r].state
      BY Zenon, <2>1, <2>2 DEF FrameKept, FrameMoves, FrameStep
    <2>5. MayReach(r, l)
      BY <2>1, <2>2, <2>3, <2>4, <1>RetryReach
    <2> QED
      BY Zenon, <2>1, <2>5, <1>KeepsInside
  <1>PlainOnward.
    ASSUME IsQuery(r), pc[r] \in Inside, NEW l \in {"reply", "rollback", "discard", "fin_op"},
           Goes(r, {l}), FrameKept(r)
    PROVE  InsideStep(r)
    BY <1>PlainOnward, <1>PlainQueryReach, <1>KeepsInside
  <1>RetryEnds.
    ASSUME IsRetry(r), pc[r] \in Inside, pc[r] \notin PostActive,
           NEW l \in {"retire_prior", "drop_prior", "drop_active", "reject_prior"}, Goes(r, {l}),
           FrameKept(r)
    PROVE  InsideStep(r)
    <2> USE <1>RetryEnds
    <2>PlainRetryReach. MayReach(r, l)
      BY <1>PlainReach, RetryTo, <1>RetryLabelsHas, TryHas, InsideFacts DEF PlainPc
    <2> QED
      BY Zenon, <2>PlainRetryReach, <1>KeepsInside
  (* The pipeline of submit_question. *)
  <1>SubmitSteps.
    ASSUME Kind[r] = "submit", attempt' = attempt
    PROVE  /\ LogSubmitAndResolvePolicy(r) => InsideStep(r)
           /\ SubmitGenerate(r) => InsideStep(r)
           /\ SubmitEvaluate(r) => InsideStep(r)
           /\ SubmitQuota(r) => InsideStep(r)
           /\ SubmitExecute(r) => InsideStep(r)
           /\ SubmitSave(r) => InsideStep(r)
    <2> USE <1>SubmitSteps
    <2>WriteState.
      ASSUME frame \in [Requests -> Frames], NEW st \in Maybe(AttemptStates),
             frame' = [frame EXCEPT ![r].state = st]
      PROVE  FrameMoves(r, st, frame[r].tmo, frame[r].late)
      <3> USE <2>WriteState
      <3> DEFINE f == [frame[r] EXCEPT !.state = st]
      <3>1. f \in Frames
        BY ZenonT(60) DEF Frames
      <3>2. frame' = [frame EXCEPT ![r] = f]
        BY Zenon
      <3>3. /\ f.chat = frame[r].chat /\ f.prior = frame[r].prior /\ f.trk = frame[r].trk
            /\ f.state = st /\ f.tmo = frame[r].tmo /\ f.late = frame[r].late
        BY ZenonT(30) DEF Frames
      <3> HIDE DEF f
      <3> QED
        BY <3>1, <3>2, <3>3, FrameWritten, Zenon DEF FrameMoves
    <2>StateFrame.
      ASSUME NEW st \in AttemptStates, ToStore(r, st)
      PROVE  FrameMoves(r, st, frame[r].tmo, frame[r].late)
      BY Zenon, <2>StateFrame, <2>WriteState DEF TypeOK, ToStore, Maybe
    <2>WriteStateOk.
      ASSUME frame \in [Requests -> Frames], NEW st \in Maybe(AttemptStates), NEW v \in BOOLEAN,
             frame' = [frame EXCEPT ![r].state = st, ![r].ok = v]
      PROVE  FrameMoves(r, st, frame[r].tmo, frame[r].late)
      <3> USE <2>WriteStateOk
      <3> DEFINE f == [frame[r] EXCEPT !.state = st, !.ok = v]
      <3>1. f \in Frames
        BY ZenonT(60) DEF Frames
      <3>2. frame' = [frame EXCEPT ![r] = f]
        BY Zenon
      <3>3. /\ f.chat = frame[r].chat /\ f.prior = frame[r].prior /\ f.trk = frame[r].trk
            /\ f.state = st /\ f.tmo = frame[r].tmo /\ f.late = frame[r].late
        BY ZenonT(30) DEF Frames
      <3> HIDE DEF f
      <3> QED
        BY <3>1, <3>2, <3>3, FrameWritten, Zenon DEF FrameMoves
    <2>StateInside.
      ASSUME pc[r] \in Inside, NEW l, Goes(r, {l}), MayReach(r, l), NEW st,
             FrameMoves(r, st, frame[r].tmo, frame[r].late)
      PROVE  InsideStep(r)
      BY Zenon, <2>StateInside, <1>MovesInside
    <2>SubmitStores.
      ASSUME pc[r] \in Working, Goes(r, {"store"}), NEW s \in AttemptStates, frame[r].state = s,
             NEW st \in AttemptStates \ {"TIMEOUT"}, FrameMoves(r, st, frame[r].tmo, frame[r].late),
             Rank[s] =< Rank[st]
      PROVE  InsideStep(r)
      <3> USE <2>SubmitStores
      <3>1. pc[r] \in Inside /\ pc[r] \notin PostActive /\ frame[r].trk # None
        BY Zenon, <1>WorkingSource
      <3>2. frame'[r].trk = frame[r].trk /\ frame'[r].state = st
        BY Zenon DEF FrameMoves, FrameStep
      <3>3. StateFits(r, "store", st)
        BY Zenon DEF StateFits, IsRetry
      <3>4. attempt[r] # None => Rank[attempt[r].state] =< Rank[st]
        BY Zenon, SubmitBehind
      <3>5. MayReach(r, "store")
        BY <3>1, <3>2, <3>3, <3>4, <1>SubmitReach, WorkingHas, <1>SubmitLabelsHas
      <3> QED
        BY <3>1, <3>5, <2>StateInside
    <2>0. IsQuery(r)
      BY DEF IsQuery
    <2>1. ASSUME LogSubmitAndResolvePolicy(r) PROVE InsideStep(r)
      <3>1. pc[r] = "policy" /\ pc[r] \in Working /\ pc[r] \in Inside /\ frame[r].state = "PENDING"
        BY Zenon, <2>1, SubmitSource, <1>WorkingSource, WorkingHas DEF LogSubmitAndResolvePolicy, At, StateFits
      <3>2. CASE EnsureThen(r, "llm") /\ UNCHANGED frame
        <4>1. Goes(r, {"llm"}) /\ FrameKept(r)
          BY <3>2, <1>EnsureGoes, TryHas, SameFrame, Zenon
        <4>2. StateFits(r, "llm", frame[r].state)
          BY Zenon, <3>1 DEF StateFits, IsRetry
        <4> QED
          BY <3>1, <4>1, <4>2, <1>SubmitOnward, <1>SubmitLabelsHas, WorkingHas
      <3>3. CASE EnsureThen(r, "store") /\ ToStore(r, "REJECTED")
        <4>1. Goes(r, {"store"})
          BY <3>3, <1>EnsureGoes, TryHas, Zenon
        <4>2. FrameMoves(r, "REJECTED", frame[r].tmo, frame[r].late)
          BY <3>3, <2>StateFrame DEF AttemptStates
        <4> QED
          BY <3>1, <4>1, <4>2, <2>SubmitStores, RankOrder DEF AttemptStates
      <3> QED
        BY <2>1, <3>2, <3>3 DEF LogSubmitAndResolvePolicy
    <2>2. ASSUME SubmitGenerate(r) PROVE InsideStep(r)
      <3>1. pc[r] = "llm" /\ pc[r] \in Working /\ pc[r] \in Inside /\ frame[r].state = "PENDING"
        BY Zenon, <2>2, SubmitSource, <1>WorkingSource, WorkingHas DEF SubmitGenerate, At, StateFits
      <3>2. CASE Raise(r)
        BY Zenon, <3>1, <3>2, <1>RaisesInside
      <3>3. CASE EnsureThen(r, "store") /\ ToStore(r, "GENERATED")
        <4>1. Goes(r, {"store"})
          BY <3>3, <1>EnsureGoes, TryHas, Zenon
        <4>2. FrameMoves(r, "GENERATED", frame[r].tmo, frame[r].late)
          BY <3>3, <2>StateFrame DEF AttemptStates
        <4> QED
          BY <3>1, <4>1, <4>2, <2>SubmitStores, RankOrder DEF AttemptStates
      <3> QED
        BY Zenon, <2>2, <3>2, <3>3 DEF SubmitGenerate
    <2>3. ASSUME SubmitEvaluate(r) PROVE InsideStep(r)
      <3>1. pc[r] = "eval" /\ pc[r] \in Working /\ pc[r] \in Inside /\ frame[r].state = "GENERATED"
        BY Zenon, <2>3, SubmitSource, <1>WorkingSource, WorkingHas DEF SubmitEvaluate, At, StateFits
      <3>2. CASE EnsureThen(r, "store") /\ ToStore(r, "EVALUATED")
        <4>1. Goes(r, {"store"})
          BY <3>2, <1>EnsureGoes, TryHas, Zenon
        <4>2. FrameMoves(r, "EVALUATED", frame[r].tmo, frame[r].late)
          BY Zenon, <3>2, <2>StateFrame DEF AttemptStates
        <4> QED
          BY <3>1, <4>1, <4>2, <2>SubmitStores, RankOrder DEF AttemptStates
      <3>3. CASE EnsureThen(r, "store") /\ ToStore(r, "REJECTED")
        <4>1. Goes(r, {"store"})
          BY <3>3, <1>EnsureGoes, TryHas, Zenon
        <4>2. FrameMoves(r, "REJECTED", frame[r].tmo, frame[r].late)
          BY <3>3, <2>StateFrame DEF AttemptStates
        <4> QED
          BY <3>1, <4>1, <4>2, <2>SubmitStores, RankOrder DEF AttemptStates
      <3> QED
        BY Zenon, <2>3, <3>2, <3>3 DEF SubmitEvaluate
    <2>4. ASSUME SubmitQuota(r) PROVE InsideStep(r)
      <3>1. pc[r] = "quota_exec" /\ pc[r] \in Working /\ pc[r] \in Inside /\ frame[r].state = "EVALUATED"
        BY Zenon, <2>4, SubmitSource, <1>WorkingSource, WorkingHas DEF SubmitQuota, At, StateFits
      <3>2. CASE Raise(r)
        BY Zenon, <3>1, <3>2, <1>RaisesInside
      <3>3. CASE EnsureThen(r, "exec") /\ UNCHANGED frame
        <4>1. Goes(r, {"exec"}) /\ FrameKept(r)
          BY <3>3, <1>EnsureGoes, TryHas, SameFrame, Zenon
        <4>2. StateFits(r, "exec", frame[r].state)
          BY Zenon, <3>1 DEF StateFits, IsRetry
        <4> QED
          BY <3>1, <4>1, <4>2, <1>SubmitOnward, <1>SubmitLabelsHas, WorkingHas
      <3>4. CASE Goto(r, "rollback") /\ Fail(r)
        <4>1. Goes(r, {"rollback"}) /\ FrameKept(r)
          BY <3>4, GotoGoes, LabelsHas, TryHas, FailFrame, Zenon
        <4> QED
          BY <2>0, <3>1, <4>1, <1>PlainOnward
      <3> QED
        BY Zenon, <2>4, <3>2, <3>3, <3>4 DEF SubmitQuota
    <2>5. ASSUME SubmitExecute(r) PROVE InsideStep(r)
      <3>1. pc[r] = "exec" /\ pc[r] \in Working /\ pc[r] \in Inside /\ frame[r].state = "EVALUATED"
        BY Zenon, <2>5, SubmitSource, <1>WorkingSource, WorkingHas DEF SubmitExecute, At, StateFits
      <3>2. CASE EnsureThen(r, "store") /\ ToStore(r, "EXECUTED")
        <4>1. Goes(r, {"store"})
          BY <3>2, <1>EnsureGoes, TryHas, Zenon
        <4>2. FrameMoves(r, "EXECUTED", frame[r].tmo, frame[r].late)
          BY Zenon, <3>2, <2>StateFrame DEF AttemptStates
        <4> QED
          BY <3>1, <4>1, <4>2, <2>SubmitStores, RankOrder DEF AttemptStates
      <3>3. CASE /\ Goto(r, "store")
                /\ frame' = [frame EXCEPT ![r].state = "FAILED", ![r].ok = FALSE]
        <4>1. Goes(r, {"store"})
          BY <3>3, GotoGoes, LabelsHas, TryHas, ZenonT(30)
        <4>2. FrameMoves(r, "FAILED", frame[r].tmo, frame[r].late)
          BY Zenon, <3>3, <2>WriteStateOk DEF AttemptStates, Maybe, TypeOK
        <4> QED
          BY <3>1, <4>1, <4>2, <2>SubmitStores, RankOrder DEF AttemptStates
      <3>4. CASE EnsureThen(r, "reply") /\ Fail(r)
        <4>1. Goes(r, {"reply"}) /\ FrameKept(r)
          BY <3>4, <1>EnsureGoes, TryHas, FailFrame, Zenon
        <4> QED
          BY <2>0, <3>1, <4>1, <1>PlainOnward
      <3> QED
        BY Zenon, <2>5, <3>2, <3>3, <3>4 DEF SubmitExecute
    <2>6. ASSUME SubmitSave(r) PROVE InsideStep(r)
      <3>1. pc[r] = "save" /\ pc[r] \in Working /\ pc[r] \in Inside
        BY <2>6, SubmitSource, <1>WorkingSource, WorkingHas DEF SubmitSave, At, StateFits
      <3>2. Goes(r, {"activate"}) /\ FrameKept(r)
        BY <2>6, <1>EnsureGoes, TryHas, SameFrame, Zenon DEF SubmitSave
      <3>3. StateFits(r, "activate", frame[r].state)
        BY Zenon DEF StateFits, IsRetry
      <3> QED
        BY <3>1, <3>2, <3>3, <1>SubmitOnward, <1>SubmitLabelsHas, WorkingHas
    <2> QED
      BY <2>1, <2>2, <2>3, <2>4, <2>5, <2>6
  <1>TmoInside.
    ASSUME pc[r] \in Inside, NEW l, Goes(r, {l}), MayReach(r, l), NEW st,
           FrameMoves(r, st, r, frame[r].late), IsRetry(r) => frame[r].tmo # None
    PROVE  InsideStep(r)
    BY <1>TmoInside, <1>MovesInside
  (* The pipeline of _retry_query. *)
  <1>RetrySteps.
    ASSUME IsRetry(r), attempt' = attempt
    PROVE  /\ RetryDecide(r) => InsideStep(r)
           /\ RetryBound(r) => InsideStep(r)
           /\ ConsumeRetryQuota(r) => InsideStep(r)
           /\ RetryGenerate(r) => InsideStep(r)
           /\ RetryEvaluate(r) => InsideStep(r)
           /\ RetryExecute(r) => InsideStep(r)
           /\ RetrySave(r) => InsideStep(r)
           /\ RetryTrackNew(r) => InsideStep(r)
           /\ RejectTrack(r) => InsideStep(r)
    <2> USE <1>RetrySteps
    <2>WriteTmo.
      ASSUME frame \in [Requests -> Frames], NEW t \in Maybe(Requests),
             frame' = [frame EXCEPT ![r].tmo = t]
      PROVE  FrameMoves(r, frame[r].state, t, frame[r].late)
      <3> USE <2>WriteTmo
      <3> DEFINE f == [frame[r] EXCEPT !.tmo = t]
      <3>1. f \in Frames
        BY ZenonT(60) DEF Frames
      <3>2. frame' = [frame EXCEPT ![r] = f]
        BY Zenon
      <3>3. /\ f.chat = frame[r].chat /\ f.prior = frame[r].prior /\ f.trk = frame[r].trk
            /\ f.state = frame[r].state /\ f.tmo = t /\ f.late = frame[r].late
        BY ZenonT(30) DEF Frames
      <3> HIDE DEF f
      <3> QED
        BY <3>1, <3>2, <3>3, FrameWritten, Zenon DEF FrameMoves
    <2>WriteTmoOk.
      ASSUME frame \in [Requests -> Frames], NEW t \in Maybe(Requests), NEW v \in BOOLEAN,
             frame' = [frame EXCEPT ![r].tmo = t, ![r].ok = v]
      PROVE  FrameMoves(r, frame[r].state, t, frame[r].late)
      <3> USE <2>WriteTmoOk
      <3> DEFINE f == [frame[r] EXCEPT !.tmo = t, !.ok = v]
      <3>1. f \in Frames
        BY ZenonT(60) DEF Frames
      <3>2. frame' = [frame EXCEPT ![r] = f]
        BY Zenon
      <3>3. /\ f.chat = frame[r].chat /\ f.prior = frame[r].prior /\ f.trk = frame[r].trk
            /\ f.state = frame[r].state /\ f.tmo = t /\ f.late = frame[r].late
        BY ZenonT(30) DEF Frames
      <3> HIDE DEF f
      <3> QED
        BY <3>1, <3>2, <3>3, FrameWritten, Zenon DEF FrameMoves
    <2>WriteTrkTmoState.
      ASSUME frame \in [Requests -> Frames], NEW k \in Maybe(Requests), NEW t \in Maybe(Requests),
             NEW st \in Maybe(AttemptStates),
             frame' = [frame EXCEPT ![r].trk = k, ![r].tmo = t, ![r].state = st]
      PROVE  FrameStep(r, frame[r].chat, frame[r].prior, k, st, t, frame[r].late)
      <3> USE <2>WriteTrkTmoState
      <3> DEFINE f == [frame[r] EXCEPT !.trk = k, !.tmo = t, !.state = st]
      <3>1. f \in Frames
        BY ZenonT(60) DEF Frames
      <3>2. frame' = [frame EXCEPT ![r] = f]
        BY Zenon
      <3>3. /\ f.chat = frame[r].chat /\ f.prior = frame[r].prior /\ f.trk = k
            /\ f.state = st /\ f.tmo = t /\ f.late = frame[r].late
        BY ZenonT(30) DEF Frames
      <3> HIDE DEF f
      <3> QED
        BY <3>1, <3>2, <3>3, FrameWritten, Zenon
    <2>0. IsQuery(r)
      BY DEF IsQuery
    <2>1. ASSUME RetryDecide(r) PROVE InsideStep(r)
      <3>1. /\ pc[r] = "decide" /\ pc[r] \in Working \ {"policy", "activate"}
            /\ pc[r] \in Inside /\ pc[r] \notin PostActive
        BY <2>1, <1>WorkingSource, WorkingHas DEF RetryDecide, At
      <3>2. CASE Goto(r, "drop_active") /\ Fail(r)
        <4>1. Goes(r, {"drop_active"}) /\ FrameKept(r)
          BY <3>2, GotoGoes, LabelsHas, TryHas, FailFrame, Zenon
        <4> QED
          BY <3>1, <4>1, <1>RetryEnds
      <3>3. CASE /\ AwaitThen(r, IF Kind[r] = "reject" THEN <<"ensure", "log", "ensure">>
                                                   ELSE <<"ensure">>, "bound")
                /\ UNCHANGED frame
        <4>1. PICK list \in Waits : AwaitThen(r, list, "bound")
          BY <3>3, WaitsHas
        <4>2. Goes(r, {"bound"}) /\ FrameKept(r)
          BY <3>3, <4>1, <1>AwaitGoes, TryHas, SameFrame, Zenon
        <4> QED
          BY <3>1, <4>2, <1>RetryOnward, <1>RetryLabelsHas, WorkingHas
      <3> QED
        BY Zenon, <2>1, <3>2, <3>3 DEF RetryDecide
    <2>2. ASSUME RetryBound(r) PROVE InsideStep(r)
      <3>1. /\ pc[r] = "bound" /\ pc[r] \in Working \ {"policy", "activate"}
            /\ pc[r] \in Inside /\ pc[r] \notin PostActive
        BY <2>2, <1>WorkingSource, WorkingHas DEF RetryBound, At
      <3>u. UNCHANGED frame
        BY <2>2 DEF RetryBound
      <3>2. CASE EnsureThen(r, "quota_llm")
        <4>1. Goes(r, {"quota_llm"}) /\ FrameKept(r)
          BY <3>u, <3>2, <1>EnsureGoes, TryHas, SameFrame, Zenon
        <4> QED
          BY <3>1, <4>1, <1>RetryOnward, <1>RetryLabelsHas, WorkingHas
      <3>3. CASE \E list \in {<<"ensure">>, <<"ensure", "log">>} : AwaitThen(r, list, "drop_active")
        <4>1. PICK list \in Waits : AwaitThen(r, list, "drop_active")
          BY <3>3, WaitsHas
        <4>2. Goes(r, {"drop_active"}) /\ FrameKept(r)
          BY <3>u, <4>1, <1>AwaitGoes, TryHas, SameFrame, Zenon
        <4> QED
          BY <3>1, <4>2, <1>RetryEnds
      <3> QED
        BY Zenon, <2>2, <3>2, <3>3 DEF RetryBound
    <2>3. ASSUME ConsumeRetryQuota(r) PROVE InsideStep(r)
      <3>1. /\ pc[r] \in {"quota_llm", "quota_exec"} /\ pc[r] \in Working \ {"policy", "activate"}
            /\ pc[r] \in Inside /\ pc[r] \notin PostActive
        BY Zenon, <2>3, <1>WorkingSource, WorkingHas DEF ConsumeRetryQuota, At
      <3>2. frame[r].tmo # None /\ attempt[r] = None /\ frame[r].trk # None
        BY <3>1, RetrySource, <1>WorkingSource
      <3>3. r \in Maybe(Requests) /\ frame \in [Requests -> Frames] /\ r # None
        BY Zenon DEF Maybe, TypeOK, QueryAssumption
      <3>4. CASE /\ Goto(r, IF pc[r] = "quota_llm" THEN "llm" ELSE "exec")
                 /\ frame' = [frame EXCEPT ![r].tmo = r]
        <4>1. PICK l \in {"llm", "exec"} : Goto(r, l)
          BY Zenon, <3>4
        <4>2. l \in Labels /\ l \in (Working \cap RetryLabels) \ {"store"}
          BY LabelsHas, TryHas, <1>RetryLabelsHas, WorkingHas
        <4>3. Goes(r, {l})
          BY <4>1, <4>2, GotoGoes
        <4>4. FrameMoves(r, frame[r].state, r, frame[r].late)
          BY Zenon, <3>3, <3>4, <2>WriteTmo
        <4>5. StateFits(r, l, frame'[r].state)
          BY Zenon, <4>2 DEF StateFits, IsRetry
        <4>6. frame'[r].tmo # None /\ frame'[r].trk # None
          BY Zenon, <3>2, <3>3, <4>4 DEF FrameMoves, FrameStep
        <4>7. MayReach(r, l)
          BY Zenon, <3>1, <3>2, <4>2, <4>5, <4>6, <1>RetryReach
        <4> QED
          BY <3>1, <3>2, <4>3, <4>4, <4>7, <1>TmoInside
      <3>5. CASE /\ \E l \in {"reply", "rollback"} : EnsureThen(r, l)
                 /\ frame' = [frame EXCEPT ![r].tmo = r, ![r].ok = FALSE]
        <4>1. PICK l \in {"reply", "rollback"} : EnsureThen(r, l)
          BY <3>5
        <4>2. Goes(r, {l})
          BY <4>1, <1>EnsureGoes, TryHas, SMTT(30)
        <4>3. FrameMoves(r, frame[r].state, r, frame[r].late)
          BY Zenon, <3>3, <3>5, <2>WriteTmoOk
        <4>4. MayReach(r, l)
          BY Zenon, <2>0, <1>PlainQueryReach
        <4> QED
          BY <3>1, <3>2, <4>2, <4>3, <4>4, <1>TmoInside
      <3> QED
        BY <2>3, <3>4, <3>5 DEF ConsumeRetryQuota
    <2>4. ASSUME RetryGenerate(r) PROVE InsideStep(r)
      <3>1. /\ pc[r] = "llm" /\ pc[r] \in Working \ {"policy", "activate"}
            /\ pc[r] \in Inside /\ pc[r] \notin PostActive
        BY Zenon, <2>4, <1>WorkingSource, WorkingHas DEF RetryGenerate, At
      <3>2. CASE AwaitThen(r, <<"ensure", "log", "ensure">>, "eval") /\ UNCHANGED frame
        <4>1. Goes(r, {"eval"}) /\ FrameKept(r)
          BY <3>2, <1>AwaitGoes, WaitsHas, TryHas, SameFrame, Zenon
        <4> QED
          BY <3>1, <4>1, <1>RetryOnward, <1>RetryLabelsHas, WorkingHas
      <3>3. CASE AwaitThen(r, <<"ensure", "log", "ensure", "log">>, "drop_prior") /\ UNCHANGED frame
        <4>1. Goes(r, {"drop_prior"}) /\ FrameKept(r)
          BY <3>3, <1>AwaitGoes, WaitsHas, TryHas, SameFrame, Zenon
        <4> QED
          BY <3>1, <4>1, <1>RetryEnds
      <3>4. CASE AwaitThen(r, <<"ensure", "log">>, "drop_active") /\ Fail(r)
        <4>1. Goes(r, {"drop_active"}) /\ FrameKept(r)
          BY <3>4, <1>AwaitGoes, WaitsHas, TryHas, FailFrame, Zenon
        <4> QED
          BY <3>1, <4>1, <1>RetryEnds
      <3> QED
        BY Zenon, <2>4, <3>2, <3>3, <3>4 DEF RetryGenerate
    <2>5. ASSUME RetryEvaluate(r) PROVE InsideStep(r)
      <3>1. /\ pc[r] = "eval" /\ pc[r] \in Working \ {"policy", "activate"}
            /\ pc[r] \in Inside /\ pc[r] \notin PostActive
        BY Zenon, <2>5, <1>WorkingSource, WorkingHas DEF RetryEvaluate, At
      <3>2. CASE AwaitThen(r, <<"ensure", "log">>, "reject_track") /\ UNCHANGED frame
        <4>1. Goes(r, {"reject_track"}) /\ FrameKept(r)
          BY <3>2, <1>AwaitGoes, WaitsHas, TryHas, SameFrame, Zenon
        <4> QED
          BY <3>1, <4>1, <1>RetryOnward, <1>RetryLabelsHas, WorkingHas
      <3>3. CASE AwaitThen(r, <<"ensure", "log", "ensure", "log">>, "reject_track") /\ UNCHANGED frame
        <4>1. Goes(r, {"reject_track"}) /\ FrameKept(r)
          BY <3>3, <1>AwaitGoes, WaitsHas, TryHas, SameFrame, Zenon
        <4> QED
          BY <3>1, <4>1, <1>RetryOnward, <1>RetryLabelsHas, WorkingHas
      <3>4. CASE AwaitThen(r, <<"ensure", "log", "ensure", "log">>, "drop_prior") /\ Fail(r)
        <4>1. Goes(r, {"drop_prior"}) /\ FrameKept(r)
          BY <3>4, <1>AwaitGoes, WaitsHas, TryHas, FailFrame, Zenon
        <4> QED
          BY <3>1, <4>1, <1>RetryEnds
      <3>5. CASE AwaitThen(r, <<"ensure", "log", "ensure">>, "quota_exec") /\ UNCHANGED frame
        <4>1. Goes(r, {"quota_exec"}) /\ FrameKept(r)
          BY <3>5, <1>AwaitGoes, WaitsHas, TryHas, SameFrame, Zenon
        <4> QED
          BY <3>1, <4>1, <1>RetryOnward, <1>RetryLabelsHas, WorkingHas
      <3> QED
        BY Zenon, <2>5, <3>2, <3>3, <3>4, <3>5 DEF RetryEvaluate
    <2>6. ASSUME RetryExecute(r) PROVE InsideStep(r)
      <3>1. /\ pc[r] = "exec" /\ pc[r] \in Working \ {"policy", "activate"}
            /\ pc[r] \in Inside /\ pc[r] \notin PostActive
        BY <2>6, <1>WorkingSource, WorkingHas DEF RetryExecute, At
      <3>2. CASE EnsureThen(r, "save") /\ UNCHANGED frame
        <4>1. Goes(r, {"save"}) /\ FrameKept(r)
          BY <3>2, <1>EnsureGoes, TryHas, SameFrame, Zenon
        <4> QED
          BY <3>1, <4>1, <1>RetryOnward, <1>RetryLabelsHas, WorkingHas
      <3>3. CASE /\ \E list \in {<<"log">>, <<"ensure", "log">>} : AwaitThen(r, list, "drop_prior")
                /\ Fail(r)
        <4>1. PICK list \in Waits : AwaitThen(r, list, "drop_prior")
          BY <3>3, WaitsHas, ZenonT(30)
        <4>2. Goes(r, {"drop_prior"}) /\ FrameKept(r)
          BY <3>3, <4>1, <1>AwaitGoes, TryHas, FailFrame, ZenonT(30)
        <4> QED
          BY <3>1, <4>2, <1>RetryEnds
      <3> QED
        BY Zenon, <2>6, <3>2, <3>3 DEF RetryExecute
    <2>7. ASSUME RetrySave(r) PROVE InsideStep(r)
      <3>1. /\ pc[r] = "save" /\ pc[r] \in Working \ {"policy", "activate"}
            /\ pc[r] \in Inside /\ pc[r] \notin PostActive
        BY Zenon, <2>7, <1>WorkingSource, WorkingHas DEF RetrySave, At
      <3>2. CASE Fail(r) /\ AwaitThen(r, <<"log">>, "reply")
        <4>1. Goes(r, {"reply"}) /\ FrameKept(r)
          BY <3>2, <1>AwaitGoes, WaitsHas, TryHas, FailFrame, Zenon
        <4> QED
          BY <2>0, <3>1, <4>1, <1>PlainOnward
      <3>3. CASE AwaitThen(r, <<"ensure", "log", "ensure">>, "track_new") /\ UNCHANGED frame
        <4>1. Goes(r, {"track_new"}) /\ FrameKept(r)
          BY <3>3, <1>AwaitGoes, WaitsHas, TryHas, SameFrame, Zenon
        <4> QED
          BY <3>1, <4>1, <1>RetryOnward, <1>RetryLabelsHas, WorkingHas
      <3> QED
        BY <2>7, <3>2, <3>3, ZenonT(30) DEF RetrySave
    <2>8. ASSUME RetryTrackNew(r) PROVE InsideStep(r)
      <3>1. /\ pc[r] = "track_new" /\ pc[r] \in Working \ {"policy", "activate"}
            /\ pc[r] \in Inside /\ pc[r] \notin PostActive
        BY Zenon, <2>8, <1>WorkingSource, WorkingHas DEF RetryTrackNew, At
      <3>2. frame[r].tmo # None /\ attempt[r] = None /\ frame[r].trk # None
        BY Zenon, <3>1, RetrySource, <1>WorkingSource
      <3>3. /\ r \in Maybe(Requests) /\ frame \in [Requests -> Frames] /\ r # None
            /\ "EXECUTED" \in Maybe(AttemptStates)
        BY SMTT(30) DEF Maybe, TypeOK, QueryAssumption, AttemptStates
      <3>4. FrameStep(r, frame[r].chat, frame[r].prior, r, "EXECUTED", r, frame[r].late)
        BY Zenon, <2>8, <3>3, <2>WriteTrkTmoState DEF RetryTrackNew
      <3>5. FrameInside(r)
        BY Zenon, <3>2, <3>3, <3>4 DEF FrameStep, FrameInside
      <3>6. FrameFits(r, frame'[r])
        BY <3>2, <3>4 DEF RequestOK, FrameFits, FrameStep
      <3>7. Goes(r, {"store"})
        BY Zenon, <2>8, <1>EnsureGoes, TryHas DEF RetryTrackNew
      <3>8. /\ frame'[r].tmo # None /\ frame'[r].trk # None
            /\ StateFits(r, "store", frame'[r].state)
        BY Zenon, <3>3, <3>4 DEF FrameStep, StateFits, IsRetry
      <3>9. MayReach(r, "store")
        BY Zenon, <3>1, <3>2, <3>8, <1>RetryReach, <1>RetryLabelsHas, WorkingHas
      <3> QED
        BY <3>1, <3>5, <3>6, <3>7, <3>9, <1>StepsInside, SMTT(30)
    <2>9. ASSUME RejectTrack(r) PROVE InsideStep(r)
      <3>1. /\ pc[r] = "reject_track" /\ pc[r] \in Working \ {"policy", "activate"}
            /\ pc[r] \in Inside /\ pc[r] \notin PostActive
        BY <2>9, <1>WorkingSource, WorkingHas DEF RejectTrack, At
      <3>2. Goes(r, {"reject_store"}) /\ FrameKept(r)
        BY <2>9, <1>EnsureGoes, TryHas, SameFrame, Zenon DEF RejectTrack
      <3> QED
        BY ZenonT(30), <3>1, <3>2, <1>RetryOnward, <1>RetryLabelsHas, WorkingHas
    <2> QED
      BY ZenonT(30), <2>1, <2>2, <2>3, <2>4, <2>5, <2>6, <2>7, <2>8, <2>9
  (* The user, the chat session and the prior attempt are looked up. *)
  <1>OpeningSteps.
    ASSUME attempt' = attempt
    PROVE  /\ PrepareSubmit(r) => InsideStep(r)
           /\ OpenChatSession(r) => InsideStep(r)
           /\ LoadActive(r) => InsideStep(r)
           /\ LoadAttempt(r) => InsideStep(r)
           /\ RegisterQueryOperation(r) => InsideStep(r)
    <2> USE <1>OpeningSteps
    <2>WriteTmoState.
      ASSUME frame \in [Requests -> Frames], NEW t \in Maybe(Requests),
             NEW st \in Maybe(AttemptStates), frame' = [frame EXCEPT ![r].tmo = t, ![r].state = st]
      PROVE  FrameMoves(r, st, t, frame[r].late)
      <3> USE <2>WriteTmoState
      <3> DEFINE f == [frame[r] EXCEPT !.tmo = t, !.state = st]
      <3>1. f \in Frames
        BY ZenonT(60) DEF Frames
      <3>2. frame' = [frame EXCEPT ![r] = f]
        BY Zenon
      <3>3. /\ f.chat = frame[r].chat /\ f.prior = frame[r].prior /\ f.trk = frame[r].trk
            /\ f.state = st /\ f.tmo = t /\ f.late = frame[r].late
        BY ZenonT(30) DEF Frames
      <3> HIDE DEF f
      <3> QED
        BY <3>1, <3>2, <3>3, FrameWritten, Zenon DEF FrameMoves
    <2>WriteTmoChat.
      ASSUME frame \in [Requests -> Frames], NEW t \in Maybe(Requests), NEW c \in Maybe(Chats),
             frame' = [frame EXCEPT ![r].tmo = t, ![r].chat = c]
      PROVE  FrameStep(r, c, frame[r].prior, frame[r].trk, frame[r].state, t, frame[r].late)
      <3> USE <2>WriteTmoChat
      <3> DEFINE f == [frame[r] EXCEPT !.tmo = t, !.chat = c]
      <3>1. f \in Frames
        BY ZenonT(60) DEF Frames
      <3>2. frame' = [frame EXCEPT ![r] = f]
        BY Zenon
      <3>3. /\ f.chat = c /\ f.prior = frame[r].prior /\ f.trk = frame[r].trk
            /\ f.state = frame[r].state /\ f.tmo = t /\ f.late = frame[r].late
        BY ZenonT(30) DEF Frames
      <3> HIDE DEF f
      <3> QED
        BY <3>1, <3>2, <3>3, FrameWritten, Zenon
    <2>WriteOperationTrk.
      ASSUME frame \in [Requests -> Frames], NEW o \in BOOLEAN, NEW k \in Maybe(Requests),
             frame' = [frame EXCEPT ![r].operation = o, ![r].trk = k]
      PROVE  FrameStep(r, frame[r].chat, frame[r].prior, k, frame[r].state, frame[r].tmo, frame[r].late)
      <3> USE <2>WriteOperationTrk
      <3> DEFINE f == [frame[r] EXCEPT !.operation = o, !.trk = k]
      <3>1. f \in Frames
        BY ZenonT(60) DEF Frames
      <3>2. frame' = [frame EXCEPT ![r] = f]
        BY Zenon
      <3>3. /\ f.chat = frame[r].chat /\ f.prior = frame[r].prior /\ f.trk = k
            /\ f.state = frame[r].state /\ f.tmo = frame[r].tmo /\ f.late = frame[r].late
        BY ZenonT(30) DEF Frames
      <3> HIDE DEF f
      <3> QED
        BY <3>1, <3>2, <3>3, FrameWritten, Zenon
    <2>WriteOperationOk.
      ASSUME frame \in [Requests -> Frames], NEW o \in BOOLEAN, NEW v \in BOOLEAN,
             frame' = [frame EXCEPT ![r].operation = o, ![r].ok = v]
      PROVE  FrameKept(r)
      <3> USE <2>WriteOperationOk
      <3> DEFINE f == [frame[r] EXCEPT !.operation = o, !.ok = v]
      <3>1. f \in Frames
        BY ZenonT(60) DEF Frames
      <3>2. frame' = [frame EXCEPT ![r] = f]
        BY Zenon
      <3>3. /\ f.chat = frame[r].chat /\ f.prior = frame[r].prior /\ f.trk = frame[r].trk
            /\ f.state = frame[r].state /\ f.tmo = frame[r].tmo /\ f.late = frame[r].late
        BY ZenonT(30) DEF Frames
      <3> HIDE DEF f
      <3> QED
        BY <3>1, <3>2, <3>3, FrameWritten, Zenon DEF FrameKept, FrameMoves
    <2>EarlyReach.
      ASSUME NEW l \in {"touch", "load_attempt", "register"}, Fits(r, l), pc[r] \notin PostActive,
             frame'[r].trk = None, attempt'[r] = None,
             l = "register" /\ Kind[r] = "submit" => frame'[r].state = "PENDING",
             l = "register" /\ IsRetry(r) => frame'[r].tmo # None
      PROVE  MayReach(r, l)
      <3> USE <2>EarlyReach
      <3>1. l \in Inside
        BY Zenon, TryHas, InsideFacts
      <3>2. l \notin TimeoutPc \cup Working /\ (l \in Loaded => l = "register")
        BY Zenon DEF TimeoutPc, Working, Loaded
      <3>3. StateFits(r, l, frame'[r].state)
        BY Zenon DEF StateFits
      <3>4. LabelFits(r, l, frame'[r])
        BY Zenon, <3>2, <3>3 DEF LabelFits
      <3> QED
        BY Zenon, <3>1, <3>4 DEF MayReach, AttemptFits
    <2>0. r \in Maybe(Requests) /\ r # None /\ frame \in [Requests -> Frames]
      BY Zenon DEF Maybe, TypeOK, QueryAssumption
    <2>1. ASSUME PrepareSubmit(r) PROVE InsideStep(r)
      <3>1. pc[r] = "prepare" /\ pc[r] \in Inside /\ pc[r] \in Unregistered
        BY Zenon, <2>1, TryHas, InsideFacts DEF PrepareSubmit, At, Unregistered
      <3>2. Kind[r] = "submit" /\ IsQuery(r)
        BY Zenon, <3>1, SubmitOnly DEF RequestOK, IsQuery
      <3>3. CASE Raise(r)
        BY Zenon, <3>1, <3>3, <1>RaisesInside
      <3>4. CASE AwaitThen(r, <<"log">>, "reply") /\ Fail(r)
        <4>1. Goes(r, {"reply"}) /\ FrameKept(r)
          BY <3>4, <1>AwaitGoes, WaitsHas, TryHas, FailFrame, Zenon
        <4> QED
          BY <3>1, <3>2, <4>1, <1>PlainOnward
      <3>5. CASE \E list \in {<<>>, <<"log">>} : AwaitThen(r, list, "touch") /\ UNCHANGED frame
        <4>1. PICK list \in Waits : AwaitThen(r, list, "touch") /\ UNCHANGED frame
          BY <3>5, WaitsHas
        <4>2. Goes(r, {"touch"}) /\ FrameKept(r)
          BY <4>1, <1>AwaitGoes, TryHas, SameFrame, Zenon
        <4>3. MayReach(r, "touch")
          BY ZenonT(30), <3>1, <3>2, <4>1, EarlySource, <2>EarlyReach, SubmitTo, <1>SubmitLabelsHas
        <4> QED
          BY Zenon, <3>1, <4>2, <4>3, <1>KeepsInside
      <3> QED
        BY Zenon, <2>1, <3>3, <3>4, <3>5 DEF PrepareSubmit
    <2>2. ASSUME OpenChatSession(r) PROVE InsideStep(r)
      <3>1. pc[r] = "touch" /\ pc[r] \in Inside /\ pc[r] \in Unregistered
        BY Zenon, <2>2, TryHas, InsideFacts DEF OpenChatSession, At, Unregistered
      <3>2. Kind[r] = "submit"
        BY Zenon, <3>1, SubmitOnly DEF RequestOK
      <3>3. CASE Raise(r)
        BY Zenon, <3>1, <3>3, <1>RaisesInside
      <3>4. CASE /\ frame' = [frame EXCEPT ![r].tmo = r, ![r].state = "PENDING"]
                 /\ EnsureThen(r, "register")
        <4>1. Goes(r, {"register"})
          BY <3>4, <1>EnsureGoes, TryHas
        <4>2. "PENDING" \in Maybe(AttemptStates)
          BY SMTT(30) DEF Maybe, AttemptStates
        <4>3. FrameMoves(r, "PENDING", r, frame[r].late)
          BY Zenon, <2>0, <3>4, <4>2, <2>WriteTmoState
        <4>4. frame'[r].trk = frame[r].trk /\ frame'[r].state = "PENDING" /\ ~IsRetry(r)
          BY Zenon, <3>2, <4>3 DEF FrameMoves, FrameStep, IsRetry
        <4>5. MayReach(r, "register")
          BY Zenon, <3>1, <3>2, <4>4, EarlySource, <2>EarlyReach, SubmitTo, <1>SubmitLabelsHas
        <4> QED
          BY ZenonT(30), <3>1, <4>1, <4>3, <4>4, <4>5, <1>TmoInside
      <3> QED
        BY <2>2, <3>3, <3>4 DEF OpenChatSession
    <2>3. ASSUME LoadActive(r) PROVE InsideStep(r)
      <3>1. pc[r] = "load_active" /\ pc[r] \in Inside /\ pc[r] \in Unregistered
        BY Zenon, <2>3, TryHas, InsideFacts DEF LoadActive, At, Unregistered
      <3>2. IsRetry(r)
        BY Zenon, <3>1, RetryOnly DEF RequestOK
      <3>3. CASE Raise(r)
        BY Zenon, <3>1, <3>3, <1>RaisesInside
      <3>4. CASE Goto(r, "load_attempt") /\ UNCHANGED frame
        <4>1. Goes(r, {"load_attempt"}) /\ FrameKept(r)
          BY <3>4, GotoGoes, LabelsHas, TryHas, SameFrame, Zenon
        <4>2. MayReach(r, "load_attempt")
          BY <3>1, <3>2, <3>4, EarlySource, <2>EarlyReach, RetryTo, <1>RetryLabelsHas
        <4> QED
          BY <3>1, <4>1, <4>2, <1>KeepsInside
      <3> QED
        BY Zenon, <2>3, <3>3, <3>4 DEF LoadActive
    <2>4. ASSUME LoadAttempt(r) PROVE InsideStep(r)
      <3>1. pc[r] = "load_attempt" /\ pc[r] \in Inside /\ pc[r] \in Unregistered /\ pc[r] # "start"
        BY Zenon, <2>4, TryHas, InsideFacts DEF LoadAttempt, At, Unregistered
      <3>2. IsRetry(r)
        BY Zenon, <3>1, RetryOnly DEF RequestOK
      <3>3. Prior(r) \in Requests /\ Prior(r) # None /\ Prior(r) = frame[r].prior
        BY Zenon, <3>1, <3>2 DEF RequestOK, QueryAssumption, Prior
      <3>4. CASE Raise(r)
        BY Zenon, <3>1, <3>4, <1>RaisesInside
      <3>5. CASE /\ attempt[Prior(r)] # None
                 /\ frame' = [frame EXCEPT ![r].tmo = Prior(r), ![r].chat = attempt[Prior(r)].chat]
                 /\ EnsureThen(r, "register")
        <4>1. Goes(r, {"register"})
          BY Zenon, <3>5, <1>EnsureGoes, TryHas
        <4>2. Prior(r) \in Maybe(Requests) /\ attempt[Prior(r)].chat \in Maybe(Chats)
          BY <3>3, <3>5, RecordType, SMTT(30) DEF Maybe
        <4>3. FrameStep(r, attempt[Prior(r)].chat, frame[r].prior, frame[r].trk, frame[r].state,
                        Prior(r), frame[r].late)
          BY Zenon, <2>0, <3>5, <4>2, <2>WriteTmoChat
        <4>4. frame[r].trk = None /\ attempt[r] = None /\ pc[r] \notin PostActive
          BY Zenon, <3>1, EarlySource
        <4>5. FrameInside(r)
          BY Zenon, <3>3, <4>3, <4>4 DEF FrameStep, FrameInside
        <4>6. FrameFits(r, frame'[r])
          BY Zenon, <3>2, <3>3, <3>5, <4>3, RecordType DEF FrameFits, FrameStep, IsRetry
        <4>7. frame'[r].trk = None /\ frame'[r].tmo # None /\ Kind[r] # "submit"
          BY Zenon, <3>2, <3>3, <4>3, <4>4 DEF FrameStep, IsRetry
        <4>8. MayReach(r, "register")
          BY <3>2, <4>4, <4>7, <2>EarlyReach, RetryTo, <1>RetryLabelsHas
        <4> QED
          BY <3>1, <4>1, <4>5, <4>6, <4>8, <1>StepsInside, SMTT(30)
      <3> QED
        BY <2>4, <3>4, <3>5 DEF LoadAttempt
    <2>5. ASSUME RegisterQueryOperation(r) PROVE InsideStep(r)
      <3>1. pc[r] = "register" /\ pc[r] \in Inside /\ pc[r] \in Unregistered /\ pc[r] # "start"
        BY Zenon, <2>5, TryHas, InsideFacts DEF RegisterQueryOperation, At, Unregistered
      <3>2. IsQuery(r)
        BY <3>1, QueryOnly DEF RequestOK, Locked
      <3>3. TRUE \in BOOLEAN /\ FALSE \in BOOLEAN
        BY Zenon
      <3>4. CASE /\ frame' = [frame EXCEPT ![r].operation = TRUE, ![r].ok = FALSE]
                 /\ Goto(r, "fin_op")
        <4>1. FrameKept(r)
          BY Zenon, <2>0, <3>3, <3>4, <2>WriteOperationOk
        <4>2. Goes(r, {"fin_op"})
          BY <3>4, GotoGoes, OtherHas, LabelsHas
        <4> QED
          BY <3>1, <3>2, <4>1, <4>2, <1>PlainOnward, SMTT(30)
      <3>5. CASE /\ frame' = [frame EXCEPT ![r].operation = TRUE, ![r].trk = OperationAttempt(r)]
                 /\ Goto(r, "track")
        <4>1. OperationAttempt(r) \in Maybe(Requests) /\ OperationAttempt(r) # None
          BY <2>0, <3>1, <3>2, SMTT(30) DEF RequestOK, OperationAttempt, IsQuery, Maybe, QueryAssumption
        <4>2. FrameStep(r, frame[r].chat, frame[r].prior, OperationAttempt(r), frame[r].state,
                        frame[r].tmo, frame[r].late)
          BY Zenon, <2>0, <3>3, <3>5, <4>1, <2>WriteOperationTrk
        <4>3. Goes(r, {"track"})
          BY Zenon, <3>5, GotoGoes, TryHas, LabelsHas
        <4>4. FrameInside(r)
          BY Zenon, <2>5, <4>1, <4>2 DEF FrameStep, FrameInside
        <4>5. FrameFits(r, frame'[r])
          BY Zenon, <4>2 DEF RequestOK, FrameFits, FrameStep
        <4>6. /\ frame'[r].trk # None /\ frame'[r].state = frame[r].state
              /\ frame'[r].tmo = frame[r].tmo
          BY Zenon, <4>1, <4>2 DEF FrameStep
        <4>7. attempt[r] = None /\ pc[r] \notin PostActive
          BY Zenon, <3>1, EarlySource
        <4>8. CASE Kind[r] = "submit"
          <5>1. StateFits(r, "track", frame[r].state)
            BY Zenon, <3>1, <4>8 DEF RequestOK, LabelFits, StateFits, IsRetry
          <5>2. MayReach(r, "track")
            BY ZenonT(30), <4>6, <4>7, <4>8, <5>1, <1>SubmitReach, WorkingHas, <1>SubmitLabelsHas
          <5> QED
            BY <3>1, <4>3, <4>4, <4>5, <5>2, <1>StepsInside, SMTT(30)
        <4>9. CASE IsRetry(r)
          <5>1. StateFits(r, "track", frame[r].state) /\ frame[r].tmo # None
            BY <3>1, <4>9 DEF RequestOK, LabelFits, StateFits, IsRetry, Loaded
          <5>2. MayReach(r, "track")
            BY Zenon, <4>6, <4>7, <4>9, <5>1, <1>RetryReach, WorkingHas, <1>RetryLabelsHas
          <5> QED
            BY <3>1, <4>3, <4>4, <4>5, <5>2, <1>StepsInside, SMTT(30)
        <4> QED
          BY Zenon, <3>2, <4>8, <4>9 DEF IsQuery
      <3> QED
        BY <2>5, <3>4, <3>5, ZenonT(30) DEF RegisterQueryOperation
    <2> QED
      BY <2>1, <2>2, <2>3, <2>4, <2>5
  (* The attempt is tracked, stored and made active. *)
  <1>StoringSteps. /\ TrackSessionAttempt(r) => InsideStep(r)
                   /\ StoreAttempt(r) => InsideStep(r)
                   /\ SetActiveAttempt(r) => InsideStep(r)
                   /\ RejectStore(r) => InsideStep(r)
    <2>1. ASSUME TrackSessionAttempt(r) PROVE InsideStep(r)
      <3>1. pc[r] = "track" /\ pc[r] \in Working \ {"policy", "activate"} /\ attempt' = attempt
        BY <2>1, WorkingHas, SMTT(30) DEF TrackSessionAttempt, At
      <3>2. IsQuery(r) /\ FrameKept(r)
        BY Zenon, <2>1, <3>1, QueryOnly, WorkingFacts, SameFrame DEF RequestOK, Locked, TrackSessionAttempt
      <3>3. CASE Kind[r] = "submit"
        <4>1. Goes(r, {"store"})
          BY <2>1, <3>3, <1>EnsureGoes, TryHas, SMTT(30) DEF TrackSessionAttempt
        <4>2. StateFits(r, "store", frame[r].state)
          BY Zenon, <3>1, <3>3, SubmitSource DEF StateFits, IsRetry, AttemptStates
        <4> QED
          BY Zenon, <3>1, <3>2, <3>3, <4>1, <4>2, <1>SubmitOnward, WorkingHas, <1>SubmitLabelsHas
      <3>4. CASE IsRetry(r)
        <4>1. Goes(r, {"decide"})
          BY Zenon, <2>1, <3>4, <1>EnsureGoes, TryHas DEF TrackSessionAttempt, IsRetry
        <4> QED
          BY Zenon, <3>1, <3>2, <3>4, <4>1, <1>RetryOnward, WorkingHas, <1>RetryLabelsHas
      <3> QED
        BY ZenonT(30), <3>2, <3>3, <3>4 DEF IsQuery
    <2>2. ASSUME StoreAttempt(r) PROVE InsideStep(r)
      <3>1. pc[r] = "store" /\ pc[r] \in Working
        BY <2>2, WorkingHas DEF StoreAttempt, At
      <3>2. /\ pc[r] \in Inside /\ pc[r] \notin PostActive /\ frame[r].trk # None
            /\ FrameKept(r) /\ UNCHANGED frame
        BY <2>2, <3>1, <1>WorkingSource, SameFrame, SMTT(30) DEF StoreAttempt
      <3>3. IsQuery(r)
        BY Zenon, <3>1, <3>2, QueryOnly DEF RequestOK, Locked
      <3>4. attempt'[r].state = frame[r].state
        BY <2>2 DEF StoreAttempt, Record, TypeOK
      <3>5. CASE IsRetry(r)
        <4>0. Goto(r, "activate")
          BY Zenon, <2>2, <3>5 DEF StoreAttempt, IsRetry
        <4>1. Goes(r, {"activate"})
          BY Zenon, <4>0, GotoGoes, TryHas, LabelsHas
        <4>2. frame[r].tmo # None /\ frame[r].state = "EXECUTED"
          BY Zenon, <3>1, <3>5, RetrySource DEF StateFits
        <4>3. StateFits(r, "activate", frame[r].state)
          BY DEF StateFits
        <4>4. MayReach(r, "activate")
          BY Zenon, <3>2, <3>4, <3>5, <4>2, <4>3, <1>RetryReach, WorkingHas, <1>RetryLabelsHas
        <4> QED
          BY Zenon, <3>2, <4>1, <4>4, <1>KeepsInside
      <3>6. CASE Kind[r] = "submit" /\ frame[r].state \in {"REJECTED", "FAILED"}
        <4>1. Goto(r, "rollback")
          BY Zenon, <2>2, <3>6 DEF StoreAttempt, IsRetry
        <4>2. Goes(r, {"rollback"})
          BY Zenon, <4>1, GotoGoes, TryHas, LabelsHas
        <4> QED
          BY Zenon, <3>2, <3>3, <4>2, <1>PlainOnward
      <3>7. CASE Kind[r] = "submit" /\ frame[r].state \notin {"REJECTED", "FAILED"}
        <4>1. EnsureThen(r, AfterStore[frame[r].state])
          BY Zenon, <2>2, <3>7 DEF StoreAttempt, IsRetry
        <4>2. frame[r].state \in {"PENDING", "GENERATED", "EVALUATED", "EXECUTED"}
          BY Zenon, <3>1, <3>7, SubmitSource DEF StateFits, AttemptStates
        <4>3. PICK l : l = AfterStore[frame[r].state]
          BY Zenon
        <4>4. /\ l \in {"policy", "eval", "quota_exec", "save"}
              /\ StateFits(r, l, frame[r].state)
              /\ l = "save" => frame[r].state = "EXECUTED"
          BY <3>7, <4>2, <4>3 DEF AfterStore, StateFits, IsRetry
        <4>5. l \in TryPc /\ l \in Working \cap SubmitLabels /\ l # "activate"
          BY Zenon, <4>4, TryHas, WorkingHas, <1>SubmitLabelsHas
        <4>6. Goes(r, {l})
          BY Zenon, <4>1, <4>3, <4>5, <1>EnsureGoes
        <4>7. Rank[attempt'[r].state] =< Rank[frame'[r].state]
          BY <3>2, <3>4, <4>2, RankOrder DEF AttemptStates
        <4>8. MayReach(r, l)
          BY ZenonT(30), <3>2, <3>4, <3>7, <4>4, <4>5, <4>7, <1>SubmitReach
        <4> QED
          BY <3>2, <4>6, <4>8, <1>KeepsInside
      <3> QED
        BY <3>3, <3>5, <3>6, <3>7 DEF IsQuery
    <2>3. ASSUME SetActiveAttempt(r) PROVE InsideStep(r)
      <3>1. pc[r] = "activate" /\ pc[r] \in Inside /\ pc[r] \notin PostActive
        BY Zenon, <2>3, WorkingHas, WorkingFacts DEF SetActiveAttempt, At
      <3>2. IsQuery(r) /\ FrameKept(r)
        BY Zenon, <2>3, <3>1, QueryOnly, SameFrame DEF RequestOK, Locked, SetActiveAttempt
      <3>3. CASE Kind[r] = "submit"
        <4>1. Goes(r, {"reply"})
          BY Zenon, <2>3, <3>3, <1>EnsureGoes, TryHas DEF SetActiveAttempt
        <4> QED
          BY Zenon, <3>1, <3>2, <4>1, <1>PlainOnward
      <3>4. CASE IsRetry(r)
        <4>1. Goes(r, {"retire_prior"})
          BY Zenon, <2>3, <3>4, <1>EnsureGoes, TryHas DEF SetActiveAttempt, IsRetry
        <4> QED
          BY Zenon, <3>1, <3>2, <3>4, <4>1, <1>RetryEnds
      <3> QED
        BY <3>2, <3>3, <3>4 DEF IsQuery
    <2>4. ASSUME RejectStore(r) PROVE InsideStep(r)
      <3>1. pc[r] = "reject_store" /\ pc[r] \in Inside /\ pc[r] \notin PostActive
        BY <2>4, WorkingHas, WorkingFacts, SMTT(30) DEF RejectStore, At
      <3>2. IsRetry(r) /\ FrameKept(r)
        BY Zenon, <2>4, <3>1, RetryOnly, SameFrame DEF RequestOK, RejectStore
      <3>3. Goes(r, {"reject_prior"})
        BY Zenon, <2>4, GotoGoes, TryHas, LabelsHas DEF RejectStore
      <3> QED
        BY Zenon, <3>1, <3>2, <3>3, <1>RetryEnds
    <2> QED
      BY Zenon, <2>1, <2>2, <2>3, <2>4
  (* The ways to the finally clause. *)
  <1>LeavingSteps. /\ Reply(r) => InsideStep(r)
                   /\ RollbackRequest(r) => InsideStep(r)
                   /\ DeletePrior(r) => InsideStep(r)
                   /\ DropActive(r) => InsideStep(r)
                   /\ RejectPrior(r) => InsideStep(r)
                   /\ DiscardInvalidatedAttempt(r) => InsideStep(r)
                   /\ DiscardCutShort(r) => InsideStep(r)
    <2>1. ASSUME Reply(r) PROVE InsideStep(r)
      <3>1. pc[r] = "reply" /\ pc[r] \in Inside
        BY <2>1, TryHas, InsideFacts DEF Reply, At
      <3>2. IsQuery(r) /\ FrameKept(r)
        BY Zenon, <2>1, <3>1, QueryOnly, SameFrame DEF RequestOK, Locked, Reply
      <3>3. Goes(r, {"fin_op"})
        BY Zenon, <2>1, GotoGoes, OtherHas, LabelsHas DEF Reply
      <3> QED
        BY Zenon, <3>1, <3>2, <3>3, <1>PlainOnward
    <2>2. ASSUME RollbackRequest(r) PROVE InsideStep(r)
      <3>1. pc[r] = "rollback" /\ pc[r] \in Inside
        BY <2>2, TryHas, InsideFacts, SMTT(30) DEF RollbackRequest, At
      <3>2. IsQuery(r) /\ FrameKept(r)
        BY Zenon, <2>2, <3>1, QueryOnly, SameFrame DEF RequestOK, Locked, RollbackRequest
      <3>3. PICK list \in Waits : AwaitThen(r, list, "reply")
        BY Zenon, <2>2, WaitsHas DEF RollbackRequest
      <3>4. Goes(r, {"reply"})
        BY Zenon, <3>3, <1>AwaitGoes, TryHas
      <3> QED
        BY Zenon, <3>1, <3>2, <3>4, <1>PlainOnward
    <2>3. ASSUME DeletePrior(r) PROVE InsideStep(r)
      <3>1. pc[r] \in {"retire_prior", "drop_prior"} /\ pc[r] \in Inside
        BY <2>3, TryHas, InsideFacts, SMTT(30) DEF DeletePrior, At
      <3>2. IsRetry(r) /\ IsQuery(r) /\ FrameKept(r)
        BY Zenon, <2>3, <3>1, RetryOnly, SameFrame DEF RequestOK, IsQuery, DeletePrior
      <3>3. CASE pc[r] = "retire_prior"
        <4>1. Goes(r, {"reply"})
          BY Zenon, <2>3, <3>3, GotoGoes, TryHas, LabelsHas DEF DeletePrior
        <4> QED
          BY Zenon, <3>1, <3>2, <4>1, <1>PlainOnward
      <3>4. CASE pc[r] = "drop_prior"
        <4>1. Goes(r, {"drop_active"})
          BY Zenon, <2>3, <3>4, GotoGoes, TryHas, LabelsHas DEF DeletePrior
        <4>2. pc[r] \notin PostActive
          BY Zenon, <3>4 DEF PostActive, Over
        <4> QED
          BY Zenon, <3>1, <3>2, <4>1, <4>2, <1>RetryEnds
      <3> QED
        BY Zenon, <3>1, <3>3, <3>4
    <2>4. ASSUME DropActive(r) PROVE InsideStep(r)
      <3>1. pc[r] = "drop_active" /\ pc[r] \in Inside
        BY <2>4, TryHas, InsideFacts, SMTT(30) DEF DropActive, At
      <3>2. IsQuery(r) /\ FrameKept(r)
        BY Zenon, <2>4, <3>1, QueryOnly, SameFrame DEF RequestOK, Locked, DropActive
      <3>3. Goes(r, {"fin_op"})
        BY Zenon, <2>4, GotoGoes, OtherHas, LabelsHas DEF DropActive
      <3> QED
        BY Zenon, <3>1, <3>2, <3>3, <1>PlainOnward
    <2>5. ASSUME RejectPrior(r) PROVE InsideStep(r)
      <3>1. pc[r] = "reject_prior" /\ pc[r] \in Inside
        BY <2>5, TryHas, InsideFacts, SMTT(30) DEF RejectPrior, At
      <3>2. IsRetry(r) /\ FrameKept(r) /\ pc[r] \notin PostActive
        BY Zenon, <2>5, <3>1, RetryOnly, SameFrame DEF RequestOK, RejectPrior, PostActive, Over
      <3>3. Goes(r, {"drop_active"})
        BY Zenon, <2>5, <1>EnsureGoes, TryHas DEF RejectPrior
      <3> QED
        BY Zenon, <3>1, <3>2, <3>3, <1>RetryEnds
    <2>6. ASSUME DiscardInvalidatedAttempt(r) PROVE InsideStep(r)
      <3>1. pc[r] \in Inside /\ Raise(r)
        BY Zenon, <2>6, InsideFacts DEF DiscardInvalidatedAttempt, At
      <3> QED
        BY <3>1, <1>RaisesInside, SMTT(30)
    <2>7. ASSUME DiscardCutShort(r) PROVE InsideStep(r)
      <3>1. pc[r] \in Inside /\ Raise(r)
        BY <2>7, InsideFacts DEF DiscardCutShort, At
      <3> QED
        BY <3>1, <1>RaisesInside
    <2> QED
      BY Zenon, <2>1, <2>2, <2>3, <2>4, <2>5, <2>6, <2>7
  <1>LateInside.
    ASSUME pc[r] \in Inside, NEW l, Goes(r, {l}), MayReach(r, l),
           FrameMoves(r, frame[r].state, frame[r].tmo, TRUE)
    PROVE  InsideStep(r)
    BY Zenon, <1>LateInside, <1>MovesInside
  (* Cancellation, deadline and timeout. *)
  <1>TimeoutSteps. /\ HandleCancelled(r) => InsideStep(r)
                   /\ HandleCancelledExecution(r) => InsideStep(r)
                   /\ DeadlineExpires(r) => InsideStep(r)
                   /\ TimeoutDeletePrior(r) => InsideStep(r)
                   /\ TimeoutStore(r) => InsideStep(r)
                   /\ TimeoutDropActive(r) => InsideStep(r)
    <2>WriteLateOk.
      ASSUME frame \in [Requests -> Frames], NEW l \in BOOLEAN, NEW v \in BOOLEAN,
             frame' = [frame EXCEPT ![r].late = l, ![r].ok = v]
      PROVE  FrameMoves(r, frame[r].state, frame[r].tmo, l)
      <3> USE <2>WriteLateOk
      <3> DEFINE f == [frame[r] EXCEPT !.late = l, !.ok = v]
      <3>1. f \in Frames
        BY ZenonT(60) DEF Frames
      <3>2. frame' = [frame EXCEPT ![r] = f]
        BY Zenon
      <3>3. /\ f.chat = frame[r].chat /\ f.prior = frame[r].prior /\ f.trk = frame[r].trk
            /\ f.state = frame[r].state /\ f.tmo = frame[r].tmo /\ f.late = l
        BY ZenonT(30) DEF Frames
      <3> HIDE DEF f
      <3> QED
        BY <3>1, <3>2, <3>3, FrameWritten, Zenon DEF FrameMoves
    <2>TimeoutReach.
      ASSUME IsQuery(r), NEW l \in TimeoutPc, l = "t_prior" => IsRetry(r), frame'[r].late
      PROVE  MayReach(r, l)
      <3> USE <2>TimeoutReach
      <3>1. Fits(r, l) /\ l \in Inside
        BY Zenon, RetryTo, QueryTo, <1>RetryLabelsHas, <1>QueryLabelsHas, InsideFacts DEF TimeoutPc
      <3>2. l \notin Unregistered \cup Working \cup Loaded /\ l \in PostActive
        BY Zenon DEF TimeoutPc, Unregistered, Working, Loaded, PostActive
      <3>3. StateFits(r, l, frame'[r].state)
        BY Zenon DEF TimeoutPc, StateFits
      <3>4. LabelFits(r, l, frame'[r])
        BY Zenon, <3>2, <3>3 DEF LabelFits
      <3>5. AttemptFits(r, l, frame'[r].state, attempt'[r])
        BY <3>2 DEF AttemptFits, TimeoutPc
      <3> QED
        BY Zenon, <3>1, <3>2, <3>4, <3>5 DEF MayReach
    (* An expired deadline leads to the timeout handler. *)
    <2>ToTimeoutGoes.
      ASSUME ToTimeout(r)
      PROVE  \E l \in TimeoutPc : Goes(r, {l}) /\ (l = "t_prior" => IsRetry(r))
      <3> USE <2>ToTimeoutGoes
      <3>1. CASE IsRetry(r) /\ frame[r].tmo = r
        <4>1. Goes(r, {"t_prior"})
          BY <3>1, GotoGoes, OtherHas, LabelsHas DEF ToTimeout
        <4> QED
          BY Zenon, <3>1, <4>1, OtherHas
      <3>2. CASE ~(IsRetry(r) /\ frame[r].tmo = r)
        <4>1. Goes(r, {"t_store"})
          BY Zenon, <3>2, <1>EnsureGoes DEF ToTimeout
        <4> QED
          BY Zenon, <4>1, OtherHas
      <3> QED
        BY Zenon, <3>1, <3>2
    <2>ReraiseInside.
      ASSUME pc[r] \in Inside, Reraise(r)
      PROVE  InsideStep(r)
      <3> USE <2>ReraiseInside
      <3>1. CASE ~frame[r].late
        BY Zenon, <3>1, <1>RaisesInside DEF Reraise
      <3>2. CASE frame[r].late
        <4>1. IsQuery(r)
          BY QueryOnly DEF RequestOK, Locked
        <4>2. FrameKept(r)
          BY <3>2, FailFrame DEF Reraise, Fail
        <4>3. PICK l \in TimeoutPc : Goes(r, {l}) /\ (l = "t_prior" => IsRetry(r))
          BY Zenon, <3>2, <2>ToTimeoutGoes DEF Reraise
        <4>4. frame'[r].late
          BY Zenon, <3>2, <4>2 DEF FrameKept, FrameMoves, FrameStep
        <4>5. MayReach(r, l)
          BY Zenon, <4>1, <4>3, <4>4, <2>TimeoutReach
        <4> QED
          BY Zenon, <4>2, <4>3, <4>5, <1>KeepsInside
      <3> QED
        BY <3>1, <3>2
    <2>0. /\ TRUE \in BOOLEAN /\ FALSE \in BOOLEAN /\ frame \in [Requests -> Frames]
          /\ pc[r] \in Inside => IsQuery(r)
      BY Zenon, QueryOnly DEF TypeOK, RequestOK, Locked
    <2>1. ASSUME HandleCancelled(r) PROVE InsideStep(r)
      <3>1. pc[r] \in Inside /\ Reraise(r)
        BY ZenonT(30), <2>1, TryHas, InsideFacts DEF HandleCancelled, At
      <3> QED
        BY <3>1, <2>ReraiseInside, SMTT(30)
    <2>2. ASSUME HandleCancelledExecution(r) PROVE InsideStep(r)
      <3>1. pc[r] \in Inside /\ Reraise(r)
        BY Zenon, <2>2, TryHas, InsideFacts DEF HandleCancelledExecution, At
      <3> QED
        BY <3>1, <2>ReraiseInside, SMTT(30)
    <2>3. ASSUME DeadlineExpires(r) PROVE InsideStep(r)
      <3>1. pc[r] \in Inside
        BY <2>3, InsideFacts DEF DeadlineExpires
      <3>2. FrameMoves(r, frame[r].state, frame[r].tmo, TRUE)
        BY Zenon, <2>0, <2>3, <2>WriteLateOk DEF DeadlineExpires
      <3>3. PICK l \in TimeoutPc : Goes(r, {l}) /\ (l = "t_prior" => IsRetry(r))
        BY Zenon, <2>3, <2>ToTimeoutGoes DEF DeadlineExpires
      <3>4. frame'[r].late
        BY Zenon, <3>2 DEF FrameMoves, FrameStep
      <3>5. MayReach(r, l)
        BY <2>0, <3>1, <3>3, <3>4, <2>TimeoutReach
      <3> QED
        BY Zenon, <3>1, <3>2, <3>3, <3>5, <1>LateInside
    <2>4. ASSUME TimeoutDeletePrior(r) PROVE InsideStep(r)
      <3>1. pc[r] = "t_prior" /\ pc[r] \in TimeoutPc /\ pc[r] \in Inside
        BY Zenon, <2>4, OtherHas, InsideFacts DEF TimeoutDeletePrior, At
      <3>2. Goes(r, {"t_store"}) /\ FrameKept(r) /\ UNCHANGED frame
        BY <2>4, <1>EnsureGoes, SameFrame, SMTT(30) DEF TimeoutDeletePrior
      <3>3. MayReach(r, "t_store")
        BY Zenon, <2>0, <3>1, <3>2, <2>TimeoutReach, OtherHas DEF RequestOK, LabelFits
      <3> QED
        BY Zenon, <3>1, <3>2, <3>3, <1>KeepsInside
    <2>5. ASSUME TimeoutStore(r) PROVE InsideStep(r)
      <3>1. pc[r] = "t_store" /\ pc[r] \in TimeoutPc /\ pc[r] \in Inside
        BY Zenon, <2>5, OtherHas, InsideFacts DEF TimeoutStore, At
      <3>2. Goes(r, {"t_active"}) /\ FrameKept(r) /\ UNCHANGED frame
        BY ZenonT(30), <2>5, GotoGoes, OtherHas, LabelsHas, SameFrame DEF TimeoutStore
      <3>3. MayReach(r, "t_active")
        BY Zenon, <2>0, <3>1, <3>2, <2>TimeoutReach, OtherHas DEF RequestOK, LabelFits
      <3> QED
        BY Zenon, <3>1, <3>2, <3>3, <1>KeepsInside
    <2>6. ASSUME TimeoutDropActive(r) PROVE InsideStep(r)
      <3>1. pc[r] = "t_active" /\ pc[r] \in Inside
        BY Zenon, <2>6, OtherHas, InsideFacts DEF TimeoutDropActive, At
      <3>2. Goes(r, {"rollback"}) /\ FrameKept(r)
        BY Zenon, <2>6, <1>EnsureGoes, TryHas, SameFrame DEF TimeoutDropActive
      <3> QED
        BY <2>0, <3>1, <3>2, <1>PlainOnward, SMTT(30)
    <2> QED
      BY <2>1, <2>2, <2>3, <2>4, <2>5, <2>6
  (* A stage is cancelled; the session is checked; an entry is logged. *)
  <1>AwaitingSteps.
    ASSUME attempt' = attempt
    PROVE  /\ StageCancelled(r) => InsideStep(r)
           /\ EnsureSessionActive(r) => InsideStep(r)
           /\ LogAuditDurably(r) => InsideStep(r)
    <2> USE <1>AwaitingSteps
    <2>WriteLate.
      ASSUME frame \in [Requests -> Frames], NEW l \in BOOLEAN,
             frame' = [frame EXCEPT ![r].late = l]
      PROVE  FrameMoves(r, frame[r].state, frame[r].tmo, l)
      <3> USE <2>WriteLate
      <3> DEFINE f == [frame[r] EXCEPT !.late = l]
      <3>1. f \in Frames
        BY ZenonT(60) DEF Frames
      <3>2. frame' = [frame EXCEPT ![r] = f]
        BY Zenon
      <3>3. /\ f.chat = frame[r].chat /\ f.prior = frame[r].prior /\ f.trk = frame[r].trk
            /\ f.state = frame[r].state /\ f.tmo = frame[r].tmo /\ f.late = l
        BY ZenonT(30) DEF Frames
      <3> HIDE DEF f
      <3> QED
        BY <3>1, <3>2, <3>3, FrameWritten, Zenon DEF FrameMoves
    (* A request that stays where it is. *)
    <2>StayReach.
      ASSUME pc[r] \in Inside, UNCHANGED frame
      PROVE  MayReach(r, pc[r])
      BY Zenon, <2>StayReach DEF RequestOK, MayReach
    <2>CancelReach.
      ASSUME IsQuery(r), pc[r] \notin PostActive
      PROVE  MayReach(r, "cancel")
      BY Zenon, <2>CancelReach, <1>PlainReach, QueryTo, <1>QueryLabelsHas, TryHas, InsideFacts DEF PlainPc
    <2>0. /\ TRUE \in BOOLEAN /\ frame \in [Requests -> Frames]
          /\ pc[r] \in Inside => IsQuery(r)
      BY QueryOnly DEF TypeOK, RequestOK, Locked
    <2>1. ASSUME StageCancelled(r) PROVE InsideStep(r)
      <3>1. pc[r] \in Stages /\ pc[r] \in Working \ {"policy", "activate"}
        BY Zenon, <2>1, WorkingHas DEF StageCancelled, Stages
      <3>2. pc[r] \in Inside /\ pc[r] \notin PostActive /\ frame[r].trk # None
        BY <3>1, <1>WorkingSource
      <3>3. \/ FrameKept(r)
            \/ FrameMoves(r, frame[r].state, frame[r].tmo, TRUE)
        BY Zenon, <2>0, <2>1, SameFrame, <2>WriteLate DEF StageCancelled
      <3>4. /\ frame'[r].state = frame[r].state /\ frame'[r].tmo = frame[r].tmo
            /\ frame'[r].trk = frame[r].trk
        BY <3>3 DEF FrameKept, FrameMoves, FrameStep
      <3>5. CASE pc[r] # "exec"
        <4>1. Goes(r, {"cancel"})
          BY Zenon, <2>1, <3>5, <1>EnsureGoes, TryHas DEF StageCancelled
        <4>2. MayReach(r, "cancel")
          BY Zenon, <2>0, <3>2, <2>CancelReach
        <4> QED
          BY Zenon, <3>2, <3>3, <4>1, <4>2, <1>KeepsInside, <1>LateInside
      <3>6. CASE pc[r] = "exec"
        <4>1. Goes(r, {"cancel_exec"})
          BY ZenonT(30), <2>1, <3>6, <1>EnsureGoes, TryHas DEF StageCancelled
        <4>2. CASE Kind[r] = "submit"
          <5>1. StateFits(r, "cancel_exec", frame[r].state)
            BY <3>1, <3>6, <4>2, SubmitSource DEF StateFits, IsRetry
          <5>2. MayReach(r, "cancel_exec")
            BY <3>1, <3>2, <3>4, <4>2, <5>1, SubmitSource, <1>SubmitReach, WorkingHas, <1>SubmitLabelsHas, ZenonT(30)
          <5> QED
            BY Zenon, <3>2, <3>3, <4>1, <5>2, <1>KeepsInside, <1>LateInside
        <4>3. CASE IsRetry(r)
          <5>1. StateFits(r, "cancel_exec", frame[r].state)
            BY <4>3, SMTT(30) DEF StateFits, IsRetry
          <5>2. MayReach(r, "cancel_exec")
            BY Zenon, <3>1, <3>2, <3>4, <4>3, <5>1, RetrySource, <1>RetryReach, WorkingHas, <1>RetryLabelsHas
          <5> QED
            BY Zenon, <3>2, <3>3, <4>1, <5>2, <1>KeepsInside, <1>LateInside
        <4> QED
          BY ZenonT(30), <2>0, <3>2, <4>2, <4>3 DEF IsQuery
      <3> QED
        BY <3>5, <3>6
    <2>2. ASSUME due[r] # <<>>, UNCHANGED frame, AwaitThen(r, Tail(due[r]), pc[r])
          PROVE  InsideStep(r)
      <3>1. pc[r] \in TryPc \cup {"t_store"} /\ pc[r] \in Inside
        BY Zenon, <2>2, OtherHas, InsideFacts DEF RequestOK
      <3>2. Tail(due[r]) \in Seq({"ensure", "log"})
        BY <2>2 DEF TypeOK
      <3>3. Goes(r, {pc[r]})
        BY Zenon, <2>2, <3>1, <3>2 DEF TypeOK, AwaitThen, Goes
      <3>4. FrameKept(r) /\ MayReach(r, pc[r])
        BY Zenon, <2>2, <3>1, <2>StayReach, SameFrame
      <3> QED
        BY ZenonT(30), <3>1, <3>3, <3>4, <1>KeepsInside
    <2>3. ASSUME EnsureSessionActive(r) PROVE InsideStep(r)
      <3>1. CASE AwaitThen(r, Tail(due[r]), pc[r])
        BY Zenon, <2>2, <2>3, <3>1 DEF EnsureSessionActive
      <3>2. CASE Goto(r, "discard")
        <4>1. pc[r] \in Inside
          BY Zenon, <2>3, OtherHas, InsideFacts DEF RequestOK, EnsureSessionActive
        <4>2. Goes(r, {"discard"})
          BY Zenon, <3>2, GotoGoes, LabelsHas
        <4>3. UNCHANGED frame
          BY <2>3 DEF EnsureSessionActive
        <4>4. FrameKept(r)
          BY Zenon, <4>3, SameFrame
        <4> QED
          BY Zenon, <2>0, <4>1, <4>2, <4>4, <1>PlainOnward
      <3> QED
        BY Zenon, <2>3, <3>1, <3>2 DEF EnsureSessionActive
    <2>4. ASSUME LogAuditDurably(r) PROVE InsideStep(r)
      BY Zenon, <2>2, <2>4 DEF LogAuditDurably
    <2> QED
      BY <2>1, <2>3, <2>4
  <1>LocalInside.
    ASSUME LocalAction(r)
    PROVE  InsideStep(r) /\ UNCHANGED <<redis, inflight, database>> /\ pc[r] # "t_active"
    <2> USE <1>LocalInside
    <2>1. UNCHANGED <<redis, inflight, database>>
      BY Zenon DEF LocalAction, PrepareSubmit, OpenChatSession, LoadActive, LoadAttempt,
          EnsureSessionActive, LogAuditDurably, LogSubmitAndResolvePolicy, SubmitGenerate,
          SubmitEvaluate, SubmitQuota, SubmitExecute, SubmitSave, Reply, RollbackRequest,
          RetryDecide, RetryBound, ConsumeRetryQuota, RetryGenerate, RetryEvaluate, RetryExecute,
          RetrySave, HandleCancelled, DeadlineExpires, StageCancelled, DiscardCutShort
    <2>2. attempt' = attempt
      BY <2>1 DEF redis
    <2>3. pc[r] # "t_active"
      <3>1. ASSUME EnsureSessionActive(r) \/ LogAuditDurably(r) PROVE pc[r] # "t_active"
        BY Zenon, <3>1 DEF EnsureSessionActive, LogAuditDurably, RequestOK, TryPc, Stages
      <3>2. ASSUME DeadlineExpires(r) \/ StageCancelled(r) PROVE pc[r] # "t_active"
        BY Zenon, <3>2 DEF DeadlineExpires, StageCancelled, TryPc, Stages
      <3>3. ASSUME \/ PrepareSubmit(r) \/ OpenChatSession(r) \/ LoadActive(r) \/ LoadAttempt(r)
                   \/ LogSubmitAndResolvePolicy(r) \/ SubmitGenerate(r) \/ SubmitEvaluate(r)
                   \/ SubmitQuota(r) \/ SubmitExecute(r) \/ SubmitSave(r)
            PROVE  pc[r] # "t_active"
        BY <3>3, SMTT(30) DEF PrepareSubmit, OpenChatSession, LoadActive, LoadAttempt,
          LogSubmitAndResolvePolicy, SubmitGenerate, SubmitEvaluate, SubmitQuota, SubmitExecute,
          SubmitSave, At
      <3>4. ASSUME \/ Reply(r) \/ RollbackRequest(r) \/ RetryDecide(r) \/ RetryBound(r)
                   \/ ConsumeRetryQuota(r) \/ RetryGenerate(r) \/ RetryEvaluate(r)
                   \/ RetryExecute(r) \/ RetrySave(r) \/ HandleCancelled(r) \/ DiscardCutShort(r)
            PROVE  pc[r] # "t_active"
        BY Zenon, <3>4 DEF Reply, RollbackRequest, RetryDecide, RetryBound, ConsumeRetryQuota,
          RetryGenerate, RetryEvaluate, RetryExecute, RetrySave, HandleCancelled, DiscardCutShort, At
      <3> QED
        BY <3>1, <3>2, <3>3, <3>4, Zenon DEF LocalAction
    <2>4. ASSUME PrepareSubmit(r) \/ OpenChatSession(r) \/ LoadActive(r) \/ LoadAttempt(r) PROVE InsideStep(r)
      BY Zenon, <2>2, <2>4, <1>OpeningSteps
    <2>5. ASSUME EnsureSessionActive(r) \/ LogAuditDurably(r) \/ StageCancelled(r) PROVE InsideStep(r)
      BY <2>2, <2>5, <1>AwaitingSteps
    <2>6. ASSUME LogSubmitAndResolvePolicy(r) PROVE InsideStep(r)
      <3>1. Kind[r] = "submit"
        BY Zenon, <2>6, SubmitOnly DEF LogSubmitAndResolvePolicy, At, RequestOK
      <3> QED
        BY <2>2, <2>6, <3>1, <1>SubmitSteps
    <2>7. ASSUME \/ SubmitGenerate(r) \/ SubmitEvaluate(r) \/ SubmitQuota(r)
                 \/ SubmitExecute(r) \/ SubmitSave(r)
          PROVE  InsideStep(r)
      <3>1. Kind[r] = "submit"
        BY Zenon, <2>7 DEF SubmitGenerate, SubmitEvaluate, SubmitQuota, SubmitExecute, SubmitSave
      <3> QED
        BY ZenonT(30), <2>2, <2>7, <3>1, <1>SubmitSteps
    <2>8. ASSUME Reply(r) \/ RollbackRequest(r) \/ DiscardCutShort(r) PROVE InsideStep(r)
      BY Zenon, <2>8, <1>LeavingSteps
    <2>9. ASSUME RetryDecide(r) \/ RetryBound(r) PROVE InsideStep(r)
      <3>1. IsRetry(r)
        BY Zenon, <2>9, RetryOnly DEF RetryDecide, RetryBound, At, RequestOK
      <3> QED
        BY <2>2, <2>9, <3>1, <1>RetrySteps, SMTT(30)
    <2>10. ASSUME \/ ConsumeRetryQuota(r) \/ RetryGenerate(r) \/ RetryEvaluate(r)
                  \/ RetryExecute(r) \/ RetrySave(r)
           PROVE  InsideStep(r)
      <3>1. IsRetry(r)
        BY Zenon, <2>10 DEF ConsumeRetryQuota, RetryGenerate, RetryEvaluate, RetryExecute, RetrySave
      <3> QED
        BY ZenonT(30), <2>2, <2>10, <3>1, <1>RetrySteps
    <2>11. ASSUME HandleCancelled(r) \/ DeadlineExpires(r) PROVE InsideStep(r)
      BY <2>11, <1>TimeoutSteps
    <2>12. InsideStep(r)
      BY <2>4, <2>5, <2>6, <2>7, <2>8, <2>9, <2>10, <2>11, Zenon DEF LocalAction
    <2> QED
      BY <2>1, <2>3, <2>12
  <1>KeyInside.
    ASSUME KeyAction(r)
    PROVE  InsideStep(r)
    <2> USE <1>KeyInside
    <2>1. CASE RegisterQueryOperation(r)
      <3>1. attempt' = attempt
        BY Zenon, <2>1 DEF RegisterQueryOperation
      <3> QED
        BY <2>1, <3>1, <1>OpeningSteps
    <2>2. CASE RetryTrackNew(r) \/ RejectTrack(r)
      <3>1. attempt' = attempt
        BY <2>2 DEF RetryTrackNew, RejectTrack
      <3>2. IsRetry(r)
        BY Zenon, <2>2, RetryOnly DEF RetryTrackNew, RejectTrack, At, RequestOK
      <3> QED
        BY <2>2, <3>1, <3>2, <1>RetrySteps
    <2> QED
      BY <2>1, <2>2, <1>StoringSteps, <1>LeavingSteps, <1>TimeoutSteps, Zenon DEF KeyAction
  <1> QED
    BY <1>LocalInside, <1>KeyInside

(* A step that leaves the attempt records, or the active attempts, alone.  *)
LEMMA AttemptsKept ==
  ASSUME TypeOK, NEW r \in Requests, UNCHANGED attempt
  PROVE  AttemptStep(r)
  BY DEF AttemptStep, TypeOK

(* A step that removes one attempt record. *)
LEMMA AttemptRemoved ==
  ASSUME TypeOK, NEW r \in Requests, NEW x, attempt' = [attempt EXCEPT ![x] = None]
  PROVE  AttemptStep(r)
  BY ZenonT(30) DEF AttemptStep, TypeOK, Maybe

(* A step that leaves the active attempts alone. *)
LEMMA ActiveKept ==
  ASSUME TypeOK, NEW r \in Requests, UNCHANGED active, pc[r] # "t_active"
  PROVE  ActiveStep(r)
  BY Zenon DEF ActiveStep, TypeOK

(* A step that removes the active attempt of its HTTP session. *)
LEMMA ActiveRemoved ==
  ASSUME QueryAssumption, TypeOK, NEW r \in Requests, active' = [active EXCEPT ![Http[r]] = None]
  PROVE  ActiveStep(r)
  BY DEF ActiveStep, TypeOK, Maybe, QueryAssumption

(***************************************************************************)
(* What these steps do to the attempt records and to the active attempt.   *)
(***************************************************************************)
LEMMA KeySteps ==
  ASSUME QueryAssumption, TypeOK, NEW r \in Requests, RequestOK(r), KeyAction(r)
  PROVE  AttemptStep(r) /\ ActiveStep(r)
  (* A query that runs its pipeline has a chat session. *)
  <1>WorkingChat.
    ASSUME pc[r] \in Working
    PROVE  Chat(r) \in Chats
    <2> USE <1>WorkingChat
    <2>1. IsQuery(r)
      BY Zenon, QueryOnly, WorkingFacts DEF RequestOK, Locked
    <2>2. CASE Kind[r] = "submit"
      BY <2>2, SMTT(30) DEF RequestOK, FrameFits, Chat, QueryAssumption
    <2>3. CASE IsRetry(r)
      <3>1. pc[r] # "policy"
        BY Zenon, <2>3, SubmitOnly DEF RequestOK, IsRetry
      <3> QED
        BY Zenon, <2>3, <3>1, RetrySource DEF RequestOK, FrameFits, Chat
    <2> QED
      BY Zenon, <2>1, <2>2, <2>3 DEF IsQuery
  <1>RecordWritten.
    ASSUME Chat(r) \in Chats, NEW st \in AttemptStates
    PROVE  Record(r, st) \in Attempts /\ Record(r, st).state = st /\ Record(r, st) \in Maybe(Attempts)
    BY Zenon, <1>RecordWritten DEF Record, Attempts, Maybe, QueryAssumption
  <1>AttemptStored.
    ASSUME pc[r] \in Working, NEW st \in AttemptStates,
           attempt' = [attempt EXCEPT ![r] = Record(r, st)],
           attempt[r] # None => Rank[attempt[r].state] =< Rank[st]
    PROVE  AttemptStep(r)
    <2> USE <1>AttemptStored
    <2>1. PICK rec : rec = Record(r, st)
      BY Zenon
    <2>2. rec.state = st /\ rec \in Maybe(Attempts)
      BY ZenonT(30), <2>1, <1>WorkingChat, <1>RecordWritten
    <2>3. attempt' \in [Requests -> Maybe(Attempts)] /\ attempt'[r] = rec
      BY <2>1, <2>2, SMTT(30) DEF TypeOK
    <2>4. \A a \in Requests \ {r} : attempt'[a] = attempt[a]
      BY Zenon DEF TypeOK
    <2> QED
      BY Zenon, <2>2, <2>3, <2>4 DEF AttemptStep
  (* What each of them does to the attempts. *)
  <1>KeyAttempts. AttemptStep(r)
    <2>1. CASE UNCHANGED attempt
      BY <2>1, AttemptsKept
    <2>2. CASE StoreAttempt(r)
      <3>1. pc[r] = "store" /\ pc[r] \in Working
        BY <2>2, WorkingHas DEF StoreAttempt, At
      <3>2. IsQuery(r)
        BY Zenon, <3>1, QueryOnly, WorkingFacts DEF RequestOK, Locked
      <3>3. frame[r].state \in AttemptStates
        BY Zenon, <3>1, <3>2, SubmitSource, RetrySource DEF IsQuery, StateFits, AttemptStates
      <3>4. attempt[r] # None => Rank[attempt[r].state] =< Rank[frame[r].state]
        BY Zenon, <3>1, <3>2, SubmitSource, RetrySource DEF IsQuery
      <3> QED
        BY Zenon, <2>2, <3>1, <3>3, <3>4, <1>AttemptStored DEF StoreAttempt
    <2>3. CASE RejectStore(r)
      <3>1. pc[r] = "reject_store" /\ pc[r] \in Working /\ IsRetry(r)
        BY <2>3, WorkingHas, RetryOnly, ZenonT(30) DEF RejectStore, At, RequestOK
      <3>2. attempt[r] = None
        BY Zenon, <3>1, RetrySource
      <3> QED
        BY ZenonT(30), <2>3, <3>1, <3>2, <1>AttemptStored DEF RejectStore, AttemptStates
    <2>4. CASE HandleCancelledExecution(r) /\ Kind[r] = "submit"
      <3>1. pc[r] = "cancel_exec" /\ pc[r] \in Working
        BY Zenon, <2>4, WorkingHas DEF HandleCancelledExecution, At
      <3>2. frame[r].state = "EVALUATED"
        BY Zenon, <2>4, <3>1, SubmitSource DEF StateFits
      <3>5. Rank["EVALUATED"] =< Rank["FAILED"] /\ {"EVALUATED", "FAILED"} \subseteq AttemptStates
        BY RankOrder, SMTT(30) DEF AttemptStates
      <3>3. attempt[r] # None => Rank[attempt[r].state] =< Rank["FAILED"]
        BY Zenon, <2>4, <3>1, <3>2, <3>5, SubmitBehind
      <3>4. attempt' = [attempt EXCEPT ![r] = Record(r, "FAILED")]
        BY Zenon, <2>4 DEF HandleCancelledExecution
      <3> QED
        BY Zenon, <3>1, <3>3, <3>4, <1>AttemptStored DEF AttemptStates
    <2>5. CASE TimeoutStore(r)
      <3>1. pc'[r] = "t_active"
        BY <2>5, SMTT(30) DEF TimeoutStore, Goto, AwaitThen, TypeOK
      <3>2. CASE frame[r].tmo = None
        <4>1. UNCHANGED attempt
          BY <2>5, <3>2, Zenon DEF TimeoutStore
        <4> QED
          BY <2>1, <4>1
      <3>3. CASE frame[r].tmo # None
        <4>1. PICK a \in Requests : a = frame[r].tmo
          BY <3>3, SMTT(30) DEF TypeOK, Frames, Maybe
        <4>2. IsQuery(r)
          BY Zenon, <2>5, QueryOnly, OtherHas, InsideFacts DEF TimeoutStore, At, RequestOK, Locked
        <4>3. Chat(r) \in Chats
          BY Zenon, <3>3, <4>2 DEF RequestOK, FrameFits, IsQuery, Chat, QueryAssumption
        <4>4. PICK rec : rec = Record(r, "TIMEOUT")
          BY Zenon
        <4>5. rec.state = "TIMEOUT" /\ rec \in Maybe(Attempts)
          BY Zenon, <4>3, <4>4, <1>RecordWritten DEF AttemptStates
        <4>6. attempt' = [attempt EXCEPT ![a] = rec]
          BY Zenon, <2>5, <3>3, <4>1, <4>4 DEF TimeoutStore
        <4>7. attempt' \in [Requests -> Maybe(Attempts)] /\ attempt'[a] = rec
          BY Zenon, <4>5, <4>6 DEF TypeOK
        <4>8. \A b \in Requests \ {a} : attempt'[b] = attempt[b]
          BY Zenon, <4>6 DEF TypeOK
        <4>9. attempt[a] # None => Rank[attempt[a].state] =< Rank["TIMEOUT"]
          BY RecordType, RankOrder
        <4> QED
          BY Zenon, <3>1, <4>1, <4>5, <4>7, <4>8, <4>9 DEF AttemptStep
      <3> QED
        BY Zenon, <3>2, <3>3
    <2>6. CASE DeletePrior(r) \/ RejectPrior(r) \/ TimeoutDeletePrior(r)
      <3>1. attempt' = [attempt EXCEPT ![Prior(r)] = None]
        BY <2>6, Zenon DEF DeletePrior, RejectPrior, TimeoutDeletePrior
      <3> QED
        BY Zenon, <3>1, AttemptRemoved
    <2>7. CASE DiscardInvalidatedAttempt(r)
      <3>1. UNCHANGED attempt \/ attempt' = [attempt EXCEPT ![frame[r].trk] = None]
        BY <2>7, Zenon DEF DiscardInvalidatedAttempt
      <3> QED
        BY <2>1, <3>1, AttemptRemoved
    <2> QED
      BY <2>1, <2>2, <2>3, <2>4, <2>5, <2>6, <2>7, Zenon DEF KeyAction, RegisterQueryOperation,
          TrackSessionAttempt, SetActiveAttempt, RetryTrackNew, DropActive, RejectTrack,
          HandleCancelledExecution, TimeoutDropActive
  <1>KeyActive. ActiveStep(r)
    <2>1. CASE SetActiveAttempt(r)
      <3>1. pc'[r] \in PostActive
        BY Zenon, <2>1 DEF SetActiveAttempt, EnsureThen, AwaitThen, TypeOK, PostActive
      <3>2. pc[r] = "activate" /\ attempt' = attempt /\ active' = [active EXCEPT ![Http[r]] = r]
        BY Zenon, <2>1 DEF SetActiveAttempt, At
      <3> QED
        BY Zenon, <3>1, <3>2 DEF ActiveStep, TypeOK, Maybe, QueryAssumption
    <2>2. CASE TimeoutDropActive(r) \/ DropActive(r)
      BY Zenon, <2>2, ActiveRemoved DEF TimeoutDropActive, DropActive
    <2>3. CASE HandleCancelledExecution(r)
      <3>1. pc[r] # "t_active"
        BY <2>3, SMTT(30) DEF HandleCancelledExecution, At
      <3> QED
        BY Zenon, <2>3, <3>1, ActiveRemoved, ActiveKept DEF HandleCancelledExecution
    <2>4. CASE DiscardInvalidatedAttempt(r)
      <3>1. \/ UNCHANGED active
            \/ active' = [active EXCEPT ![Http[r]] = IF @ = frame[r].trk THEN None ELSE @]
        BY <2>4, Zenon DEF DiscardInvalidatedAttempt
      <3>2. pc[r] # "t_active"
        BY Zenon, <2>4 DEF DiscardInvalidatedAttempt, At
      <3> QED
        BY <3>1, <3>2, ZenonT(30) DEF ActiveStep, TypeOK, Maybe
    <2>5. CASE UNCHANGED active /\ pc[r] # "t_active"
      BY Zenon, <2>5, ActiveKept
    <2>6. ASSUME \/ RegisterQueryOperation(r) \/ TrackSessionAttempt(r) \/ StoreAttempt(r)
                 \/ RetryTrackNew(r) \/ DeletePrior(r) \/ RejectTrack(r) \/ RejectStore(r)
                 \/ RejectPrior(r) \/ TimeoutDeletePrior(r) \/ TimeoutStore(r)
          PROVE  UNCHANGED active /\ pc[r] # "t_active"
      <3>1. UNCHANGED active
        BY <2>6, Zenon DEF RegisterQueryOperation, TrackSessionAttempt, StoreAttempt, RetryTrackNew,
            DeletePrior, RejectTrack, RejectStore, RejectPrior, TimeoutDeletePrior, TimeoutStore
      <3>2. pc[r] # "t_active"
        BY <2>6 DEF RegisterQueryOperation, TrackSessionAttempt, StoreAttempt, RetryTrackNew,
            DeletePrior, RejectTrack, RejectStore, RejectPrior, TimeoutDeletePrior, TimeoutStore, At
      <3> QED
        BY <3>1, <3>2
    <2> QED
      BY <2>1, <2>2, <2>3, <2>4, <2>5, <2>6, Zenon DEF KeyAction
  <1> QED
    BY <1>KeyAttempts, <1>KeyActive

=============================================================================
