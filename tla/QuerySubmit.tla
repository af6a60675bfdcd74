------------------------------ MODULE QuerySubmit ------------------------------
(***************************************************************************)
(* hooks/useQuerySubmit.ts: the four operations on a question, each under  *)
(* a request scope of its own, and the state they leave for the page. The  *)
(* session's deletion and the unmount of the workspace abort the request   *)
(* in flight, whose fetch still settles later, either way.                 *)
(***************************************************************************)
EXTENDS Naturals, FiniteSets

CONSTANTS
    YNone,          \* no session, nothing
    YMaxRequests,   \* bound: operations started
    YMaxDeletions   \* bound: deletions of the session begun

VARIABLES
    yMounted,       \* mountedRef
    ySubmitting,    \* submittingRef, isSubmitting
    yFlights,       \* requests whose promise is not settled
    yActive,        \* activeRequestRef: the id of its request, or YNone
    yVersion,       \* sessionDeletionLifecycle: deletions of the session begun
    yGone,          \* isSessionUnavailable
    yShown,         \* what result, refinePrompt, evaluatorRejection, timeout and error hold
    yOutcome,       \* how the last operation ended for its caller
    yRequests       \* bound; the id of the last request

yVars == <<yMounted, ySubmitting, yFlights, yActive, yVersion, yGone, yShown, yOutcome, yRequests>>

YOps == {"submit", "reject", "regenerate", "accept"}
(* What the server answers with an error, by the field handleError looks at *)
YCodes == {"notAnObject", "violations", "refine", "hostile_input_blocked", "quota_exceeded", "service_unavailable",
           "concurrent", "llm_unavailable", "attempt_invalid", "timeout", "anything else"}
YFlight(op, sess) ==
    [id |-> yRequests + 1, op |-> op, sess |-> sess, version |-> IF op = "submit" THEN yVersion ELSE 0, aborted |-> FALSE]
YLimited == yRequests < YMaxRequests

(* handleError: which state the payload of a failure sets *)
handleError(code) ==
    CASE code = "violations" -> {<<"rejection", code>>}
      [] code = "refine" -> {<<"refine", code>>}
      [] code = "timeout" -> {<<"timeout", code>>}
      [] code \in {"hostile_input_blocked", "quota_exceeded", "service_unavailable", "concurrent",
                   "llm_unavailable", "attempt_invalid"} -> {<<"error", code>>}
      [] OTHER -> {<<"error", "network">>}

(* mutant of YMayBegin *)
RefTakesAny == TRUE

(* beginRequest throws submit_in_progress while one is under way *)
YMayBegin == ~ySubmitting

(* mutant of clearStates *)
KeepsStates == yShown

(* clearStates *)
clearStates == {}

beginRequest(op, sess) ==
    /\ ySubmitting' = TRUE /\ yShown' = clearStates
    /\ yFlights' = yFlights \cup {YFlight(op, sess)} /\ yActive' = yRequests + 1
    /\ yRequests' = yRequests + 1

(* submitQuestionFn and acceptQueryFn name a session or none; the other two never do *)
YBegin(op, sess) ==
    /\ yMounted /\ YLimited /\ YMayBegin
    /\ op \in {"reject", "regenerate"} => sess = YNone
    /\ ~(op = "submit" /\ sess # YNone /\ yGone)
    /\ beginRequest(op, sess)
    /\ UNCHANGED <<yMounted, yVersion, yGone, yOutcome>>

(* submitQuestionFn without a connection, or for a session being deleted, sends nothing *)
YRefused ==
    /\ yMounted /\ YLimited
    /\ yRequests' = yRequests + 1
    /\ \/ yShown' = {s \in yShown : s[1] # "error"} \cup {<<"error", "connectionRequired">>} /\ yOutcome' = "connection_required"
       \/ yGone /\ yOutcome' = "unavailable" /\ UNCHANGED yShown
       \/ ySubmitting /\ yOutcome' = "submit_in_progress" /\ UNCHANGED yShown
    /\ UNCHANGED <<yMounted, ySubmitting, yFlights, yActive, yVersion, yGone>>

YAbort(ids) == {IF f.id \in ids THEN [f EXCEPT !.aborted = TRUE] ELSE f : f \in yFlights}

(* subscribeToSessionDeletion's listener: a deletion begins *)
YDeletionBegins ==
    /\ ~yGone /\ yVersion < YMaxDeletions
    /\ yGone' = TRUE /\ yVersion' = yVersion + 1
    /\ yFlights' = YAbort({f.id : f \in {g \in yFlights : yMounted /\ g.id = yActive /\ g.sess # YNone}})
    /\ UNCHANGED <<yMounted, ySubmitting, yActive, yShown, yOutcome, yRequests>>

(* rollbackSessionDeletion: the DELETE failed *)
YDeletionFails == yGone /\ yGone' = FALSE /\ UNCHANGED <<yMounted, ySubmitting, yFlights, yActive, yVersion, yShown, yOutcome, yRequests>>

(* The effect's cleanup *)
YUnmount ==
    /\ yMounted
    /\ yMounted' = FALSE /\ yFlights' = YAbort({yActive}) /\ yActive' = YNone
    /\ UNCHANGED <<ySubmitting, yVersion, yGone, yShown, yOutcome, yRequests>>

YDeletedSince(f) == f.sess # YNone /\ (yGone \/ yVersion # f.version)

(* classifySuppression: how an answer is suppressed (the module SessionDeletion has it for chats) *)
YSuppression(f) ==
    IF YDeletedSince(f) THEN "deleted" ELSE IF ~yMounted \/ f.aborted THEN "aborted" ELSE "none"

(* mutant of endRequest *)
NeverEnds == UNCHANGED <<yActive, ySubmitting>>

(* endRequest *)
endRequest == yActive' = YNone /\ ySubmitting' = FALSE

YSettles(f) == yFlights' = yFlights \ {f} /\ endRequest /\ UNCHANGED <<yMounted, yVersion, yGone, yRequests>>

(* The answer has arrived: it is suppressed or shown. accept, reject and regenerate look for an
   abort only. *)
YAnswered(f, data) ==
    /\ YSettles(f)
    /\ LET how == YSuppression(f)
           suppressed == how = "aborted" \/ (how = "deleted" /\ f.op = "submit") IN
       IF suppressed THEN yShown' = clearStates /\ yOutcome' = how
       ELSE /\ yOutcome' = "done"
            /\ yShown' = IF f.op = "accept" \/ (f.op = "submit" /\ data # "result") THEN yShown
                         ELSE yShown \cup {<<data, data>>}

(* mutant of classifyFailure *)
HandlesFirst(f, code) == handleError(code)

(* classifyFailure: an abort, of the scope or of the fetch, sets no state *)
classifyFailure(f, code) == IF f.aborted \/ code = "abort" THEN {} ELSE handleError(code)

(* The fetch has failed; submit looks for the deletion first *)
YFailed(f, code) ==
    /\ YSettles(f)
    /\ code = "abort" => f.aborted
    /\ IF f.op = "submit" /\ YDeletedSince(f) THEN yShown' = clearStates /\ yOutcome' = "deleted"
       ELSE /\ yShown' = yShown \cup classifyFailure(f, code)
            /\ yOutcome' = IF f.aborted THEN "aborted" ELSE "failed"

SubmitInit ==
    /\ yMounted = TRUE /\ ySubmitting = FALSE /\ yFlights = {} /\ yActive = YNone
    /\ yVersion = 0 /\ yGone = FALSE /\ yShown = {} /\ yOutcome = "none" /\ yRequests = 0

SubmitNext ==
    \/ \E op \in YOps, sess \in {YNone, "s"} : YBegin(op, sess)
    \/ YRefused \/ YDeletionBegins \/ YDeletionFails \/ YUnmount
    \/ \E f \in yFlights : \/ \E data \in {"result", "refine"} : YAnswered(f, data)
                           \/ \E code \in YCodes \cup {"abort"} : YFailed(f, code)

SubmitSpec == SubmitInit /\ [][SubmitNext]_yVars
-------------------------------------------------------------------------------
(* Types; isSubmitting is true exactly while a request is in flight, so that the prompt is never
   left disabled: every path ends in endRequest. *)
SubmitTypeOK ==
    /\ {yMounted, ySubmitting, yGone} \subseteq BOOLEAN /\ yActive \in 1..YMaxRequests \cup {YNone}
    /\ yVersion \in 0..YMaxDeletions /\ yRequests \in 0..YMaxRequests
    /\ \A f \in yFlights : f.op \in YOps /\ f.sess \in {YNone, "s"} /\ f.aborted \in BOOLEAN
    /\ ySubmitting <=> yFlights # {}

(* "One owned request scope per in-flight operation": no request outlives the page unaborted, because
   no second request ever takes the place of one in flight. *)
UnmountAbortsAll == ~yMounted => \A f \in yFlights : f.aborted

(* isAbortFailure: "Such failures must never render errors, toasts or stale state": an operation that
   was aborted, or whose session was deleted meanwhile, leaves nothing to be shown. *)
SuppressedShowsNothing ==
    yOutcome \in {"aborted", "deleted"} /\ ~ySubmitting => yShown \subseteq {<<"error", "connectionRequired">>}

(* The states of one operation never mix with those of the last one: at most one of them is set. *)
OneStateIsShown == Cardinality({s \in yShown : s[2] # "connectionRequired"}) <= 1
===============================================================================
