-------------------------- MODULE WorkspaceProofs --------------------------
(***************************************************************************)
(* The components of the user's pages, each for every value of its         *)
(* constants: a read under the client's deadline (RequestScope), the       *)
(* contract of its answer (ResponseContract), deleting chat sessions       *)
(* (SessionDeletion) and submitting a question (QuerySubmit).              *)
(***************************************************************************)
EXTENDS RequestScope, ResponseContract, SessionDeletion, QuerySubmit, FiniteSetTheorems, TLAPS

-----------------------------------------------------------------------------
(***************************************************************************)
(* A read under the client's deadline, for any number of fetches.  What is *)
(* shown depends on how run ended and on what had aborted the scope by     *)
(* then, so the inductive invariant ties the two together: a body that was *)
(* validated is valid, "parent" is the reason of a cancelled query only,   *)
(* and a contract error without an abort is the server's.                  *)
(***************************************************************************)

(* ScopeTypeOK in three parts: the scope, the answer, and what is shown. *)
ScopeTypes ==
    /\ xJson \in BOOLEAN /\ xPhase \in {"idle", "fetch", "validate", "read", "caught"}
    /\ xParent \in {"live", "aborted"} /\ xTimer \in BOOLEAN /\ xListener \in BOOLEAN
    /\ xReason \in {XNone, "parent", "deadline"}
AnswerTypes ==
    /\ xRes \in XResponse \cup {XNone} /\ xThrown \in XErrors \cup {"data", XNone}
    /\ xTries \in 0..1 /\ xFetches \in 0..XMaxFetches
ShownTypes ==
    /\ xQuery \in {"pending", "success", "error"} /\ xData \in {XNone, "valid", "invalid"}
    /\ xError \in XErrors \cup {"deadline", XNone}

(* What the stages of an answer know of it. *)
AnswerIsChecked ==
    /\ xPhase \in {"validate", "read"} => xRes \in XResponse
    /\ xPhase = "read" /\ (xJson \/ ~xRes.ok) => xRes.valid
    /\ xPhase = "caught" => xThrown \in XErrors \cup {"data"}
    /\ xPhase = "caught" /\ xThrown = "data" => xRes \in XResponse /\ (xJson => xRes.valid)

(* Where the reasons come from, and what failed without one. *)
ReasonIsTrue ==
    /\ xPhase # "idle" /\ xReason = "parent" => xParent = "aborted"
    /\ xPhase = "caught" /\ xThrown = "contract" /\ xReason = XNone => ~xRes.valid

ScopeInv == ScopeTypeOK /\ ScopeCleansUp /\ ShownDataIsValid /\ AnswerIsChecked /\ ReasonIsTrue

(* The three parts make up the type invariant. *)
LEMMA TypesInParts == ScopeTypeOK <=> ScopeTypes /\ AnswerTypes /\ ShownTypes
  BY Zenon DEF ScopeTypeOK, ScopeTypes, AnswerTypes, ShownTypes

(* They do so after a step, too. *)
LEMMA TypesInPartsNext == ScopeTypeOK' <=> ScopeTypes' /\ AnswerTypes' /\ ShownTypes'
  BY DEF ScopeTypeOK, ScopeTypes, AnswerTypes, ShownTypes

(* Nothing is in flight and nothing is shown at first. *)
LEMMA ScopeInitInv == ScopeInit => ScopeInv
  <1> SUFFICES ASSUME ScopeInit PROVE ScopeInv
    OBVIOUS
  <1> USE ScopeAssumption DEF ScopeInit
  <1>1. ScopeTypeOK
    <2>1. ScopeTypes
      BY Zenon DEF ScopeTypes
    <2>2. AnswerTypes
      BY DEF AnswerTypes, XErrors, XResponse
    <2>3. ShownTypes
      BY DEF ShownTypes, XErrors
    <2> QED
      BY <2>1, <2>2, <2>3, TypesInParts
  <1>2. ScopeCleansUp
    BY DEF ScopeCleansUp, XWorks
  <1>3. ShownDataIsValid /\ AnswerIsChecked /\ ReasonIsTrue
    BY Zenon DEF ShownDataIsValid, AnswerIsChecked, ReasonIsTrue
  <1> QED
    BY <1>1, <1>2, <1>3 DEF ScopeInv

(* A new fetch begins with a scope of its own, joined to a live query. *)
LEMMA FetchInv ==
  ASSUME ScopeInv, XStart \/ XRetry
  PROVE  ScopeInv'
  <1> USE ScopeAssumption DEF XStart, XRetry, XFetch, XConstruct, XArms, xShown, ScopeInv
  <1>1. ScopeTypeOK'
    <2>1. ScopeTypes'
      BY Zenon, TypesInParts DEF ScopeTypes
    <2>2. AnswerTypes'
      BY TypesInParts DEF AnswerTypes, XErrors, XResponse
    <2>3. ShownTypes'
      BY TypesInParts DEF ShownTypes, XErrors
    <2> QED
      BY <2>1, <2>2, <2>3, TypesInPartsNext
  <1>2. ScopeCleansUp'
    BY Zenon DEF ScopeCleansUp, XWorks, XAborted
  <1>3. ShownDataIsValid' /\ AnswerIsChecked' /\ ReasonIsTrue'
    BY DEF ShownDataIsValid, AnswerIsChecked, ReasonIsTrue
  <1> QED
    BY Zenon, <1>1, <1>2, <1>3

(* The timer and the cancellation of the query: the first of them is the reason. *)
LEMMA AbortInv ==
  ASSUME ScopeInv, XDeadline \/ XCancel
  PROVE  ScopeInv'
  <1> USE ScopeAssumption DEF XDeadline, XCancel, fireAbort, XAborted, xShown, ScopeInv
  <1>1. ScopeTypeOK'
    <2>1. ScopeTypes'
      BY Zenon, TypesInParts DEF ScopeTypes
    <2>2. AnswerTypes'
      BY Zenon, TypesInParts DEF AnswerTypes, XErrors, XResponse
    <2>3. ShownTypes'
      BY Zenon, TypesInParts DEF ShownTypes, XErrors
    <2> QED
      BY <2>1, <2>2, <2>3, TypesInPartsNext
  <1>2. ScopeCleansUp'
    BY DEF ScopeCleansUp, ScopeTypeOK, XWorks
  <1>3. ShownDataIsValid' /\ AnswerIsChecked'
    BY DEF ShownDataIsValid, AnswerIsChecked
  <1>4. ReasonIsTrue'
    BY Zenon DEF ReasonIsTrue, ScopeTypeOK
  <1> QED
    BY Zenon, <1>1, <1>2, <1>3, <1>4

(* The stages of an answer: fetch, validateFetchResponse, the reading of the body. *)
LEMMA StageInv ==
  ASSUME ScopeInv, XAnswered \/ validateFetchResponse \/ XRead
  PROVE  ScopeInv'
  <1> USE ScopeAssumption
      DEF XAnswered, validateFetchResponse, XRead, XEnds, XPhaseTo, shouldValidateResponse, XAborted, xShown, ScopeInv
  <1>1. ScopeTypeOK'
    <2>1. ScopeTypes'
      BY Zenon, TypesInParts DEF ScopeTypes
    <2>2. AnswerTypes'
      BY Zenon, TypesInParts DEF AnswerTypes, XErrors, XResponse
    <2>3. ShownTypes'
      BY ZenonT(30), TypesInParts DEF ShownTypes, XErrors
    <2> QED
      BY Zenon, <2>1, <2>2, <2>3, TypesInPartsNext
  <1>2. ScopeCleansUp'
    BY DEF ScopeCleansUp, XWorks
  <1>3. ShownDataIsValid'
    BY Zenon DEF ShownDataIsValid
  <1>4. AnswerIsChecked'
    BY DEF AnswerIsChecked, XErrors, XResponse, ScopeTypeOK
  <1>5. ReasonIsTrue'
    BY Zenon DEF ReasonIsTrue, AnswerIsChecked, XResponse
  <1> QED
    BY Zenon, <1>1, <1>2, <1>3, <1>4, <1>5

(* The query settles, or gives up between two tries: the scope is disposed of. *)
LEMMA SettleInv ==
  ASSUME ScopeInv, XSettle \/ XGiveUp
  PROVE  ScopeInv'
  <1> USE ScopeAssumption DEF XSettle, XGiveUp, XDispose, XCaught, featureQueryRetry, xShown, ScopeInv
  <1>1. ScopeTypeOK'
    <2>1. ScopeTypes'
      BY Zenon, TypesInParts DEF ScopeTypes
    <2>2. AnswerTypes'
      BY TypesInParts DEF AnswerTypes, XErrors, XResponse
    <2>3. ShownTypes'
      BY ZenonT(30), TypesInParts DEF ShownTypes, XErrors, AnswerIsChecked
    <2> QED
      BY <2>1, <2>2, <2>3, TypesInPartsNext
  <1>2. ScopeCleansUp'
    BY DEF ScopeCleansUp, XWorks
  <1>3. ShownDataIsValid'
    BY Zenon DEF ShownDataIsValid, AnswerIsChecked
  <1>4. AnswerIsChecked' /\ ReasonIsTrue'
    BY DEF AnswerIsChecked, ReasonIsTrue
  <1> QED
    BY Zenon, <1>1, <1>2, <1>3, <1>4

(* Every step preserves the inductive invariant. *)
LEMMA ScopeNextInv == ScopeInv /\ [ScopeNext]_xVars => ScopeInv'
  <1> SUFFICES ASSUME ScopeInv, [ScopeNext]_xVars PROVE ScopeInv'
    OBVIOUS
  <1>1. CASE ScopeNext
    BY Zenon, <1>1, FetchInv, AbortInv, StageInv, SettleInv DEF ScopeNext, XClient
  <1>2. CASE UNCHANGED xVars
    BY <1>2 DEF xVars, ScopeInv, ScopeTypeOK, ScopeCleansUp, ShownDataIsValid, AnswerIsChecked, ReasonIsTrue,
                XWorks, XAborted
  <1> QED
    BY <1>1, <1>2

(* The inductive invariant holds in every state. *)
LEMMA ScopeInvariance == ScopeSpec => []ScopeInv
  BY ScopeInitInv, ScopeNextInv, PTL DEF ScopeSpec

(* The parts of the type invariant hold in every state: a query is tried twice at most. *)
THEOREM ScopeTypesHold == ScopeSpec => []ScopeTypeOK
  BY ScopeInvariance, PTL DEF ScopeInv

(* withRequestDeadline and validateFetchResponse: no timer and no listener outlives its fetch, a fetch at
   work is under its deadline unless something has aborted it, and no race of an answer with the timer or
   with a cancellation brings data on the screen that has not passed the contract of its operation. *)
THEOREM EveryScopeIsSound == ScopeSpec => []ScopeIsSound
  <1>1. ScopeInv => ScopeIsSound
    BY DEF ScopeInv, ScopeIsSound
  <1> QED
    BY <1>1, ScopeInvariance, PTL

(* fireAbort: the first reason of an abort stays while the scope is at work. *)
THEOREM FirstAbortWins == ScopeSpec => FirstReasonStays
  <1>1. [ScopeNext]_xVars => [XWorks /\ XAborted => xReason' = xReason]_xVars
    BY Zenon DEF ScopeNext, XClient, XStart, XRetry, XFetch, XDeadline, XCancel, fireAbort, XAnswered,
           validateFetchResponse, XRead, XEnds, XPhaseTo, XSettle, XGiveUp, XWorks, XAborted, xVars
  <1> QED
    BY <1>1, PTL DEF ScopeSpec, FirstReasonStays

(* The catch of withRequestDeadline and ClientQueryState: "requestTimeout" is told exactly when the
   client's own deadline has passed, and an invalid response only when the server has sent one. *)
THEOREM FailuresAreToldTruly == ScopeSpec => FailureIsToldTruly
  <1> DEFINE Told == XSettle /\ xParent = "live" /\ XCaught # "data" /\ xTries' = 0 =>
                       /\ XMessage' = "requestTimeout" <=> xReason = "deadline"
                       /\ XMessage' \in {"invalidInitial", "invalidRefresh"} => ~xRes.valid
  <1>1. ScopeInv /\ [ScopeNext]_xVars => [Told]_xVars
    <2> SUFFICES ASSUME ScopeInv, XSettle, xParent = "live", XCaught # "data", xTries' = 0
                 PROVE  /\ XMessage' = "requestTimeout" <=> xReason = "deadline"
                        /\ XMessage' \in {"invalidInitial", "invalidRefresh"} => ~xRes.valid
      BY Zenon
    <2>1. xQuery' = "error" /\ xError' = XCaught /\ xPhase = "caught"
      BY DEF XSettle, ScopeInv, ScopeTypeOK
    <2>2. xThrown \in XErrors
      BY <2>1 DEF ScopeInv, AnswerIsChecked, XCaught, XErrors
    <2>3. XMessage' = "requestTimeout" <=> xReason = "deadline"
      BY Zenon, <2>1, <2>2 DEF XMessage, XCaught, XErrors
    <2>4. XMessage' \in {"invalidInitial", "invalidRefresh"} => ~xRes.valid
      BY <2>1, <2>2, ScopeAssumption DEF XMessage, XCaught, XErrors, ScopeInv, ScopeTypeOK, ReasonIsTrue
    <2> QED
      BY <2>3, <2>4
  <1> QED
    BY <1>1, ScopeInvariance, PTL DEF ScopeSpec, FailureIsToldTruly

-----------------------------------------------------------------------------
(***************************************************************************)
(* The response contract for every manifest, every set of alternatives per *)
(* status and every finite body.  The heart of it is matchingUnionSchema:  *)
(* the alternative it takes declares at least as many of the body's keys   *)
(* as any other that accepts the body, so when one declares them all, the  *)
(* one that is taken declares them all.                                    *)
(***************************************************************************)

(* What is handed on is what validateFetchResponse made of this answer; an  *)
(* answer comes after its request, and a result after its answer.           *)
ContractInv ==
    /\ hOp = HNone => hAnswer = HNone
    /\ hAnswer = HNone => hOut = HNone
    /\ hAnswer # HNone => hAnswer.body \in HBodies
    /\ hOut # HNone => \E op \in requestOperation(hRequest) : hOut \in HValidated(op, hAnswer)

(* sanitizeObject keeps exactly the keys the schema declares. *)
LEMMA SanitizedKeys ==
  ASSUME NEW schema, NEW body \in HBodies
  PROVE  sanitizeObject(schema, body).keys = body.keys \cap schema.properties
  BY ContractAssumption DEF sanitizeObject

(* matchingUnionSchema: if some alternative that accepts the body declares  *)
(* all of its keys, so does the one that is taken.                          *)
LEMMA TakenDeclaresAll ==
  ASSUME NEW schemas, NEW body \in HBodies,
         NEW c \in matchingUnionSchema(schemas, body),
         NEW i \in DOMAIN schemas, HAccepts(schemas[i], body),
         body.keys \subseteq schemas[i].properties
  PROVE  body.keys \subseteq schemas[c].properties
  <1> DEFINE all == body.keys
             taken == schemas[c].properties \cap all
  <1>1. IsFiniteSet(all)
    BY Zenon, ContractAssumption
  <1>2. schemas[i].properties \cap all = all
    OBVIOUS
  <1>3. HMatching(schemas[i], body) = Cardinality(all)
    BY Zenon, <1>2 DEF HMatching
  <1>4. HMatching(schemas[c], body) = Cardinality(taken)
    BY DEF HMatching
  <1>5. Cardinality(all) < Cardinality(taken) \/ Cardinality(all) = Cardinality(taken)
    BY Zenon, <1>3, <1>4 DEF matchingUnionSchema
  <1>6. taken \in SUBSET all
    BY Zenon
  <1> HIDE DEF all, taken
  <1>7. /\ Cardinality(taken) <= Cardinality(all)
        /\ Cardinality(all) = Cardinality(taken) => all = taken
    BY Zenon, <1>1, <1>6, FS_Subset
  <1>8. Cardinality(all) \in Nat /\ Cardinality(taken) \in Nat
    BY Zenon, <1>1, <1>6, FS_Subset, FS_CardinalityType
  <1>9. all = taken
    BY <1>5, <1>7, <1>8
  <1> QED
    BY <1>9 DEF all, taken

(* The check by hand has three verdicts. *)
LEMMA Verdicts ==
  ASSUME NEW id, NEW status, NEW body
  PROVE  validateSemanticContract(id, status, body) \in {"sound", "crash", "contract"}
  BY Zenon DEF validateSemanticContract

(* A body that is handed on came unread, or is what the alternative that    *)
(* was taken declares of it.                                                *)
LEMMA HandedOn ==
  ASSUME NEW op, NEW answer, NEW out \in HValidated(op, answer), out.kind = "body"
  PROVE  \/ ~HShouldValidate(op, answer.status) /\ out.body = answer.body
         \/ \E c \in matchingUnionSchema(op.unions[answer.status], answer.body) :
               out.body = sanitizeObject(op.unions[answer.status][c], answer.body)
  <1>1. CASE ~HShouldValidate(op, answer.status)
    BY <1>1 DEF HValidated, HPass
  <1>2. CASE HShouldValidate(op, answer.status)
    <2>1. out \in validateOperationResponse(op, answer)
      BY <1>2 DEF HValidated, HFail
    <2> DEFINE schemas == op.unions[answer.status]
               clean(c) == sanitizeObject(schemas[c], answer.body)
               verdict(c) == validateSemanticContract(op.id, answer.status, clean(c))
    <2>2. PICK c \in matchingUnionSchema(schemas, answer.body) :
             out = IF verdict(c) = "sound" THEN HPass(clean(c)) ELSE HFail(verdict(c))
      BY <2>1 DEF validateOperationResponse, HFail
    <2>3. verdict(c) \in {"sound", "crash", "contract"}
      BY Zenon, Verdicts
    <2> HIDE DEF verdict, clean
    <2>4. out.body = clean(c)
      BY Zenon, <2>2, <2>3 DEF HPass, HFail
    <2> QED
      BY Zenon, <2>4 DEF clean
  <1> QED
    BY Zenon, <1>1, <1>2

(* The invariant implies the contract. *)
LEMMA InvImpliesContract == ContractInv => ContractIsKept
  <1> SUFFICES ASSUME ContractInv, hOut # HNone, hOut.kind = "body"
               PROVE  DeclaredKeysSurvive /\ NothingUndeclared
    BY DEF ContractIsKept, DeclaredKeysSurvive, NothingUndeclared
  <1>1. PICK op \in requestOperation(hRequest) : hOut \in HValidated(op, hAnswer)
    BY DEF ContractInv
  <1>2. hAnswer.body \in HBodies
    BY Zenon DEF ContractInv
  <1> DEFINE schemas == op.unions[hAnswer.status]
  <1>3. \/ ~HShouldValidate(op, hAnswer.status) /\ hOut.body = hAnswer.body
        \/ \E c \in matchingUnionSchema(schemas, hAnswer.body) :
              hOut.body = sanitizeObject(schemas[c], hAnswer.body)
    BY <1>1, HandedOn
  <1>4. CASE ~HShouldValidate(op, hAnswer.status) /\ hOut.body = hAnswer.body
    BY Zenon, <1>4 DEF DeclaredKeysSurvive, NothingUndeclared
  <1>5. CASE \E c \in matchingUnionSchema(schemas, hAnswer.body) :
                hOut.body = sanitizeObject(schemas[c], hAnswer.body)
    <2>1. PICK c \in matchingUnionSchema(schemas, hAnswer.body) :
             hOut.body = sanitizeObject(schemas[c], hAnswer.body)
      BY Zenon, <1>5
    <2>2. hOut.body.keys = hAnswer.body.keys \cap schemas[c].properties
      BY Zenon, <2>1, <1>2, SanitizedKeys
    <2>3. c \in DOMAIN schemas
      BY Zenon DEF matchingUnionSchema
    <2>4. \A i \in DOMAIN schemas :
             HAccepts(schemas[i], hAnswer.body) /\ hAnswer.body.keys \subseteq schemas[i].properties
             => hOut.body.keys = hAnswer.body.keys
      BY Zenon, <1>2, <2>2, TakenDeclaresAll
    <2>5. DeclaredKeysSurvive
      BY Zenon, <2>4 DEF DeclaredKeysSurvive
    <2>6. NothingUndeclared
      BY Zenon, <2>2, <2>3 DEF NothingUndeclared
    <2> QED
      BY Zenon, <2>5, <2>6
  <1> QED
    BY Zenon, <1>3, <1>4, <1>5

(* No request has been made at first. *)
LEMMA ContractInitInv == ContractInit => ContractInv
  BY Zenon DEF ContractInit, ContractInv

(* A call, an answer and its validation keep the invariant. *)
LEMMA ContractNextInv == ContractInv /\ [ContractNext]_hVars => ContractInv'
  <1> SUFFICES ASSUME ContractInv, [ContractNext]_hVars PROVE ContractInv'
    OBVIOUS
  <1>1. ASSUME NEW op \in HManifest, NEW id \in HIds, HCall(op, id) PROVE ContractInv'
    BY Zenon, <1>1 DEF ContractInv, HCall
  <1>2. ASSUME NEW status \in HStatuses, NEW json \in BOOLEAN, NEW body \in HBodies,
               HRespond(status, json, body)
        PROVE  ContractInv'
    BY Zenon, <1>2 DEF ContractInv, HRespond
  <1>3. ASSUME validatedApiFetch PROVE ContractInv'
    <2>1. PICK op \in requestOperation(hRequest) : hOut' \in HValidated(op, hAnswer)
      BY <1>3 DEF validatedApiFetch
    <2>2. UNCHANGED <<hOp, hRequest, hAnswer>> /\ hAnswer # HNone
      BY Zenon, <1>3 DEF validatedApiFetch
    <2>3. requestOperation(hRequest)' = requestOperation(hRequest)
      BY Zenon, <2>2 DEF requestOperation, HCandidates
    <2>4. HValidated(op, hAnswer)' = HValidated(op, hAnswer)
      BY Zenon, <2>2 DEF HValidated
    <2> QED
      BY <2>1, <2>2, <2>3, <2>4 DEF ContractInv
  <1>4. ASSUME UNCHANGED hVars PROVE ContractInv'
    BY <1>4 DEF ContractInv, hVars
  <1> QED
    BY <1>1, <1>2, <1>3, <1>4 DEF ContractNext

(* matchingUnionSchema and sanitizeObject, for every manifest: no declared  *)
(* key of a body is lost because another alternative accepts the body as    *)
(* well, and no undeclared key reaches a page.                              *)
THEOREM EveryContractIsKept == ContractSpec => []ContractIsKept
  BY ContractInitInv, ContractNextInv, InvImpliesContract, PTL DEF ContractSpec

-----------------------------------------------------------------------------
(***************************************************************************)
(* Deleting chat sessions, for any set of sessions and any number of       *)
(* navigations, deletions and questions.                                   *)
(*                                                                         *)
(* None of the three parts of DeletionIsSafe is inductive.  A DELETE that  *)
(* succeeds leaves its session unavailable for good, so it must be gone    *)
(* from the server, and stay so: what is created later is new              *)
(* (DeletesAreKnown).  An undone session is only kept if neither a toast   *)
(* nor a DELETE on its way can still reach it (UndoneIsOutOfReach).  A     *)
(* detail that arrives late is only dropped if the registry's version has  *)
(* moved since it was asked for (FetchIsVersioned).                        *)
(***************************************************************************)

(* The sessions somebody knows of have existed; toasts and versions are of sessions. *)
SessionsAreBorn ==
    /\ dServer \subseteq dBorn /\ dList \subseteq dBorn /\ dUnavailable \subseteq dBorn
    /\ dBorn \subseteq DSessions
    /\ dToasts \in [DSessions -> Toast] /\ dVersion \in [DSessions -> Nat]
    /\ dActive \in DSessions \cup {DNone}
    /\ \A s \in DSessions : dToasts[s] # "no" => s \in dBorn

IsDelete(d) == d = [sess |-> d.sess, nr |-> d.nr, state |-> d.state, watched |-> d.watched, had |-> d.had]

(* A DELETE the server has answered is of a session that is gone. *)
DeletesAreKnown ==
    \A d \in dDeletes : IsDelete(d) /\ d.sess \in dBorn /\ (d.state # "sent" => d.sess \notin dServer)

(* No toast and no DELETE that is still to be answered is of an undone session. *)
UndoneIsOutOfReach ==
    /\ UndoneIsKept
    /\ \A s \in DSessions : dToasts[s] # "no" => s \notin dUndone
    /\ \A d \in dDeletes : d.state = "sent" => d.sess \notin dUndone

(* A detail whose version is still the registry's is of an available session. *)
FetchIsVersioned ==
    /\ DeletedDetailIsForgotten
    /\ dFetch # DNone =>
         /\ dFetch.sess \in DSessions /\ dFetch.version \in Nat
         /\ dFetch.version <= dVersion[dFetch.sess]
         /\ dFetch.version = dVersion[dFetch.sess] => dFetch.sess \notin dUnavailable

DeletionInv ==
    SessionsAreBorn /\ DeletesAreKnown /\ UndoneIsOutOfReach /\ UnavailableMeansDeleting /\ FetchIsVersioned

(* A DELETE that nobody watches any more is the same in everything else. *)
LEMMA UnwatchedDelete ==
  ASSUME NEW d, IsDelete(d), NEW watched
  PROVE  LET e == [d EXCEPT !.watched = watched]
         IN  IsDelete(e) /\ e.sess = d.sess /\ e.state = d.state
  BY DEF IsDelete

(* A DELETE as mutate sends it. *)
LEMMA SentDelete ==
  ASSUME NEW s, NEW nr, NEW watched, NEW had
  PROVE  LET e == [sess |-> s, nr |-> nr, state |-> "sent", watched |-> watched, had |-> had]
         IN  IsDelete(e) /\ e.sess = s /\ e.state = "sent"
  BY Zenon DEF IsDelete

(* So is one whose state changed. *)
LEMMA AnsweredDelete ==
  ASSUME NEW d, IsDelete(d), NEW state
  PROVE  LET e == [d EXCEPT !.state = state]
         IN  IsDelete(e) /\ e.sess = d.sess /\ e.state = state
  BY DEF IsDelete

(* The sessions and the states of the DELETEs survive their being unwatched. *)
LEMMA UnwatchedSet ==
  ASSUME NEW D, \A d \in D : IsDelete(d)
  PROVE  /\ \A e \in DUnwatched(D) : IsDelete(e) /\ \E d \in D : e.sess = d.sess /\ e.state = d.state
         /\ \A d \in D : \E e \in DUnwatched(D) : e.sess = d.sess
  <1> DEFINE unwatched(d) == [d EXCEPT !.watched = FALSE]
  <1>1. \A d \in D : LET e == unwatched(d) IN IsDelete(e) /\ e.sess = d.sess /\ e.state = d.state
    BY UnwatchedDelete, Zenon
  <1>2. DUnwatched(D) = {unwatched(d) : d \in D}
    BY Zenon DEF DUnwatched
  <1> HIDE DEF unwatched
  <1> QED
    BY <1>1, <1>2

(* All sessions exist, none is being deleted and nothing is on its way at first. *)
LEMMA DeletionInitInv == DeletionInit => DeletionInv
  BY DeletionAssumption
     DEF DeletionInit, DeletionInv, SessionsAreBorn, DeletesAreKnown, UndoneIsOutOfReach, UndoneIsKept,
         UnavailableMeansDeleting, FetchIsVersioned, DeletedDetailIsForgotten, Toast

(* A navigation takes the toasts along. *)
LEMMA NavigateInv ==
  ASSUME DeletionInv, NEW a \in DSessions \cup {DNone}, DNavigate(a)
  PROVE  DeletionInv'
  <1> USE DEF DNavigate, DUnmount, dRegistry, DeletionInv
  <1>1. SessionsAreBorn'
    BY DEF SessionsAreBorn, Toast
  <1>2. /\ \A e \in dDeletes' : IsDelete(e) /\ \E d \in dDeletes : e.sess = d.sess /\ e.state = d.state
        /\ \A d \in dDeletes : \E e \in dDeletes' : e.sess = d.sess
    BY UnwatchedSet DEF DeletesAreKnown
  <1>3. DeletesAreKnown'
    BY <1>2 DEF DeletesAreKnown
  <1>4. UndoneIsOutOfReach'
    BY <1>2 DEF UndoneIsOutOfReach, UndoneIsKept
  <1>5. UnavailableMeansDeleting'
    BY <1>2 DEF UnavailableMeansDeleting, DDeleting
  <1>6. FetchIsVersioned'
    BY Zenon DEF FetchIsVersioned, DeletedDetailIsForgotten
  <1> QED
    BY ZenonT(30), <1>1, <1>3, <1>4, <1>5, <1>6

(* The toast appears, is paused, or is undone. *)
LEMMA ToastInv ==
  ASSUME DeletionInv, NEW s \in DSessions, handleDeleteSession(s) \/ DPause(s) \/ handleUndo(s)
  PROVE  DeletionInv'
  <1> USE DEF handleDeleteSession, DPause, handleUndo, dRegistry, dHistory, DeletionInv
  <1>1. SessionsAreBorn'
    BY DEF SessionsAreBorn, Toast, DListed
  <1>2. DeletesAreKnown' /\ UnavailableMeansDeleting'
    BY Zenon DEF DeletesAreKnown, UnavailableMeansDeleting, DDeleting
  <1>3. UndoneIsOutOfReach'
    BY DEF UndoneIsOutOfReach, UndoneIsKept, SessionsAreBorn, DDeleting, Toast
  <1>4. FetchIsVersioned'
    BY DEF FetchIsVersioned, DeletedDetailIsForgotten
  <1> QED
    BY Zenon, <1>1, <1>2, <1>3, <1>4

(* The time is over: the session becomes unavailable and its DELETE is sent. *)
LEMMA FireInv ==
  ASSUME DeletionInv, NEW s \in DSessions, fireDeletion(s)
  PROVE  DeletionInv'
  <1> USE DEF DeletionInv
  <1>1. /\ dToasts[s] = "counting" /\ s \in dBorn /\ s \notin dUndone
        /\ UNCHANGED <<dServer, dBorn, dList, dUsed, dUndone, dAsked>> /\ dDetail' = dDetail \ {s}
        /\ dUnavailable' = dUnavailable \cup {s}
    BY DEF fireDeletion, dHistory, SessionsAreBorn, UndoneIsOutOfReach, DForget, beginSessionDeletion, dRegistry
  <1>2. /\ dVersion' \in [DSessions -> Nat]
        /\ dVersion' = IF s \in dUnavailable THEN dVersion ELSE [dVersion EXCEPT ![s] = @ + 1]
    <2>1. dVersion' = IF s \in dUnavailable THEN dVersion ELSE [dVersion EXCEPT ![s] = @ + 1]
      BY Zenon DEF fireDeletion, beginSessionDeletion, dRegistry
    <2>2. dVersion \in [DSessions -> Nat]
      BY Zenon DEF SessionsAreBorn
    <2> QED
      BY <2>1, <2>2
  <1>3. dToasts' \in [DSessions -> Toast] /\ \A t \in DSessions : dToasts'[t] # "no" => dToasts[t] # "no"
    BY <1>1 DEF fireDeletion, DUnmount, SessionsAreBorn, Toast
  <1>4. dActive' \in {dActive, DNone} /\ dFetch' \in {dFetch, DNone}
    BY Zenon DEF fireDeletion, DUnmount
  <1>5. SessionsAreBorn'
    BY <1>1, <1>2, <1>3, <1>4 DEF SessionsAreBorn
  <1>6. PICK new : /\ IsDelete(new) /\ new.sess = s /\ new.state = "sent"
                   /\ \/ dDeletes' = dDeletes \cup {new}
                      \/ dDeletes' = DUnwatched(dDeletes \cup {new})
    <2> DEFINE rec(w) == [sess |-> s, nr |-> CHOOSE n \in 1..DMaxDeletes : \A d \in dDeletes : d.nr # n,
                          state |-> "sent", watched |-> w, had |-> s \in dDetail]
    <2>1. \/ dDeletes' = dDeletes \cup {rec(TRUE)}
          \/ dDeletes' = DUnwatched(dDeletes \cup {rec(FALSE)})
      BY Zenon DEF fireDeletion
    <2>2. \A w \in BOOLEAN : IsDelete(rec(w)) /\ rec(w).sess = s /\ rec(w).state = "sent"
      BY Zenon, SentDelete
    <2> HIDE DEF rec
    <2> QED
      BY Zenon, <2>1, <2>2
  <1>7. /\ \A e \in dDeletes' : IsDelete(e) /\ \E d \in dDeletes \cup {new} : e.sess = d.sess /\ e.state = d.state
        /\ \A d \in dDeletes \cup {new} : \E e \in dDeletes' : e.sess = d.sess
    <2>1. \A d \in dDeletes \cup {new} : IsDelete(d)
      BY Zenon, <1>6 DEF DeletesAreKnown
    <2> QED
      BY <1>6, <2>1, UnwatchedSet
  <1>8. DeletesAreKnown'
    BY ZenonT(30), <1>1, <1>6, <1>7 DEF DeletesAreKnown
  <1>9. UndoneIsOutOfReach'
    BY ZenonT(30), <1>1, <1>3, <1>6, <1>7 DEF UndoneIsOutOfReach, UndoneIsKept
  <1>10. UnavailableMeansDeleting'
    BY <1>1, <1>6, <1>7 DEF UnavailableMeansDeleting, DDeleting
  <1>11. FetchIsVersioned'
    BY <1>1, <1>2, <1>4 DEF FetchIsVersioned, DeletedDetailIsForgotten, SessionsAreBorn
  <1> QED
    BY Zenon, <1>5, <1>8, <1>9, <1>10, <1>11

(* The server acts on a DELETE. *)
LEMMA ServerInv ==
  ASSUME DeletionInv, NEW d \in dDeletes, DServerDeletes(d)
  PROVE  DeletionInv'
  <1> USE DEF DeletionInv, DServerDeletes, dRegistry, dHistory
  <1>1. PICK e : /\ dDeletes' = (dDeletes \ {d}) \cup {e}
                 /\ IsDelete(e) /\ e.sess = d.sess /\ e.state # "sent"
    <2> DEFINE e == [d EXCEPT !.state = IF d.sess \in dServer THEN "applied" ELSE "missing"]
    <2>1. IsDelete(e) /\ e.sess = d.sess /\ e.state \in {"applied", "missing"}
      BY AnsweredDelete DEF DeletesAreKnown
    <2>2. dDeletes' = (dDeletes \ {d}) \cup {e}
      OBVIOUS
    <2> HIDE DEF e
    <2> QED
      BY <2>1, <2>2
  <1>2. SessionsAreBorn'
    BY DEF SessionsAreBorn
  <1>3. DeletesAreKnown'
    BY <1>1 DEF DeletesAreKnown
  <1>4. UndoneIsOutOfReach'
    BY <1>1 DEF UndoneIsOutOfReach, UndoneIsKept
  <1>5. UnavailableMeansDeleting'
    BY <1>1 DEF UnavailableMeansDeleting, DDeleting
  <1>6. FetchIsVersioned'
    BY Zenon DEF FetchIsVersioned, DeletedDetailIsForgotten
  <1> QED
    BY <1>2, <1>3, <1>4, <1>5, <1>6

(* A DELETE ends, well or not. *)
LEMMA EndInv ==
  ASSUME DeletionInv, NEW d \in dDeletes, DDeleteSucceeds(d) \/ DDeleteFails(d)
  PROVE  DeletionInv'
  <1> USE DEF DeletionInv, DDeleteSucceeds, DDeleteFails, DToastEnds, rollbackSessionDeletion, dRegistry
  <1>1. dToasts' \in [DSessions -> Toast] /\ \A t \in DSessions : dToasts'[t] # "no" => dToasts[t] # "no"
    BY Zenon DEF SessionsAreBorn, Toast
  <1>2. SessionsAreBorn'
    BY Zenon, <1>1 DEF SessionsAreBorn
  <1>3. DeletesAreKnown'
    BY Zenon DEF DeletesAreKnown
  <1>4. UndoneIsOutOfReach'
    BY Zenon, <1>1 DEF UndoneIsOutOfReach, UndoneIsKept
  <1>5. UnavailableMeansDeleting'
    BY Zenon DEF UnavailableMeansDeleting, DDeleting, DeletesAreKnown
  <1>6. FetchIsVersioned'
    BY Zenon DEF FetchIsVersioned, DeletedDetailIsForgotten
  <1> QED
    BY Zenon, <1>2, <1>3, <1>4, <1>5, <1>6

(* The list and the detail of the active session are read; questions come and go. *)
LEMMA ReadInv ==
  ASSUME DeletionInv,
         \/ DArrive \/ DListSettles \/ DDetailStarts \/ \E found \in BOOLEAN : DDetailSettles(found)
         \/ DSubmit \/ DNotAnswered \/ \E s \in DSessions : DAnswered(s)
  PROVE  DeletionInv'
  <1> USE DEF DeletionInv, dRegistry, dHistory
  <1>1. CASE DArrive \/ DSubmit \/ DNotAnswered \/ DListSettles
    <2> USE <1>1 DEF DArrive, DSubmit, DNotAnswered, DListSettles
    <2>1. SessionsAreBorn' /\ DeletesAreKnown'
      BY Zenon DEF SessionsAreBorn, DeletesAreKnown
    <2>2. UndoneIsOutOfReach' /\ UnavailableMeansDeleting'
      BY Zenon DEF UndoneIsOutOfReach, UndoneIsKept, UnavailableMeansDeleting, DDeleting
    <2>3. FetchIsVersioned'
      BY Zenon DEF FetchIsVersioned, DeletedDetailIsForgotten
    <2> QED
      BY Zenon, <2>1, <2>2, <2>3
  <1>2. CASE DDetailStarts \/ \E found \in BOOLEAN : DDetailSettles(found)
    <2> USE <1>2 DEF DDetailStarts, DDetailSettles, DKeepsDetail
    <2>1. SessionsAreBorn' /\ DeletesAreKnown'
      BY Zenon DEF SessionsAreBorn, DeletesAreKnown
    <2>2. UndoneIsOutOfReach' /\ UnavailableMeansDeleting'
      BY Zenon DEF UndoneIsOutOfReach, UndoneIsKept, UnavailableMeansDeleting, DDeleting
    <2>3. FetchIsVersioned'
      BY DEF FetchIsVersioned, DeletedDetailIsForgotten, SessionsAreBorn
    <2> QED
      BY Zenon, <2>1, <2>2, <2>3
  <1>3. ASSUME NEW s \in DSessions, DAnswered(s) PROVE DeletionInv'
    <2> USE <1>3 DEF DAnswered
    <2>1. SessionsAreBorn'
      BY Zenon DEF SessionsAreBorn
    <2>2. dServer' \subseteq dServer \cup (DSessions \ dBorn) /\ dServer \subseteq dServer'
      BY Zenon
    <2>3. DeletesAreKnown'
      BY Zenon, <2>2 DEF DeletesAreKnown
    <2>4. UndoneIsOutOfReach'
      BY Zenon, <2>2 DEF UndoneIsOutOfReach, UndoneIsKept
    <2>5. UnavailableMeansDeleting'
      BY Zenon, <2>2 DEF UnavailableMeansDeleting, DDeleting, SessionsAreBorn
    <2>6. FetchIsVersioned'
      BY Zenon DEF FetchIsVersioned, DeletedDetailIsForgotten
    <2> QED
      BY Zenon, <2>1, <2>3, <2>4, <2>5, <2>6
  <1> QED
    BY Zenon, <1>1, <1>2, <1>3

(* Every step keeps the inductive invariant. *)
LEMMA DeletionNextInv == DeletionInv /\ [DeletionNext]_dVars => DeletionInv'
  <1> SUFFICES ASSUME DeletionInv, [DeletionNext]_dVars PROVE DeletionInv'
    OBVIOUS
  <1>1. CASE DeletionNext
    BY Zenon, <1>1, NavigateInv, ToastInv, FireInv, ServerInv, EndInv, ReadInv DEF DeletionNext
  <1>2. CASE UNCHANGED dVars
    <2> USE <1>2 DEF dVars, DeletionInv
    <2>1. SessionsAreBorn' /\ DeletesAreKnown'
      BY Zenon DEF SessionsAreBorn, DeletesAreKnown
    <2>2. UndoneIsOutOfReach' /\ UnavailableMeansDeleting'
      BY ZenonT(30) DEF UndoneIsOutOfReach, UndoneIsKept, UnavailableMeansDeleting, DDeleting
    <2>3. FetchIsVersioned'
      BY ZenonT(30) DEF FetchIsVersioned, DeletedDetailIsForgotten
    <2> QED
      BY Zenon, <2>1, <2>2, <2>3
  <1> QED
    BY <1>1, <1>2

(* handleUndo, fireDeletion, rollbackSessionDeletion and the versions of the registry: an undone          *)
(* deletion keeps its session, a session is unavailable only while its DELETE is on its way or after the  *)
(* server deleted it, and no late answer caches the detail of a session that is being deleted.            *)
THEOREM DeletionsAreSafe == DeletionSpec => []DeletionIsSafe
  <1>1. DeletionInv => DeletionIsSafe
    BY DEF DeletionInv, UndoneIsOutOfReach, FetchIsVersioned, DeletionIsSafe
  <1> QED
    BY <1>1, DeletionInitInv, DeletionNextInv, PTL DEF DeletionSpec

-----------------------------------------------------------------------------
(***************************************************************************)
(* useQuerySubmit, for any number of operations and deletions.  Everything *)
(* rests on submittingRef: it is set exactly while a request is in flight, *)
(* so that there is one at most, it is the one of activeRequestRef while   *)
(* the page is mounted, and nothing but the message about a missing        *)
(* connection is shown meanwhile.                                          *)
(***************************************************************************)

IsFlight(f) == f = [id |-> f.id, op |-> f.op, sess |-> f.sess, version |-> f.version, aborted |-> f.aborted]

(* The request in flight is the one the hook knows of. *)
OneFlight ==
    /\ yMounted \in BOOLEAN /\ ySubmitting \in BOOLEAN
    /\ ySubmitting <=> yFlights # {}
    /\ \A f, g \in yFlights : f = g
    /\ \A f \in yFlights : IsFlight(f) /\ (yMounted => f.id = yActive)

Refusal == <<"error", "connectionRequired">>

(* What is shown during an operation and after it. *)
ShownInv ==
    /\ ySubmitting => yShown \subseteq {Refusal}
    /\ \E s : yShown \subseteq {s, Refusal}

SubmitInv == OneFlight /\ ShownInv /\ UnmountAbortsAll /\ SuppressedShowsNothing

(* An abort changes nothing else of a request. *)
LEMMA AbortedFlight ==
  ASSUME NEW f, IsFlight(f), NEW aborted
  PROVE  LET g == [f EXCEPT !.aborted = aborted]
         IN  IsFlight(g) /\ g.id = f.id /\ g.aborted = aborted
  BY DEF IsFlight

(* The request in flight after an abort is the one before it. *)
LEMMA AbortKeepsFlight ==
  ASSUME NEW ids, \A f \in yFlights : IsFlight(f)
  PROVE  /\ YAbort(ids) = {} <=> yFlights = {}
         /\ \A g \in YAbort(ids) : IsFlight(g) /\ \E f \in yFlights :
               g.id = f.id /\ (f.aborted \/ f.id \in ids => g.aborted)
         /\ (\A f, g \in yFlights : f = g) => (\A f, g \in YAbort(ids) : f = g)
  <1> DEFINE cut(f) == [f EXCEPT !.aborted = TRUE]
  <1>1. \A f \in yFlights : IsFlight(cut(f)) /\ cut(f).id = f.id /\ cut(f).aborted = TRUE
    BY AbortedFlight, Zenon
  <1>2. YAbort(ids) = {IF f.id \in ids THEN cut(f) ELSE f : f \in yFlights}
    BY DEF YAbort
  <1> HIDE DEF cut
  <1> QED
    BY <1>1, <1>2

(* handleError sets one state. *)
LEMMA OneStatePerError == \A code : \E s : handleError(code) = {s}
  BY Zenon DEF handleError

(* Nothing is under way at first. *)
LEMMA SubmitInitInv == SubmitInit => SubmitInv
  BY Zenon DEF SubmitInit, SubmitInv, OneFlight, ShownInv, UnmountAbortsAll, SuppressedShowsNothing

(* An operation begins, or is refused. *)
LEMMA BeginInv ==
  ASSUME SubmitInv, YRefused \/ \E op \in YOps, sess \in {YNone, "s"} : YBegin(op, sess)
  PROVE  SubmitInv'
  <1> USE DEF SubmitInv
  <1>1. CASE YRefused
    <2> USE <1>1 DEF YRefused
    <2>1. OneFlight' /\ UnmountAbortsAll'
      BY Zenon DEF OneFlight, UnmountAbortsAll
    <2>2. ShownInv'
      BY Zenon DEF ShownInv, Refusal
    <2>3. SuppressedShowsNothing'
      BY Zenon DEF SuppressedShowsNothing
    <2> QED
      BY Zenon, <2>1, <2>2, <2>3
  <1>2. ASSUME NEW op \in YOps, NEW sess \in {YNone, "s"}, YBegin(op, sess) PROVE SubmitInv'
    <2> DEFINE new == YFlight(op, sess)
    <2>1. yFlights = {} /\ yFlights' = {new} /\ yActive' = yRequests + 1 /\ yShown' = {}
      BY Zenon, <1>2 DEF YBegin, YMayBegin, beginRequest, clearStates, OneFlight
    <2>2. IsFlight(new) /\ new.id = yRequests + 1
      BY Zenon DEF YFlight, IsFlight
    <2>3. yMounted /\ yMounted' = yMounted /\ ySubmitting' = TRUE
      BY Zenon, <1>2 DEF YBegin, beginRequest
    <2> HIDE DEF new
    <2>4. OneFlight'
      BY Zenon, <2>1, <2>2, <2>3 DEF OneFlight
    <2>5. ShownInv' /\ UnmountAbortsAll' /\ SuppressedShowsNothing'
      BY Zenon, <2>1, <2>3 DEF ShownInv, UnmountAbortsAll, SuppressedShowsNothing
    <2> QED
      BY Zenon, <2>4, <2>5
  <1> QED
    BY Zenon, <1>1, <1>2

(* A deletion begins or fails, or the page unmounts: the request is aborted, and still in flight. *)
LEMMA InterruptInv ==
  ASSUME SubmitInv, YDeletionBegins \/ YDeletionFails \/ YUnmount
  PROVE  SubmitInv'
  <1> USE DEF SubmitInv
  <1>1. \A f \in yFlights : IsFlight(f)
    BY Zenon DEF OneFlight
  <1>2. ShownInv' /\ SuppressedShowsNothing'
    BY DEF YDeletionBegins, YDeletionFails, YUnmount, ShownInv, SuppressedShowsNothing
  <1>3. CASE YDeletionFails
    BY <1>2, <1>3 DEF YDeletionFails, OneFlight, UnmountAbortsAll
  <1>4. CASE YDeletionBegins
    <2>1. PICK ids : yFlights' = YAbort(ids)
      BY Zenon, <1>4 DEF YDeletionBegins
    <2>2. UNCHANGED <<yMounted, ySubmitting, yActive>>
      BY Zenon, <1>4 DEF YDeletionBegins
    <2>3. OneFlight'
      BY Zenon, <1>1, <2>1, <2>2, AbortKeepsFlight DEF OneFlight
    <2>4. UnmountAbortsAll'
      BY Zenon, <1>1, <2>1, <2>2, AbortKeepsFlight DEF UnmountAbortsAll
    <2> QED
      BY Zenon, <1>2, <2>3, <2>4
  <1>5. CASE YUnmount
    <2>1. yMounted /\ yMounted' = FALSE /\ yFlights' = YAbort({yActive}) /\ ySubmitting' = ySubmitting
      BY <1>5 DEF YUnmount
    <2>2. \A f \in yFlights : f.id = yActive
      BY <2>1 DEF OneFlight
    <2>3. OneFlight'
      BY Zenon, <1>1, <2>1, AbortKeepsFlight DEF OneFlight
    <2>4. UnmountAbortsAll'
      BY Zenon, <1>1, <2>1, <2>2, AbortKeepsFlight DEF UnmountAbortsAll
    <2> QED
      BY <1>2, <2>3, <2>4
  <1> QED
    BY <1>3, <1>4, <1>5

(* The request settles: its answer or its failure is shown, or suppressed. *)
LEMMA SettlesInv ==
  ASSUME SubmitInv, NEW f \in yFlights,
         \/ \E data \in {"result", "refine"} : YAnswered(f, data)
         \/ \E code \in YCodes \cup {"abort"} : YFailed(f, code)
  PROVE  SubmitInv'
  <1> USE DEF SubmitInv
  <1>1. /\ yFlights' = {} /\ ySubmitting' = FALSE /\ yMounted' = yMounted
        /\ yShown \subseteq {Refusal}
    BY DEF YAnswered, YFailed, YSettles, endRequest, OneFlight, ShownInv
  <1>2. OneFlight' /\ UnmountAbortsAll'
    BY Zenon, <1>1 DEF OneFlight, UnmountAbortsAll
  <1>3. ASSUME NEW data \in {"result", "refine"}, YAnswered(f, data)
        PROVE  ShownInv' /\ SuppressedShowsNothing'
    <2>1. \/ yShown' = {}
          \/ yOutcome' = "done" /\ yShown' \subseteq yShown \cup {<<data, data>>}
      BY Zenon, <1>3 DEF YAnswered, clearStates
    <2> QED
      BY Zenon, <1>1, <2>1 DEF ShownInv, SuppressedShowsNothing
  <1>4. ASSUME NEW code \in YCodes \cup {"abort"}, YFailed(f, code)
        PROVE  ShownInv' /\ SuppressedShowsNothing'
    <2>1. PICK s : handleError(code) = {s}
      BY Zenon, OneStatePerError
    <2>2. \/ yShown' = {}
          \/ yShown' = yShown /\ f.aborted
          \/ yOutcome' = "failed" /\ yShown' \subseteq yShown \cup {s}
      BY Zenon, <1>4, <2>1 DEF YFailed, clearStates, classifyFailure
    <2> QED
      BY Zenon, <1>1, <2>2 DEF ShownInv, SuppressedShowsNothing, Refusal
  <1> QED
    BY Zenon, <1>2, <1>3, <1>4

(* Every step keeps the inductive invariant. *)
LEMMA SubmitNextInv == SubmitInv /\ [SubmitNext]_yVars => SubmitInv'
  <1> SUFFICES ASSUME SubmitInv, [SubmitNext]_yVars PROVE SubmitInv'
    OBVIOUS
  <1>1. CASE SubmitNext
    BY Zenon, <1>1, BeginInv, InterruptInv, SettlesInv DEF SubmitNext
  <1>2. CASE UNCHANGED yVars
    BY <1>2 DEF yVars, SubmitInv, OneFlight, ShownInv, UnmountAbortsAll, SuppressedShowsNothing
  <1> QED
    BY <1>1, <1>2

(* The inductive invariant holds in every state. *)
LEMMA SubmitInvariance == SubmitSpec => []SubmitInv
  BY SubmitInitInv, SubmitNextInv, PTL DEF SubmitSpec

(* "One owned request scope per in-flight operation": no request outlives the page unaborted. *)
THEOREM RequestsAreAborted == SubmitSpec => []UnmountAbortsAll
  BY SubmitInvariance, PTL DEF SubmitInv

(* isAbortFailure: an operation that was aborted, or whose session was deleted, leaves nothing to be shown. *)
THEOREM SuppressedStaysHidden == SubmitSpec => []SuppressedShowsNothing
  BY SubmitInvariance, PTL DEF SubmitInv

(* clearStates: the states of one operation never mix with those of the last one. *)
THEOREM StatesDoNotMix == SubmitSpec => []OneStateIsShown
  <1>1. SubmitInv => OneStateIsShown
    <2> SUFFICES ASSUME SubmitInv PROVE OneStateIsShown
      OBVIOUS
    <2> DEFINE set == {s \in yShown : s[2] # "connectionRequired"}
    <2>1. PICK s : yShown \subseteq {s, Refusal}
      BY DEF SubmitInv, ShownInv
    <2>2. set \in SUBSET {s}
      BY <2>1 DEF Refusal
    <2> HIDE DEF set
    <2>3. Cardinality(set) <= Cardinality({s}) /\ Cardinality({s}) = 1
      BY Zenon, <2>2, FS_Subset, FS_Singleton
    <2> QED
      BY <2>3 DEF OneStateIsShown, set
  <1> QED
    BY <1>1, SubmitInvariance, PTL
=============================================================================
