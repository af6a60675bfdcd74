--------------------------- MODULE ResponseContract ---------------------------
(***************************************************************************)
(* The response contract of the client (api/responseValidation.ts): every  *)
(* fetch of the generated client is recognised by its method and path,     *)
(* validated against the schema its operation has for the status, reduced  *)
(* to the properties that schema declares, and checked for what a schema   *)
(* cannot say (counts, cursors, timestamps, thresholds).                   *)
(*                                                                         *)
(* A body is its keys, the value of the property that tells alternatives   *)
(* apart, and the keys whose value is malformed.  A schema is the          *)
(* properties it declares, the ones it requires, the values of the telling *)
(* property it accepts and the one the server sends, which serialises      *)
(* every property it declares; a status has a sequence of alternative      *)
(* schemas.  What is nested in a body is treated in the same way and is    *)
(* not repeated here.                                                      *)
(***************************************************************************)
EXTENDS Integers, FiniteSets, Sequences

CONSTANTS
    HManifest,   \* operations: [id, method, path, class, unions: status -> schemas]
    HIds,        \* values of a path's parameter: none is a literal in its place
    HStatuses,   \* statuses of answers
    HBodies,     \* bodies: [keys, tag, bad]
    HNone        \* nothing

ASSUME ContractAssumption ==
    \A body \in HBodies :
        /\ body = [keys |-> body.keys, tag |-> body.tag, bad |-> body.bad]
        /\ IsFiniteSet(body.keys)

VARIABLES
    hOp,       \* the operation that was called, or HNone
    hRequest,  \* its method and path, or HNone
    hAnswer,   \* [status, json, body], or HNone
    hOut       \* what the caller gets: HNone, or [kind, body]

hVars == <<hOp, hRequest, hAnswer, hOut>>

-----------------------------------------------------------------------------
(* Which operation a request is *)

(* A path is a sequence of segments; "{}" stands for a parameter *)
pathMatches(template, path) ==
    /\ Len(template) = Len(path)
    /\ \A i \in DOMAIN template : template[i] \in {"{}", path[i]}

HParameters(op) == Cardinality({i \in DOMAIN op.path : op.path[i] = "{}"})

HCandidates(request) ==
    {op \in HManifest : op.method = request.method /\ pathMatches(op.path, request.path)}

(* mutant of requestOperation: any operation that matches *)
AnyCandidate(request) == HCandidates(request)

(* The matching operation with the fewest parameters: a literal path wins  *)
requestOperation(request) ==
    {op \in HCandidates(request) :
        \A other \in HCandidates(request) : HParameters(op) <= HParameters(other)}

-----------------------------------------------------------------------------
(* Schemas *)

(* the generated validators *)
HAccepts(schema, body) == schema.required \subseteq body.keys /\ body.tag \in schema.tags

HMatching(schema, body) == Cardinality(schema.properties \cap body.keys)

(* mutant of matchingUnionSchema: the first alternative that accepts *)
FirstAccepting(schemas, body) ==
    {i \in DOMAIN schemas :
        /\ HAccepts(schemas[i], body)
        /\ \A j \in DOMAIN schemas : HAccepts(schemas[j], body) => i <= j}

(* Of the alternatives that accept the body, the first of those that       *)
(* declare most of its keys (a stable sort)                                *)
matchingUnionSchema(schemas, body) ==
    {i \in DOMAIN schemas :
        /\ HAccepts(schemas[i], body)
        /\ \A j \in DOMAIN schemas : HAccepts(schemas[j], body) =>
             \/ HMatching(schemas[j], body) < HMatching(schemas[i], body)
             \/ HMatching(schemas[j], body) = HMatching(schemas[i], body) /\ i <= j}

(* mutant of sanitizeObject: the body is handed on as it came *)
HandedOnWhole(schema, body) == body

(* mutant of sanitizeObject: only the keys are looked at *)
KeepsBad(schema, body) == [body EXCEPT !.keys = @ \cap schema.properties]

(* No schema of a response body lets other properties pass *)
sanitizeObject(schema, body) ==
    [body EXCEPT !.keys = @ \cap schema.properties, !.bad = @ \cap schema.properties]

-----------------------------------------------------------------------------
(* validateSemanticContract: the fields an operation's check reads (the    *)
(* cursor and the quota limits may be absent), whatever their check is     *)

validateSessionOperation(id) ==
    CASE id = "getSessions" -> {"total", "next_cursor", "created_at", "last_activity_at"}
      [] id = "getSession" ->
           {"attempts_total", "attempts_next_cursor", "created_at", "last_activity_at"}
      [] id \in {"createSession", "updateSessionConnection"} -> {"created_at", "last_activity_at"}
      [] OTHER -> {}

validateQueryOperation(id, body) ==
    CASE id = "listHistory" -> {"total", "next_cursor", "accepted_at"}
      [] id \in {"acceptQuery", "getHistoryEntry"} -> {"accepted_at"}
      [] id \in {"submitQuestion", "rejectQuery", "regenerateQuery"} /\ body.tag # "refine" ->
           {"attempt_number", "row_count", "rows"}
      [] OTHER -> {}

(* undefined < 0 is false, and an absent cursor is one that is not empty *)
HOptional == {"next_cursor", "attempts_next_cursor", "total", "attempts_total",
              "attempt_number", "retention_months", "purged_count"}

HReads(id, body) ==
    validateSessionOperation(id) \cup validateQueryOperation(id, body) \cup
    CASE id = "getQuotaStatus"     -> {"total", "next_cursor", "dimensions"}
      [] id = "searchAuditEntries" -> {"pagination"}
      [] id = "getAuditRetention"  -> {"retention_months", "purged_count"}
      [] id \in {"getDetectionConfig", "updateDetectionConfig"} ->
           {"block_confidence", "flag_confidence"}
      [] OTHER -> {}

(* An absent timestamp or threshold is malformed; absent rows are a        *)
(* TypeError, which is no ClientContractError                              *)
validateSemanticContract(id, status, body) ==
    IF status >= 400 THEN "sound"
    ELSE IF "rows" \in HReads(id, body) \ body.keys THEN "crash"
    ELSE IF /\ HReads(id, body) \cap body.bad = {}
            /\ HReads(id, body) \ HOptional \subseteq body.keys THEN "sound"
    ELSE "contract"

-----------------------------------------------------------------------------
(* A fetch *)

HCall(op, id) ==
    /\ hOp = HNone /\ hOp' = op
    /\ hRequest' = [method |-> op.method,
                    path |-> [i \in DOMAIN op.path |->
                                IF op.path[i] = "{}" THEN id ELSE op.path[i]]]
    /\ UNCHANGED <<hAnswer, hOut>>

(* Anything may answer: the server, or a proxy in its place *)
HRespond(status, json, body) ==
    /\ hOp # HNone /\ hAnswer = HNone
    /\ hAnswer' = [status |-> status, json |-> json, body |-> body]
    /\ UNCHANGED <<hOp, hRequest, hOut>>

(* mutant of HShouldValidate: an operation no page uses, too *)
UnusedToo(op, status) ==
    op.class \in {"consumed_json", "unused"} \/ (status >= 400 /\ op.class # "browser_redirect")

(* shouldValidateResponse *)
HShouldValidate(op, status) ==
    op.class = "consumed_json" \/ (status >= 400 /\ op.class # "browser_redirect")

HPass(body) == [kind |-> "body", body |-> body]
HFail(kind) == [kind |-> kind, body |-> HNone]

validateOperationResponse(op, answer) ==
    LET schemas == op.unions[answer.status]
    IN  IF \A i \in DOMAIN schemas : ~HAccepts(schemas[i], answer.body)
        THEN {HFail("contract")}
        ELSE {LET body == sanitizeObject(schemas[i], answer.body)
                  verdict == validateSemanticContract(op.id, answer.status, body)
              IN  IF verdict = "sound" THEN HPass(body) ELSE HFail(verdict) :
                 i \in matchingUnionSchema(schemas, answer.body)}

(* validateFetchResponse, once the operation is recognised *)
HValidated(op, answer) ==
    IF ~HShouldValidate(op, answer.status) THEN {HPass(answer.body)}
    ELSE IF answer.status \notin DOMAIN op.unions \/ ~answer.json THEN {HFail("contract")}
    ELSE validateOperationResponse(op, answer)

validatedApiFetch ==
    /\ hAnswer # HNone /\ hOut = HNone
    /\ \E op \in requestOperation(hRequest) : hOut' \in HValidated(op, hAnswer)
    /\ UNCHANGED <<hOp, hRequest, hAnswer>>

ContractInit == hOp = HNone /\ hRequest = HNone /\ hAnswer = HNone /\ hOut = HNone

ContractNext ==
    \/ \E op \in HManifest, id \in HIds : HCall(op, id)
    \/ \E status \in HStatuses, json \in BOOLEAN, body \in HBodies :
         HRespond(status, json, body)
    \/ validatedApiFetch

ContractSpec == ContractInit /\ [][ContractNext]_hVars

-----------------------------------------------------------------------------
(* What is handed on is a body or a kind of failure, and a body's          *)
(* malformed keys are keys of it (sanitizeObject)                          *)
ContractTypeOK ==
    /\ hOp \in HManifest \cup {HNone}
    /\ hAnswer # HNone => hAnswer.status \in HStatuses /\ hAnswer.body \in HBodies
    /\ hOut # HNone =>
         \/ hOut.kind \in {"contract", "crash"} /\ hOut.body = HNone
         \/ hOut.kind = "body" /\ hOut.body.bad \subseteq hOut.body.keys

(* A request is recognised as the operation that made it: the status page  *)
(* of the quotas is not taken for a role's quota, nor one method of a path *)
(* for another, nor a parameter for the literal of another path, as long   *)
(* as no parameter has the value of a literal in its own place; those are  *)
(* UUIDs (requestOperation)                                                *)
OperationIsRecognised == hRequest # HNone => requestOperation(hRequest) = {hOp}

(* No declared key is lost: when an alternative that accepts the body      *)
(* declares all of its keys, they are all handed on, although another      *)
(* alternative accepts the body as well.  The quota page's recovery rests  *)
(* on this: a pending synchronisation is also an ordinary error response,  *)
(* without mutation_applied (matchingUnionSchema)                          *)
DeclaredKeysSurvive ==
    hOut # HNone /\ hOut.kind = "body" =>
        \E op \in requestOperation(hRequest) :
            hAnswer.status \in DOMAIN op.unions =>
                \A i \in DOMAIN op.unions[hAnswer.status] :
                    LET schema == op.unions[hAnswer.status][i]
                    IN  HAccepts(schema, hAnswer.body)
                        /\ hAnswer.body.keys \subseteq schema.properties
                        => hOut.body.keys = hAnswer.body.keys

(* What an operation did not declare never reaches a page that reads its   *)
(* body (sanitizeResponse)                                                 *)
NothingUndeclared ==
    hOut # HNone /\ hOut.kind = "body" =>
        \E op \in requestOperation(hRequest) :
            HShouldValidate(op, hAnswer.status) =>
                \E i \in DOMAIN op.unions[hAnswer.status] :
                    hOut.body.keys \subseteq op.unions[hAnswer.status][i].properties

(* An answer the server makes is handed on: the checks that are written by *)
(* hand ask nothing that the operation's schema does not provide.  For     *)
(* createSession they would, were it not unused (validateSessionOperation) *)
HonestAnswersPass ==
    hOut # HNone /\ hAnswer.json /\ hAnswer.body.bad = {} /\ hAnswer.status \in DOMAIN hOp.unions =>
        \A i \in DOMAIN hOp.unions[hAnswer.status] :
            LET schema == hOp.unions[hAnswer.status][i]
            IN  hAnswer.body.keys = schema.properties /\ hAnswer.body.tag = schema.sends
                => hOut.kind = "body"

(* What reaches a page of a body that several alternatives may accept is what one of them declares,
   and nothing that is declared is lost (matchingUnionSchema, sanitizeObject). *)
ContractIsKept == DeclaredKeysSurvive /\ NothingUndeclared

(* The server's own answers to the client's own requests pass the contract: the request is recognised
   (requestOperation), and no check by hand asks for more than the schema provides. *)
HonestCallsPass == OperationIsRecognised /\ HonestAnswersPass
===============================================================================
