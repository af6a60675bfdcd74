------------------------------ MODULE RolePreview ------------------------------
(***************************************************************************)
(* RolePolicyPreview: a dry run of the policy that is open in the policy   *)
(* editor.  The draft changes while the server judges it, and the verdict  *)
(* stays on screen while the draft changes again.                          *)
(*                                                                         *)
(* A request is the question, which may be blank, with the sample SQL, and *)
(* the policy.  What the server thinks of a request does not change while  *)
(* the policy is open.                                                     *)
(***************************************************************************)
EXTENDS Naturals

CONSTANTS
    VQuestions,       \* questions with a sample statement
    VPolicies,        \* policies the editor may hold
    VAllowed,         \* requests the server would allow
    VBlank,           \* the blank question
    VNone,            \* null
    VMaxSends         \* bound: previews asked for

VARIABLES
    vQuestion, vPolicy,    \* the fields; the policy of the editor (a prop)
    vRecord,               \* what the last answer said, and of which request
    vFlight,               \* the request that is on its way, or VNone
    vOld,                  \* whether a request of an unmounted preview is on its way
    vSends                 \* bound

vVars == <<vQuestion, vPolicy, vRecord, vFlight, vOld, vSends>>

VRequest == [question : VQuestions, policy : VPolicies]

(* draftRequest, requestFingerprint *)
draftRequest == [question |-> vQuestion, policy |-> vPolicy]

(* failureState of the kinds of failures the server and the network have *)
failureState(failure) ==
    CASE failure \in {"unauthorized", "forbidden"} -> "permission-denied"
      [] failure = "filterValidationFailed" -> "invalid"
      [] OTHER -> "retry"

VFailures == {"unauthorized", "forbidden", "filterValidationFailed", "network", "internal"}

(* mutant of previewState *)
NeverStale == IF vFlight # VNone THEN "loading"
              ELSE IF vRecord = VNone THEN "empty" ELSE vRecord.state

(* What the component shows *)
previewState ==
    IF vFlight # VNone THEN "loading"
    ELSE IF vRecord = VNone THEN "empty"
    ELSE IF vRecord.request # draftRequest THEN "stale"
    ELSE vRecord.state

(* mutant of VOffersTest *)
TestWithoutQuestion == vFlight = VNone
VOffersTest == vQuestion # VBlank /\ vFlight = VNone

-----------------------------------------------------------------------------
VAsk(question) ==
    /\ vQuestion' = question
    /\ UNCHANGED <<vPolicy, vRecord, vFlight, vOld, vSends>>

(* The editor changes the policy; without any table, or with the editor    *)
(* closed, the preview unmounts and a new one starts empty                 *)
VPolicyChanges(policy) ==
    /\ vPolicy' = policy
    /\ UNCHANGED <<vQuestion, vRecord, vFlight, vOld, vSends>>

VRemount ==
    /\ vOld' = (vOld \/ vFlight # VNone)
    /\ vFlight' = VNone /\ vRecord' = VNone /\ vQuestion' = VBlank
    /\ UNCHANGED <<vPolicy, vSends>>

(* runPreview *)
runPreview ==
    /\ VOffersTest
    /\ vSends < VMaxSends /\ vSends' = vSends + 1
    /\ vFlight' = draftRequest
    /\ UNCHANGED <<vQuestion, vPolicy, vRecord, vOld>>

(* mutant of finishRequest *)
FailureForgetsFlight == vFlight' = vFlight

(* finishRequest *)
finishRequest == vFlight' = VNone

VAnswered ==
    /\ vFlight # VNone
    /\ vRecord' = [request |-> vFlight,
                   state |-> IF vFlight \in VAllowed THEN "allowed" ELSE "blocked"]
    /\ finishRequest
    /\ UNCHANGED <<vQuestion, vPolicy, vOld, vSends>>

VFailed(failure) ==
    /\ vFlight # VNone
    /\ vRecord' = [request |-> vFlight, state |-> failureState(failure)]
    /\ finishRequest
    /\ UNCHANGED <<vQuestion, vPolicy, vOld, vSends>>

(* The callbacks of mutate are dropped when the preview is unmounted *)
VOldAnswered ==
    /\ vOld /\ vOld' = FALSE
    /\ UNCHANGED <<vQuestion, vPolicy, vRecord, vFlight, vSends>>

-----------------------------------------------------------------------------
PreviewInit ==
    /\ vQuestion = VBlank /\ vPolicy \in VPolicies
    /\ vRecord = VNone /\ vFlight = VNone /\ vOld = FALSE /\ vSends = 0

VEnds == VAnswered \/ \E f \in VFailures : VFailed(f)

PreviewNext ==
    \/ \E q \in VQuestions \cup {VBlank} : VAsk(q)
    \/ \E p \in VPolicies : VPolicyChanges(p)
    \/ VRemount \/ runPreview \/ VEnds \/ VOldAnswered

(* Every request is answered, or the browser gives it up *)
PreviewFairness == WF_vVars(VEnds)

PreviewSpec == PreviewInit /\ [][PreviewNext]_vVars /\ PreviewFairness

-----------------------------------------------------------------------------
(* Properties *)

(* Types; an answer that is recorded or awaited was asked with a question. *)
PreviewTypeOK ==
    /\ vQuestion \in VQuestions \cup {VBlank} /\ vPolicy \in VPolicies
    /\ vFlight \in VRequest \cup {VNone}
    /\ vRecord # VNone => vRecord.request \in VRequest
    /\ previewState \in {"empty", "loading", "stale", "allowed", "blocked",
                         "permission-denied", "invalid", "retry"}

(* A verdict on screen is the server's verdict on the policy and question  *)
(* on screen, although either may have changed while the request was on    *)
(* its way or after the answer: otherwise the preview says "stale".        *)
VerdictIsOfTheDraft ==
    /\ previewState = "allowed" => draftRequest \in VAllowed
    /\ previewState = "blocked" => draftRequest \notin VAllowed

(* A preview that was asked for leaves the loading state: the test button  *)
(* does not stay disabled.                                                 *)
PreviewEnds == previewState = "loading" ~> previewState # "loading"
=============================================================================
