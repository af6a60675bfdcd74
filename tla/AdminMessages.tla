---------------------------- MODULE AdminMessages ----------------------------
(***************************************************************************)
(* What an administration page tells about a failed request: the key it    *)
(* takes from the error object (extractErrorKey of the pages,              *)
(* getSafeConnectionErrorKey of connectionErrorMessages.ts), the keys it   *)
(* knows, and the toasts that show the message for five seconds.           *)
(***************************************************************************)
EXTENDS Naturals, FiniteSets, Sequences

CONSTANTS
    EErrors,        \* errors the pages are handed: objects, see EObject
    EDotted,        \* the texts that start with "error."
    ENone,          \* an absent field
    EMaxToasts,     \* bound: toasts of a mounted page
    EMaxMounts      \* bound

(***************************************************************************)
(* A value is a text, [text |-> t], or an object with the five fields the  *)
(* code reads: message_key and error hold a text or ENone, detail, body    *)
(* and serverError a value or ENone.                                       *)
(***************************************************************************)
EIsText(v) == v # ENone /\ DOMAIN v = {"text"}
EIsObject(v) == v # ENone /\ DOMAIN v # {"text"}
EFilled(t) == t # ENone /\ t # ""

ASSUME MessagesAssumption == \A e \in EErrors : EIsObject(e)

VARIABLES
    ePage,          \* the page: see EPages
    eMounts,        \* bound: which mount of the page is shown, 0 for none yet
    eToasts,        \* toasts: the set of [id, key]
    eTimers,        \* armed timers: [id, mount]
    eNext,          \* ids used by this mount
    eLast           \* ghost: the error of the last failure, or ENone

eVars == <<ePage, eMounts, eToasts, eTimers, eNext, eLast>>

(* ALLOWED_ERROR_KEYS of the pages *)
QuotaKeys == {"error.forbidden", "error.unauthorized", "error.notFound", "error.service_unavailable",
              "error.validation.invalidUUID", "error.validation.generic"}
RoleKeys == {"error.validation.roleRequiredFields", "error.conflict.duplicateRoleName",
             "error.conflict.duplicateRolePriority", "error.conflict.duplicateGroupMapping",
             "error.forbidden", "error.unauthorized", "error.builtinRoleProtected",
             "error.filterValidationFailed"}
SsoKeys == {"error.validation.oidcRequiredFields", "error.validation.samlRequiredFields",
            "error.conflict.duplicateProtocol", "error.forbidden", "error.unauthorized"}
DetectionKeys == {"error.forbidden", "error.unauthorized", "error.notFound", "error.validation.invalidUUID"}

EUnknown == "error.unknown.message"

KNOWN_SAFE_KEYS ==
    {"error.connection_auth_failed", "error.connection_network_unreachable", "error.connection_timeout",
     "error.credential_config", "error.introspection_failed", "error.introspection_timeout",
     "error.connection_referenced_delete_blocked", "error.connection_already_active",
     "error.connection_already_disabled", "error.connection_not_found", "error.connection_disabled", EUnknown}

(* The category of a text without case and surrounding blanks *)
mapCategoryToKey(category) ==
    CASE category \in {"auth_failed", "connection_auth_failed"} -> "error.connection_auth_failed"
      [] category \in {"network_unreachable", "connection_network_unreachable"} -> "error.connection_network_unreachable"
      [] category \in {"timeout", "connection_timeout"} -> "error.connection_timeout"
      [] category = "credential_config" -> "error.credential_config"
      [] category = "introspection_failed" -> "error.introspection_failed"
      [] category = "introspection_timeout" -> "error.introspection_timeout"
      [] category \in {"referenced_delete_blocked", "connection_referenced_delete_blocked"} ->
            "error.connection_referenced_delete_blocked"
      [] category = "connection_already_active" -> "error.connection_already_active"
      [] category = "connection_already_disabled" -> "error.connection_already_disabled"
      [] category = "connection_not_found" -> "error.connection_not_found"
      [] category = "connection_disabled" -> "error.connection_disabled"
      [] OTHER -> EUnknown

(* mutant of getSafeMessageKey *)
AnyKeyIsSafe(key) == key

getSafeMessageKey(key) == IF key \in KNOWN_SAFE_KEYS THEN key ELSE EUnknown

(* message_key, else error, of an object; ENone when it has neither *)
EOwnKey(v) == IF v.message_key # ENone THEN getSafeMessageKey(v.message_key)
              ELSE IF v.error # ENone THEN mapCategoryToKey(v.error) ELSE ENone

(* A detail field, of the body or of the error itself *)
EDetailKey(v) == IF EIsText(v.detail) THEN mapCategoryToKey(v.detail.text)
                 ELSE IF EIsObject(v.detail) THEN EOwnKey(v.detail) ELSE ENone

EFirstOf(keys) == LET found == {i \in 1..Len(keys) : keys[i] # ENone}
                  IN  IF found = {} THEN ENone ELSE keys[CHOOSE i \in found : \A j \in found : i <= j]

(* An object's own key, then the body's own and its detail's, then the detail's *)
getSafeConnectionErrorKey(e) ==
    LET key == EFirstOf(<<EOwnKey(e)>>
                        \o (IF EIsObject(e.body) THEN <<EOwnKey(e.body), EDetailKey(e.body)>> ELSE <<>>)
                        \o <<EDetailKey(e)>>)
    IN  IF key = ENone THEN EUnknown ELSE key

RECURSIVE BodyBeforeDetail(_, _)
(* mutant of extractErrorKey *)
BodyBeforeDetail(e, server) ==
    CASE EFilled(e.message_key) -> e.message_key
      [] ~EFilled(e.message_key) /\ EFilled(e.error) -> e.error
      [] OTHER -> EFirstOf(<<IF EIsObject(e.body) THEN BodyBeforeDetail(e.body, server) ELSE ENone,
                             IF EIsObject(e.detail) THEN BodyBeforeDetail(e.detail, server) ELSE ENone>>)

(* extractErrorKey; the roles page also descends into serverError *)
RECURSIVE extractErrorKey(_, _)
extractErrorKey(e, server) ==
    CASE EFilled(e.message_key) -> e.message_key
      [] ~EFilled(e.message_key) /\ EFilled(e.error) -> e.error
      [] OTHER ->
            EFirstOf(<<IF EIsText(e.detail) /\ e.detail.text \in EDotted THEN e.detail.text
                       ELSE IF EIsObject(e.detail) THEN extractErrorKey(e.detail, server) ELSE ENone,
                       IF EIsObject(e.body) THEN extractErrorKey(e.body, server) ELSE ENone,
                       IF server /\ EIsObject(e.serverError) THEN extractErrorKey(e.serverError, server) ELSE ENone>>)

(* The pages: the keys each may show *)
EPages == {"quotas", "roles", "sso", "detection", "connections"}
EAllowed(page) == CASE page = "quotas" -> QuotaKeys [] page = "roles" -> RoleKeys [] page = "sso" -> SsoKeys
                    [] page = "detection" -> DetectionKeys [] OTHER -> KNOWN_SAFE_KEYS

(* getErrorMessage: a known key, else the fallback of the failed operation *)
getErrorMessage(e) ==
    IF ePage = "connections" THEN getSafeConnectionErrorKey(e)
    ELSE LET key == extractErrorKey(e, ePage = "roles")
         IN  IF key # ENone /\ key \in EAllowed(ePage) THEN key ELSE "fallback"

MessagesInit ==
    /\ ePage \in EPages /\ eMounts = 0
    /\ eToasts = {} /\ eTimers = {} /\ eNext = 0 /\ eLast = ENone

EMount ==
    /\ eMounts < EMaxMounts
    /\ eMounts' = eMounts + 1
    /\ eToasts' = {} /\ eNext' = 0 /\ eLast' = ENone
    /\ UNCHANGED <<ePage, eTimers>>        \* setTimeout is not cleared: its callback finds another instance

(* mutant of addToast *)
TimerWhenNone(e) ==
    /\ eMounts > 0 /\ eNext < EMaxToasts
    /\ eNext' = eNext + 1
    /\ eToasts' = eToasts \cup {[id |-> eNext + 1, key |-> getErrorMessage(e)]}
    /\ eTimers' = IF eTimers = {} THEN {[id |-> eNext + 1, mount |-> eMounts]} ELSE eTimers
    /\ eLast' = e
    /\ UNCHANGED <<ePage, eMounts>>

(* addToast of an error *)
addToast(e) ==
    /\ eMounts > 0 /\ eNext < EMaxToasts
    /\ eNext' = eNext + 1
    /\ eToasts' = eToasts \cup {[id |-> eNext + 1, key |-> getErrorMessage(e)]}
    /\ eTimers' = eTimers \cup {[id |-> eNext + 1, mount |-> eMounts]}
    /\ eLast' = e
    /\ UNCHANGED <<ePage, eMounts>>

(* mutant of EWithout *)
SameMessage(id) == {t \in eToasts : \A u \in eToasts : u.id = id => t.key # u.key}

(* toasts.filter((t) => t.id !== id) *)
EWithout(id) == {t \in eToasts : t.id # id}

EClose(id) ==
    /\ \E t \in eToasts : t.id = id
    /\ eToasts' = EWithout(id)
    /\ UNCHANGED <<ePage, eMounts, eTimers, eNext, eLast>>

(* Five seconds later; the state setter of an unmounted page does nothing *)
EExpire(timer) ==
    /\ timer \in eTimers
    /\ eTimers' = eTimers \ {timer}
    /\ eToasts' = IF timer.mount = eMounts THEN EWithout(timer.id) ELSE eToasts
    /\ UNCHANGED <<ePage, eMounts, eNext, eLast>>

MessagesNext ==
    \/ EMount
    \/ \E e \in EErrors : addToast(e)
    \/ \E id \in 1..EMaxToasts : EClose(id)
    \/ \E timer \in eTimers : EExpire(timer)

(* The browser fires every timer *)
MessagesFairness ==
    \A id \in 1..EMaxToasts, mount \in 1..EMaxMounts : WF_eVars(EExpire([id |-> id, mount |-> mount]))

MessagesSpec == MessagesInit /\ [][MessagesNext]_eVars /\ MessagesFairness

(***************************************************************************)
(* Properties                                                              *)
(***************************************************************************)

(* Types; and whatever shape a failure has, a page shows one of the keys   *)
(* it has a translation for, never a text of the answer.                   *)
MessagesTypeOK ==
    /\ eMounts \in 0..EMaxMounts /\ eNext \in 0..EMaxToasts
    /\ \A t \in eToasts : t.id \in 1..eNext /\ t.key \in EAllowed(ePage) \cup {"fallback", EUnknown}

(* The texts of an error in the order a reader meets them: the object's    *)
(* own, those of detail, of body, and of serverError where the page reads  *)
(* it.                                                                     *)
RECURSIVE EReading(_, _)
EReading(v, server) ==
    IF EIsText(v) THEN (IF v.text \in EDotted THEN <<v.text>> ELSE <<>>)
    ELSE IF v = ENone THEN <<>>
    ELSE SelectSeq(<<v.message_key, v.error>>, EFilled)
         \o EReading(v.detail, server)
         \o (IF EIsObject(v.body) THEN EReading(v.body, server) ELSE <<>>)
         \o (IF server /\ EIsObject(v.serverError) THEN EReading(v.serverError, server) ELSE <<>>)

(* extractErrorKey finds the first text in reading order, at any depth: no *)
(* outer branch that has none hides one further on.                        *)
FirstKeyInOrder ==
    (eLast # ENone /\ ePage # "connections") =>
        LET reading == EReading(eLast, ePage = "roles")
        IN  extractErrorKey(eLast, ePage = "roles") = IF reading = <<>> THEN ENone ELSE Head(reading)

(* A step takes at most one toast from the screen, save that a new mount   *)
(* of the page starts with none: messages that read the same are not       *)
(* dismissed together (the filters by id).                                 *)
OneToastAtATime ==
    [][eMounts' = eMounts => Cardinality(eToasts \ eToasts') <= 1]_eVars

(* No toast stays: each is taken away by its own timer at the latest, also *)
(* when ids repeat after the page was mounted again.                       *)
ToastsEnd ==
    \A id \in 1..EMaxToasts : (\E t \in eToasts : t.id = id) ~> ~(\E t \in eToasts : t.id = id)
=============================================================================
