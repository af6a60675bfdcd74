------------------------------- MODULE SignIn -------------------------------
(***************************************************************************)
(* The sign-in page: SignInForm and the SSO section of SignInPage.  The    *)
(* identity boundary unmounts the page while a sign-in is on its way and   *)
(* gives the next page a new feature client, so the form's own state and   *)
(* the list of providers are lost with every attempt; the sign-in mutation *)
(* belongs to the boundary and is what the next form starts from.          *)
(*                                                                         *)
(* The server is external: it accepts the credentials, refuses them, or    *)
(* does not answer.                                                        *)
(***************************************************************************)
EXTENDS Naturals

CONSTANTS
    GNames, GPasswords,  \* what is typed; GBlank and a name of spaces are among them
    GBlank, GSpaces,     \* an empty field; a name that trim() empties
    GNone,               \* no attempt yet; no code in the address
    GMaxAttempts         \* bound: sign-ins, and arrivals on the page

VARIABLES
    gAt,         \* "form", "spinner" (the boundary withholds the page) or "application"
    gName, gPassword, gError, gInvalid,  \* the form: fields, message, invalid field
    gMutation,   \* the boundary's sign-in mutation: status and variables
    gProviders,  \* the SSO section
    gCode,       \* ?error= of the address
    gAttempts,   \* bound
    gTouched     \* history: the form was submitted or edited since it was mounted

gVars == <<gAt, gName, gPassword, gError, gInvalid, gMutation, gProviders, gCode,
           gAttempts, gTouched>>
gForm == <<gName, gPassword, gError, gInvalid>>

GCodes == {GNone, "sso_no_role", "session_expired", "other"}

-----------------------------------------------------------------------------
(* What the page shows *)

(* getSanitizedErrorMessage: a code it does not know is told as a failed   *)
(* validation, and never printed                                           *)
getSanitizedErrorMessage(code) ==
    CASE code = GNone             -> GNone
      [] code = "sso_no_role"     -> "error.ssoNoRole"
      [] code = "session_expired" -> "error.unauthorized"
      [] OTHER                    -> "error.ssoValidationFailed"

GOffersRetry == gAt = "form" /\ gProviders = "failed"

(* username.trim() *)
GIsBlank(name) == name \in {GBlank, GSpaces}

-----------------------------------------------------------------------------
(* Mounting: useState of SignInForm, and the providers of the new client *)

(* mutant of GMessage: the message belongs to the form alone *)
GStartsEmpty == ""

GMessage == IF gMutation.status = "error" THEN "invalidCredentials" ELSE ""

GMount ==
    /\ gAt' = "form"
    /\ gName' = IF gMutation.vars = GNone THEN GBlank ELSE gMutation.vars.name
    /\ gPassword' = IF gMutation.vars = GNone THEN GBlank ELSE gMutation.vars.password
    /\ gError' = GMessage
    /\ gInvalid' = GNone
    /\ gProviders' = "loading"
    /\ gTouched' = FALSE

-----------------------------------------------------------------------------
(* The form *)

GChange(text) == gAt = "form" /\ text /\ gTouched' = TRUE
                 /\ UNCHANGED <<gAt, gMutation, gProviders, gCode, gAttempts>>

(* mutant of GClears: typing never takes the message away *)
GKeeps(field, filled) == UNCHANGED <<gError, gInvalid>>

(* A filled field is no longer the invalid one, and its message goes *)
GClears(field, filled) ==
    IF filled /\ gInvalid = field
    THEN gError' = "" /\ gInvalid' = GNone
    ELSE UNCHANGED <<gError, gInvalid>>

handleUsernameChange(name) ==
    GChange(/\ gName' = name
            /\ GClears("username", ~GIsBlank(name))
            /\ UNCHANGED gPassword)

handlePasswordChange(password) ==
    GChange(/\ gPassword' = password
            /\ GClears("password", password # GBlank)
            /\ UNCHANGED gName)

GRefuse(field, message) ==
    /\ gError' = message /\ gInvalid' = field
    /\ UNCHANGED <<gAt, gName, gPassword, gMutation, gAttempts>>

(* handleSubmit up to mutateAsync; onMutate makes the boundary withhold    *)
(* the page                                                                *)
GHandleSubmit ==
    /\ gAt = "form" /\ gMutation.status # "pending"
    /\ IF GIsBlank(gName) THEN GRefuse("username", "usernameEmpty")
       ELSE IF gPassword = GBlank THEN GRefuse("password", "passwordEmpty")
       ELSE /\ gAttempts < GMaxAttempts /\ gAttempts' = gAttempts + 1
            /\ gMutation' = [status |-> "pending",
                             vars |-> [name |-> gName, password |-> gPassword]]
            /\ gAt' = "spinner" /\ gError' = "" /\ gInvalid' = GNone
            /\ UNCHANGED <<gName, gPassword>>
    /\ gTouched' = TRUE
    /\ UNCHANGED <<gProviders, gCode>>

(* The answer: the old form is gone, so neither branch of handleSubmit     *)
(* tells it anything; the page is mounted anew, or the user is let in.     *)
(* Whatever made the sign-in fail, the mutation's error is all that stays  *)
GRejected ==
    /\ gAt = "spinner" /\ gMutation.status = "pending"
    /\ gMutation' = [gMutation EXCEPT !.status = "error"]
    /\ gAt' = "returning"
    /\ UNCHANGED <<gForm, gProviders, gCode, gAttempts, gTouched>>

GAccepted ==
    /\ gAt = "spinner" /\ gMutation.status = "pending"
    /\ gMutation' = [gMutation EXCEPT !.status = "success"]
    /\ gAt' = "application"
    /\ UNCHANGED <<gForm, gProviders, gCode, gAttempts, gTouched>>

GReturns ==
    /\ gAt = "returning" /\ GMount
    /\ UNCHANGED <<gMutation, gCode, gAttempts>>

(* The page is reached again: signed out, expired, sent back by a          *)
(* provider, or by a link while nobody is signed in                        *)
GArrive(code) ==
    /\ gAt \in {"form", "application"} /\ gAttempts < GMaxAttempts
    /\ gAt' = "returning" /\ gCode' = code
    /\ gAttempts' = gAttempts + 1
    /\ UNCHANGED <<gForm, gMutation, gProviders, gTouched>>

-----------------------------------------------------------------------------
(* The SSO section *)

(* useSsoProviders: retry false *)
GProvidersSettle ==
    /\ gAt = "form" /\ gProviders = "loading"
    /\ gProviders' \in {"failed", "none", "some"}
    /\ UNCHANGED <<gAt, gForm, gMutation, gCode, gAttempts, gTouched>>

GProvidersRetry ==
    /\ GOffersRetry /\ gProviders' = "loading"
    /\ UNCHANGED <<gAt, gForm, gMutation, gCode, gAttempts, gTouched>>

(* A provider's button leaves the application, which starts afresh when    *)
(* the provider sends the browser back                                     *)
GProviderLogin ==
    /\ gAt = "form" /\ gProviders = "some" /\ gAttempts < GMaxAttempts
    /\ gAttempts' = gAttempts + 1
    /\ gMutation' = [status |-> "idle", vars |-> GNone]
    /\ gAt' \in {"returning", "application"}
    /\ gCode' \in {"sso_no_role", "other", GNone}
    /\ UNCHANGED <<gForm, gProviders, gTouched>>

SignInInit ==
    /\ gAt = "returning" /\ gName = GBlank /\ gPassword = GBlank
    /\ gError = "" /\ gInvalid = GNone
    /\ gMutation = [status |-> "idle", vars |-> GNone]
    /\ gProviders = "loading" /\ gCode \in GCodes
    /\ gAttempts = 0 /\ gTouched = FALSE

SignInNext ==
    \/ \E name \in GNames : handleUsernameChange(name)
    \/ \E password \in GPasswords : handlePasswordChange(password)
    \/ GHandleSubmit \/ GRejected \/ GAccepted \/ GReturns
    \/ \E code \in GCodes : GArrive(code)
    \/ GProvidersSettle \/ GProvidersRetry \/ GProviderLogin

SignInSpec == SignInInit /\ [][SignInNext]_gVars

-----------------------------------------------------------------------------
(* The message under a field is about the field that is marked, and is     *)
(* gone once that field is filled (handleUsernameChange, GClears)          *)
SignInTypeOK ==
    /\ gAt \in {"form", "spinner", "returning", "application"}
    /\ gName \in GNames /\ gPassword \in GPasswords
    /\ gMutation.status \in {"idle", "pending", "error", "success"}
    /\ gProviders \in {"loading", "failed", "none", "some"}
    /\ gCode \in GCodes /\ gAttempts \in 0..GMaxAttempts /\ gTouched \in BOOLEAN
    /\ gInvalid = "username" => gError = "usernameEmpty" /\ GIsBlank(gName)
    /\ gInvalid = "password" => gError = "passwordEmpty" /\ gPassword = GBlank
    /\ gInvalid = GNone => gError \in {"", "invalidCredentials"}

(* A rejected attempt is told by the form that replaces the one it was     *)
(* made with, and can be repeated from there: the message is shown and     *)
(* the credentials are the rejected ones until the user touches the form   *)
(* (SignInForm derives its state from the mutation's)                      *)
RejectionIsVisible ==
    gAt = "form" /\ ~gTouched /\ gMutation.status = "error" =>
        /\ gError = "invalidCredentials"
        /\ gName = gMutation.vars.name /\ gPassword = gMutation.vars.password
=============================================================================
