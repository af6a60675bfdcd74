----------------------------- MODULE MCProgress -----------------------------
(***************************************************************************)
(* What must eventually happen in the console and in the workspace.  The   *)
(* fairness is that of the modules of the components, asked of the one     *)
(* component that a behaviour is about: the steps of the others, enabled   *)
(* or not, are not taken.  Components without such a promise are left out. *)
(***************************************************************************)
EXTENDS MCAdmin, MCWorkspace

ProgressVars == <<adminVars, workspaceVars>>

ProgressInit ==
    /\ \/ /\ adminPage \in {"quotas", "audit", "forms", "connections", "roles", "preview",
                          "messages"}
          /\ workspacePage = "none"
       \/ /\ workspacePage \in {"identity", "deletion", "conversation", "routes", "selection",
                              "history", "highlight", "scope"}
          /\ adminPage = "none"
    /\ AdminPagesInit /\ WorkspacePagesInit

ProgressNext ==
    \/ AdminNext /\ UNCHANGED workspaceVars
    \/ WorkspaceNext /\ UNCHANGED adminVars

AdminFairness ==
    /\ WF_qVars(adminPage = "quotas" /\ QListSettles)
    /\ WF_qVars(adminPage = "quotas" /\ \E req \in qReqs : QAnswer(req))
    /\ WF_aVars(adminPage = "audit" /\ \E c \in aCtxReqs : AContextStep(c))
    /\ WF_aVars(adminPage = "audit" /\ \E e \in aExports : AExportStep(e))
    /\ WF_aVars(adminPage = "audit" /\ ASearchSettles)
    /\ WF_fVars(adminPage = "forms" /\ FQuerySettles)
    /\ WF_fVars(adminPage = "forms" /\ \E q \in fReqs : FMutationEnds(q))
    /\ WF_cVars(adminPage = "connections" /\ CListSettles)
    /\ WF_cVars(adminPage = "connections" /\ \E q \in cReqs : CSucceeds(q) \/ CFails(q))
    /\ WF_rVars(adminPage = "roles" /\ RSaveProceeds)
    /\ WF_rVars(adminPage = "roles" /\ RListSettles)
    /\ WF_vVars(adminPage = "preview" /\ VEnds)
    /\ \A id \in 1..EMaxToasts, mount \in 1..EMaxMounts :
          WF_eVars(adminPage = "messages" /\ EExpire([id |-> id, mount |-> mount]))

WorkspaceFairness ==
    /\ WF_iVars(workspacePage = "identity" /\ IGetMeEnds)
    /\ WF_iVars(workspacePage = "identity" /\ IServerSigns)
    /\ WF_iVars(workspacePage = "identity" /\ (IAuthSucceeds \/ IAuthFails))
    /\ WF_dVars(workspacePage = "deletion" /\ DDeleteEnds)
    /\ WF_wVars(workspacePage = "conversation" /\ WRequestEnds)
    /\ WF_wVars(workspacePage = "conversation" /\ \E t \in WTurns : WReread(t))
    /\ WF_wVars(workspacePage = "conversation" /\ \E d \in wDeletes : WDeleteEnds(d))
    /\ WF_nVars(workspacePage = "routes" /\ NAskRedirect)
    /\ WF_nVars(workspacePage = "routes" /\ NRedirect)
    /\ WF_nVars(workspacePage = "routes" /\ (NVerified \/ NNotVerified))
    /\ WF_kVars(workspacePage = "selection" /\ KEffects)
    /\ WF_kVars(workspacePage = "selection" /\ kList = KNone /\ KListArrives)
    /\ WF_kVars(workspacePage = "selection" /\ KAnswered)
    /\ WF_xVars(workspacePage = "scope" /\ XDeadline)
    /\ WF_xVars(workspacePage = "scope" /\ XAborted /\ XAnswered)
    /\ WF_xVars(workspacePage = "scope" /\ XRetry)
    /\ WF_xVars(workspacePage = "scope" /\ XGiveUp)
    /\ WF_xVars(workspacePage = "scope" /\ validateFetchResponse)
    /\ WF_xVars(workspacePage = "scope" /\ XRead)
    /\ WF_xVars(workspacePage = "scope" /\ XSettle)
    /\ WF_zVars(workspacePage = "history" /\ ZDebounce)
    /\ WF_zVars(workspacePage = "history" /\ ZResetFires)
    /\ WF_zVars(workspacePage = "history" /\ \E t \in DOMAIN ZFound : ZListSettles(t))
    /\ WF_zVars(workspacePage = "history" /\ \E succeeded \in BOOLEAN : ZCopySettles(succeeded))
    /\ WF_uVars(workspacePage = "highlight" /\
                \E to \in {"ok", "failed"} : UModuleSettles(to) \/ UReadySettles(to))

ProgressSpec ==
    ProgressInit /\ [][ProgressNext]_ProgressVars /\ AdminFairness /\ WorkspaceFairness

-----------------------------------------------------------------------------
(* Three of the properties are about the first steps of a component, and   *)
(* are asked of the behaviours in which it takes steps                     *)

(* QueryProvider does not show its spinner for ever (SpinnerEnds)          *)
SpinnerEndsWhenUsed == workspacePage = "identity" => SpinnerEnds

(* The guards of the routes come to rest (RedirectsEnd)                    *)
RedirectsEndWhenUsed == workspacePage = "routes" => RedirectsEnd

(* The database of a prefilled question is taken over (PrefillIsConsumed)  *)
PrefillIsConsumedWhenUsed == workspacePage = "selection" => PrefillIsConsumed

(* Nothing is awaited for ever: every request, spinner, toast, redirect,   *)
(* refetch, deletion, turn, search and expanded block of the frontend      *)
(* comes to rest, although the server may fail, answer late or, for a read *)
(* under a deadline, never answer.                                         *)
EverythingSettles ==
    /\ MutationEnds /\ AuditRequestsEnd /\ FormCatchesUp /\ ConnectionsCatchUp
    /\ RoleSaveEnds /\ PreviewEnds /\ ToastsEnd
    /\ SpinnerEndsWhenUsed /\ RedirectsEndWhenUsed /\ PrefillIsConsumedWhenUsed
    /\ DeletionEnds /\ TurnsSettle /\ ReadsEnd /\ SearchCatchesUp /\ SqlIsShown
=============================================================================
