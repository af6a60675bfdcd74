# QueryCraft in TLA+

QueryCraft turns questions into SQL. A FastAPI backend (several worker
processes) keeps ephemeral state in Redis and durable state in a PostgreSQL
platform database; it asks an LLM for SQL, evaluates it, applies the policy of
the user's role, runs it on a source database and saves the answer. A React
frontend drives it. This directory holds specifications of the parts in which
order, failure and concurrency decide whether the system is right, TLC
configurations that check them, and TLAPS proofs.

    tlc -workers 2 -config cancel.cfg MCQueryLifecycle
    tlc -workers 2 -config auth.cfg MCAuthSessions
    tlc -workers 2 -config workspace.cfg MCWorkspace
    tlapm AuthSessionsProofs.tla

`PROJECT.json` lists the components, the runs, the source lines behind every
definition, the hazards of the code and which property watches each of them.

## 1. Inventory

| Part | State | Operations | What is hard about it |
|---|---|---|---|
| Processing lock (`core/processing_lock.py`) | Redis key with TTL, dictionary per worker | acquire, owned release | expiry, lost replies, crashes, a deletion that revokes the key |
| Query lifecycle (`services/query_service.py`, `core/attempt_store.py`, `core/query_deadline.py`) | attempts, active attempt, saved rows, request transaction | submit, reject, regenerate, accept | deadline at any await, cancellation, audit lock, commit at the very end |
| Session deletion (`core/session_cancellation.py`, `api/v1/sessions.py`) | cancellation marker, registered operation, tracking set | mark, cancel, clean, delete, undo | runs against queries of other workers |
| Audit chain (`services/audit_service.py`) | hash-linked log, purge markers | log, purge, verify | serialisation, purge while others append |
| Quotas (`services/quota_service.py`, `api/v1/admin_quotas.py`) | Redis counters, cached limits, revision, transition marker, database row | check-and-increment, upsert, delete | cache against database across workers |
| Auth sessions (`services/auth_service.py`, `repositories/session_repository.py`, `core/security.py`) | session keys and a per-user index in Redis | sign in (at most five), refresh, sign out, corrupt-record removal | eviction, expiry, index against keys |
| Connections (`services/connection_service.py`) | connection rows, health, introspected schema | create, update, test, disable, enable, delete | long external calls between read and write |
| Roles and policies (`api/v1/admin_roles.py`, `services/role_service.py`, `services/role_policy_provider.py`, `services/policy_enforcement.py`, `evaluator/`) | roles, permissions, table policies, filters, masks | CRUD, authorisation, SQL rewriting | pure decisions that must fail closed |
| SSO (`services/sso_service.py`, `api/v1/admin_sso.py`, `api/v1/sso_auth.py`) | identity-provider configuration, login state | start, callback, mapping of groups to roles | one-time state, key rotation |
| Hostile-input detection (`services/detection/`) | thresholds | detect | pure scoring |
| History, audit search and export | read models | list, filter, export | pagination cursors |
| Identity in the browser (`providers/QueryProvider.tsx`, `auth/sessionExpiry.ts`, the sign-in page) | who this tab believes is signed in, cached data | verify on every navigation, sign in, sign out, expire | answers of an earlier session, other tabs, lost answers to a sign-in |
| Workspace (`pages/WorkspacePage.tsx`, `hooks/useQuerySubmit.ts`, `useConnectionSelection.ts`, the sidebar) | turns, requests, chosen database, toasts | ask, refine, regenerate, accept, hide, choose, delete with undo | answers that arrive after their owner has gone |
| Admin console (`pages/Admin*.tsx` and their hooks) | drafts, lists, mutations | edit, save, delete, search, export, preview | lost answers, refetches under an open form, a change that is stored but not synchronised |
| Requests (`api/requestScope.ts`, `api/responseValidation.ts`) | timers, listeners, manifest | fetch with deadline, validate, sanitise | timer, cancellation and answer race |

What makes the system correct, in one paragraph: one query at a time per
browser session and one writer at a time per chat session; every handler cleans
up after itself on every path; a deleted chat session leaves nothing behind and
is not brought back; the audit chain is linear and verifies; a quota change
fails closed; a session that was signed out or evicted is dead everywhere; a
page shows data of the user who is signed in and nothing else; what the page
says of a change is what happened to it; what the user typed or chose stays; and
nothing is awaited for ever.

## 2. Modules

| Module | Models | Composition |
|---|---|---|
| `ProcessingLock` | `core/processing_lock.py` with expiry, revocation and crashes | abstract specification of the lock |
| `QueryPipeline`, `QueryLifecycle`, `QueryLock` | submit, reject, regenerate, accept, delete over Redis and the platform database: the steps of the handlers; faults, specification and properties; the lock protocol inside them | `QueryLock` shows that they implement `ProcessingLock` (`ImplementsProcessingLock`) |
| `AuditChain` | appending to, purging and verifying the audit log | its advisory lock is the one `QueryLifecycle` waits for |
| `QuotaConfig` | the quota row, its copy in Redis, the transition protocol of the admin endpoints, check-and-increment | one outcome of `QueryLifecycle`'s quota step |
| `AuthSessions` | Lua scripts over session keys and indexes, login, middleware, profile, sign-out, guards | supplies the HTTP sessions of `QueryLifecycle` |
| `IdentityBoundary`, `SignIn`, `Routes` | who is signed in, the sign-in page, guards and redirects | the boundary unmounts and remounts every page below |
| `SessionDeletion`, `Conversation`, `QuerySubmit`, `ConnectionSelection`, `DatabaseSelector` | the workspace and its sidebar | the frontend of `QueryLifecycle` |
| `PagedLists`, `History`, `SqlHighlight` | lists read by cursor, history page, code blocks | |
| `RequestScope`, `ResponseContract` | one fetch: its deadline and cancellation, its validation | every request of a page goes through both |
| `AdminQuotas`, `AdminAudit`, `AdminForms`, `AdminSso`, `AdminConnections`, `AdminRoles`, `PolicyEditor`, `RolePreview`, `AdminMessages` | the pages of the admin console | `AdminQuotas` is the client of `QuotaConfig` |
| `Locale` | language of a tab | |
| `ProcessingLockProofs`, `AuditChainProofs`, `QuotaConfigProofs`, `AuthSessionsProofs` | theorems, each about the module it extends | |
| `QueryControlProofs`, `QueryLifecycleProofs`, `QueryLockProofs` | theorems about the query handlers: where a request can be and what it then knows; the attempts; the keys and the lock | each extends the one before it |
| `WorkspaceProofs` | theorems about `RequestScope`, `ResponseContract`, `SessionDeletion`, `QuerySubmit` | |
| `MCProcessingLock`, `MCQueryLifecycle`, `MCAuditChain`, `MCQuotaConfig`, `MCAuthSessions` | instances for TLC | |
| `MCAdmin`, `MCWorkspace`, `MCProgress` | instances of the frontend, several components per run | a behaviour is one of a single component, chosen by the initial state |

Definitions marked "mutant of" are altered forms of the definition they name. No
specification uses them. Each of them breaks a property, so none of those holds
by the shape of the model alone; every conjunct of a property that has several
has one, and `PROJECT.json` lists one per property.

### ProcessingLock

`lock` is the Redis key `processing_lock:<h>`, `inflight` the module-level
dictionary `_inflight_owners` of each worker, `phase` the position of a request
between `acquire_lock` and `release_lock_if_owned`. An owner token is a fresh
uuid, so a request stands for its token. Actions follow the functions of the
file; the environment may expire a key, kill a worker, lose the reply to
`SET NX`, or run the cleanup script of a session deletion (`RevokeLock`).

### QueryPipeline, QueryLifecycle, QueryLock

Requests have a kind (`submit`, `regenerate`, `reject`, `accept`, `delete`), an
HTTP session, a worker and, where it applies, a chat session. `pc[r]` names the
next await of the handler; `due[r]` lists what it awaits before that:
`"ensure"` for `ensure_session_active`, `"log"` for an audit entry in a
transaction of its own. Several `ensure` calls in a row are one. `frame[r]`
holds the handler's local variables (`attempt.state`, `tracked_attempt`,
`timeout_attempt`, ...), `txn[r]` its open transaction: the rows it locks, the
row it is going to write, and whether it holds the advisory lock of the audit
chain. PostgreSQL runs at READ COMMITTED: readers see committed rows, writers
wait for row locks.

The text of questions, SQL and results is left out; what the LLM, the
evaluator, the quota, the policy and the source database decide is a
nondeterministic choice among the outcomes the handler distinguishes. The
implicit positive feedback that a follow-up question gives to the previous
answer only writes a field no property reads and is left out. `Faults` selects
what the environment may do: let TTLs pass, kill a worker, fail the final
commit, fail the Redis call in the finally clause. `ReplyBeforeCommit` says
whether the response is sent before the exit code of `get_db` runs (FastAPI from
0.118 on) or after it; `pyproject.toml` allows both.

TTLs are not clocks: a key may expire as soon as the code allows it to be the
case. The lock's TTL is the query timeout plus five seconds, so it can only pass
once its owner is past its deadline or dead; operations and attempts live 15
minutes, longer than any request; the accept lock (five seconds) may expire at
any time.

### AuditChain

`rows` is the committed table, a function from sequence numbers to entries; an
entry keeps its time, its own hash (as the structure it hashes) and the hash of
its predecessor. A process is a writer, an auditor (`verify_chain`) or a purger.
A purge is three steps, as in the code: it reads the expired entries, reads the
first survivor, and only then takes the advisory lock by logging its marker and
deletes. Its transaction commits or rolls back. One clock serves all hosts.

### QuotaConfig

One role, one user, one dimension. `db` is the row, `revision`, `marker` and
`cache` are the three Redis keys. An admin request walks through
`BeginScript`, the row lock of the role, the commit, and publication, with the
reconciliation loop and its three retries; every Redis call, every commit and
the worker itself may fail when `Faulty` holds. A check reads revision and
cache, then the row, then fills the cache and counts. `window` and `straddled`
are history variables: the values of the row since a check began, and whether a
check has found no marker and then read the revision of a transition that began
in between.

### AuthSessions

`session`, `owner`, `index`, `score` and `sequence` are the five kinds of keys;
each Lua script is one step (`CreateIndexed`, `DeleteIndexed`,
`DeleteCorruptIndexed`, `RefreshIndexed`). A record is a user, the permissions
stored with it, a generation that distinguishes its versions, and whether its
permission list is still a JSON array: `cjson` writes an empty list back as an
object. Scores come from the clocks of several workers (`Times`), which may
disagree. Record, owner key, index and sequence key get the same TTL whenever a
record is written, so the model lets record and owner expire together, and an
index only when none of its members has a record. Requests are served one await
at a time: `req[r].pc` names the next call. `calm` and `drawn` are history
variables: the requests nothing has interfered with, and the order in which
sessions were created.

### The frontend

Some conventions are common to the frontend modules. The variables of a module
begin with its own letter, so that the modules can be put into one run. A step is
what runs without the event loop in between: an event handler, a settled promise
with its callbacks, a timer; renders and layout effects that follow belong to it,
passive effects are steps of their own where something can come first. A request
may succeed, be refused, or be applied by the server while its answer is lost.
Callbacks of a mutation run after their page has gone; states of a later mount
are out of their reach, refs, caches and storage are not. The server is external
and as small as the page can tell.

* `IdentityBoundary`: `iB` is the state of `IdentityQueryBoundary`; each handler
  maps it to the next one. Cookies are shared with other tabs (`iCookie`), which
  sign in and out behind this tab's back (`iBehind`). `iB.data` says of whom the
  cached data is. A refetch of the current user replaces one that is running,
  except the first of the page, which has no data yet and is joined; `covers` and
  `fresh` keep the three cases apart.
* `SignIn`: fields, codes and provider list of the sign-in page, which the
  boundary unmounts during every attempt. `Routes`: location, guards, lazy pages
  that fail to load, landing page, and the question a bookmark carries.
* `SessionDeletion`: toasts with their timers, DELETEs on their way, the registry
  of unavailable sessions with its versions, list and detail caches, and a
  question that creates its session meanwhile.
* `Conversation`: turns of the page and saved attempts of the session, which may
  be the same answer; hide with undo, regenerate, refine, retry, remounts.
  `QuerySubmit`: `yFlights` are requests whose fetch has not settled, `yActive`
  the one the hook owns, `yShown` the states it leaves for the page.
* `ConnectionSelection`: session detail, connection list, bookmark and clicks
  decide about one selection, each at its own time, with PATCHes to the session.
  `DatabaseSelector`: active option and DOM focus under lists that change.
* `PagedLists`: `bKey` orders the entries of the server; pages, cursors,
  refetches from the first page, and "load more". `History`: debounced search,
  selection, copy status, pages of the result table. `SqlHighlight`: two promises
  shared by all blocks.
* `RequestScope`: phases of `withRequestDeadline` and of the generated client,
  timer, listener, the reason of the first abort, one retry. `ResponseContract`:
  manifest, unions of schemas, sanitising and the checks by hand.
* `AdminQuotas`: form, list and the recovery record in `sessionStorage`.
  `AdminAudit`: filter contexts and their generations, dataset, page, exports
  with their abort scopes, file names. `AdminForms`: detection thresholds,
  settings, chain verification; what is stored has a time stamp (`at`), which
  tells an update from a reread of the same values. `AdminSso`: one form for two
  protocols, masked secrets. `AdminConnections`: form with write-only fields, and
  row actions, whose observers go when their row leaves the list or the form
  takes its place (`CUnmountRows`). `AdminRoles`: save, lost answer,
  reconciliation. `PolicyEditor`: tables, columns, filters and masks of a policy,
  beginning with any the backend stores (`loaded`), rules for tables that are not
  allowed included. `RolePreview`: verdict against draft. `AdminMessages`: extraction of error keys and life of toasts.
* `Locale`: address, storage, navigator and document language, history entries.
  An entry has a language and what it carries for the prompt; the toggle rewrites
  the address past the router, whose copy of it (`tRouter`) is what the redirect of
  `/ask` and the cleaning of a prefilled address start from.

## 3. Runs

| Run | Bounds | Shows |
|---|---|---|
| `cancel` | 2 submits of one browser session, 2 workers, 1 deletion | every exit path cleans up; overlap only through a deletion; the lock protocol is implemented |
| `retry` | submit, regenerate, accept, delete on one chat session; failing commits and Redis calls | the active attempt is an executed one; attempts only move forward |
| `shared` | submit and reject from one browser, submit from another, same chat session (fair) | one writer per chat session; every request ends |
| `recovery` | submit, accept, delete; crashes and TTLs (fair) | what a dead worker leaves behind disappears; the deletion that set the marker goes through |
| `chain` | 1 writer, 1 auditor, 1 purger, 5 entries, 5 ticks, retention 1 | the chain is linear; only expired entries go; it verifies unless a purge of everything was overtaken by an append; removing an entry is detected |
| `transitions` | 3 admin requests, the role may be deleted, all faults, 6 revisions (fair) | a marker belongs to a request that is still at work or has failed; a change fails closed; every admin request ends |
| `checks` | 1 admin request, 2 checks, the role may be deleted, all faults | a grant follows a limit that was in force during the check, unless it straddled a transition |
| `auth` | 2 users, 3 session ids, limit 2, 2 requests at a time, 3 permission lists, 2 clocks, in three scopes (below) | keys agree with the index; the limit; ended sessions stay ended; the oldest is evicted; an undisturbed request is served |
| `admin` | per page 2 mutations or saves, 2 mounts, 1 or 2 rows; audit: 3 searches, 2 exports, 4 requests in all | see below |
| `workspace` | per component 2 or 3 requests, 2 users, 3 sessions, 2 deletions, 2 mounts; the lock with 4 requests, 2 HTTP sessions, 2 workers | see below |
| `progress` | the same components with 1 or 2 of everything (fair) | see below |
| `forbidden` | as `auth`, 1 user, 1 session id, 1 request | the code does what a document says it does not (section 6) |

`admin` and `workspace` explore one component at a time from a common set of
initial states. Many properties are conjunctions of what one or several components owe in
one respect:

| Property | Members |
|---|---|
| `LockIsReturned` (`cancel`) | `FinallyReleases`, `OverlapOnlyWhenCancelled` |
| `ChainIsSound` (`chain`) | types, `VerifiesUnlessOvertaken`, `RemovalIsDetected` |
| `CacheIsSound` (`checks`) | types, `StaleOnlyAfterStraddling` |
| `KeysAreSound` (`auth`) | `IndexConsistent`, `SessionLimit` |
| `ConsoleIsTruthful` | quotas: `PendingSyncIsOffered`, `RetryOnlyResynchronises`; audit: `LatestSearchWins`, `PageInDataset`; roles: `SaveOutcomeIsTrue`; preview: `VerdictIsOfTheDraft`; policies: `PoliciesWellFormed`; SSO: `StoredSecretsAreTyped`; messages: `FirstKeyInOrder` |
| `ChangesAreExclusive` | `OneMutationPerPage`, `ExportsAreExclusive`, `SearchButtonMatchesScope`, `OneSaveAtATime`, `RowActionsExclusive` |
| `DraftsAreKept` | `DraftSurvivesFailure`, `DraftKeptUnlessNews`, `SuccessClosesSavedForm`, `DraftIsTheAdmins`, `OneToastAtATime` |
| `PageIsOfTheUser` | `DataIsOfTheUser`, `ShownUserIsSignedIn`, `EveryNavigationIsVerified`, `LandingIsPermitted`, `RedirectDropsPrefill`, `RejectionIsVisible` |
| `DeletionIsSafe` | `UndoneIsKept`, `UnavailableMeansDeleting`, `DeletedDetailIsForgotten` |
| `TurnsAreKept` | `ShownAtMostOnce`, `AnswersStayOnScreen`, `HiddenMeansDeleted`, `UnmountAbortsAll`, `SuppressedShowsNothing`, `OneStateIsShown`; lock: `NoInflightLeak` |
| `ScopeIsSound`, `ContractIsKept`, `HonestCallsPass` | `ScopeCleansUp`, `ShownDataIsValid`; `DeclaredKeysSurvive`, `NothingUndeclared`; `OperationIsRecognised`, `HonestAnswersPass` |
| `ListsAreExact` | `NoEntryTwice`, `NothingIsSkipped`, `OwnChangeIsReread`, `PageIsOfThisResult`, `BlankIsAwaited` |
| `ChoicesAreKept` | `ChoiceBeatsSync`, `OnlyChoicesArePatched`, `ChoiceIsStored`, `FocusIsOnActiveOption`, `BookmarkReachesPrompt`, `ReloadKeepsLanguage`, `AddressCarriesChoice` |
| `StepsAreTrue` | `AnswerLeavesOtherChats`, `TypeaheadFindsMatch`, `FirstReasonStays`, `FailureIsToldTruly` |
| `EverythingSettles` (`progress`) | `MutationEnds`, `AuditRequestsEnd`, `FormCatchesUp`, `ConnectionsCatchUp`, `RoleSaveEnds`, `PreviewEnds`, `ToastsEnd`, `SpinnerEnds`, `RedirectsEnd`, `PrefillIsConsumed`, `DeletionEnds`, `TurnsSettle`, `ReadsEnd`, `SearchCatchesUp`, `SqlIsShown` |

The bounds are small but sharp: every property relates at most two requests of
a kind, and each workload contains the third one that may disturb them
(deletion, accept, second browser, purge, other tab, remount). With a limit of
two sessions, the third login of a user chooses which of two to evict; with pages
of one entry, three entries make three pages. Two mounts are one more than a late callback needs to meet a
state that is not its own. All labels of all handlers are reached. `MCAdmin`
narrows two sets of initial states: at most one role has a quota at first, and at
most one protocol a provider; the page itself creates the others.

Fairness: `FairSpec` of `QueryLifecycle` assumes weak fairness of each request's
own steps. A handler is a task of an event loop that runs on as soon as its
await returns; Redis, PostgreSQL and the LLM are bounded by timeouts of their
clients. The deadline, cancellations and faults are never assumed to happen.
`ExpirySpec` adds that Redis drops a key once its TTL has passed. `FairSpec` of
`QuotaConfig` is weak fairness of the steps of an admin request, its failures
excluded. In the frontend a settled promise, an effect and a timer of the browser
are fair. Requests are fair because they end in one way or another: by their
answer or a network error, both of which are among the outcomes; in
`RequestScope` no answer is assumed at all, only that the client's own timer
fires. Nothing a user does is fair. `shared` and `transitions` do not check
deadlock separately, because `EveryRequestEnds` and `AdminsEnd` say more: a
request that waits for ever violates them even when others go on. The other runs
without deadlock checking (`checks`, `auth`, `admin`, ...) have a bounded number
of requests or session ids and stop when they are used up.

`auth` explores three scopes, chosen by the initial state (`focus` of
`MCAuthSessions`), because all of it at once is out of reach. In `logins` two
users sign in up to and beyond the limit and sign out, one request after another,
with clocks that disagree; sessions expire and users are deleted. In `races` the
requests of one user overlap, three logins included. In `roles` requests with one
session overlap while its role changes. `OldestGoFirst`, `KeysStaySound`,
`EndedForGood` and `CalmAreServed` (section 4) hold without these scopes.

`auth` compares states without the answers already given (`VIEW`), on which no
later step depends, and uses the symmetry of users, session ids and
requests; its properties are invariants and action properties.

## 4. Proofs

All proofs are for arbitrary constants; the constants only have to be well typed
(the named `ASSUME` of each module). Where a theorem needs more, its `ASSUME`
says so. Every inductive invariant below was first checked by TLC on the instance
of its run.

`ProcessingLockProofs`: `TypeCorrect`, `Exclusion`, `NoLeak` and `OwnersAreSafe`
(an action property). `WorkerExclusion` is not inductive: two running requests
of one slot are excluded because each would own the slot's entry. The inductive
invariant adds `RunningOwnsEntry`, and `NoInflightLeak`, which says that the
owner of an entry runs in that very slot.

### The query handlers

Three modules, each on top of the one before.

`QueryControlProofs` is about the control of one request. `RequestOK` says what
its local variables and its attempt are at each step of its handler: which
labels its kind can reach, which states `attempt.state` can have there, when
`timeout_attempt` is set. Steps are grouped by what they may touch (`KeyAction`,
`InsideStep`, ...), so that a fact about the other requests is proved once for
each group and not once for each of the handlers' steps.

`QueryLifecycleProofs`: `TypeCorrect`, `AttemptsCorrect`, `ActiveIsExecuted`,
`AttemptsMoveForward`, under every fault. Neither property is inductive. The
state an attempt is stored with was computed from what the handler read some
awaits before, so the invariant `AttemptInv` relates the stored record to the
frame of the request that owns it (`RequestsOK`), says that the attempt a retry or
an accept was called with is of the same HTTP session and its request is over
(`PriorsOK`), and that an active attempt is an executed one unless a request is
about to drop it or died before it could (`ActiveOK`).

`QueryLockProofs`: `KeysAreOwned` holds under every fault: lock, operation and
`_inflight_owners` entry are those of a request of the same HTTP session, chat
or slot that may hold them (`KeysOwned`). `KeysAreHeld` is the converse, that a
query that may still answer holds them unless its chat is marked as cancelled
(`KeysHeld`); it assumes that commits succeed, because a deletion whose commit
fails gives up its marker after it has taken the locks. `LocksAreReturned` and
`OneWriterPerChat` follow; the former also assumes that the Redis calls of the
finally clause succeed. Neither assumption can be dropped: with the fault, TLC
finds each property violated (section 6). `HandlersImplementLock` is the refinement
`ImplementsProcessingLock`: `LockPhase` maps a label to a phase of the protocol, a
table says which labels a step joins, and every step is a step of
`ProcessingLock` or leaves its variables alone, under every fault. So the
theorems of the protocol hold of the handlers: `OneQueryPerWorker` is one of them.

### The audit chain

`AuditChainProofs`: `ChainIsLinear`, `OnlyExpiredEntriesGo` and
`RemovalsAreDetected`, for any number of writers, verifiers and purges at a time.
The chain stays linear because whoever appends or deletes holds the advisory lock
and because the expired entries, by the order of time stamps along the chain, are
a prefix of it. `OpenWork` says so of what an open transaction is about to write;
it is what makes the invariant inductive across the steps of a purge. A removal
is detected because the entry after it names a hash that no other entry has, and
because no marker covers the gap: what a committed marker calls purged is gone
(`PurgedIsGone`). That in turn needs that a purge has read a gap-free run of
entries (`ScanIsOld`), so that the numbers in its marker are what the `DELETE`
that follows removes or has been removed.

`ChainsAreSound` adds that `verify_chain` accepts every log the application
produces, unless a purge that found every entry expired was overtaken. It assumes
`OnePurge`, that at most one purge runs at a time; with two, TLC finds a log that
does not verify (section 6). The invariant `VerifyInv` says that what the purge
has read is still what has expired, whatever was appended since (`ScanIsExact`),
that the marker it is about to commit describes exactly what it deletes and where
the rest begins (`PurgeIsExact`), and that the first entry of the log is number
one or is explained by a marker (`StartIsExplained`). The first and the last
expired entry of a set are found by the least-number principle, from the
well-foundedness of the naturals.

### Quotas

`QuotaConfigProofs`: `MarkersAreOwned` and `ChangesFailClosed`. The invariant
`AdminInv` says who holds the role and that it knows the committed row
(`Locking`), that a marker is raised once and by one request (`Marks`), that a
change is made and published under the request's own marker (`OwnMarker`), and
how often a marker can still vanish under a request in the reconciliation loop
(`Reconciling`): requests about to publish have older markers, so the loop ends
without leaving a marker. Three requests, which TLC explores, never run that loop
to its end; the theorem covers any number.

`CopiesAreSound` and `GrantsStayCurrent` are about the checks. `CopyInv` says,
until a check straddles a transition (`straddled`, section 6), that a check knows
the current revision only if no marker is up (`RevisionsArePast`), that a copy
under the current revision is the committed row (`CopyIsCurrent`), that a check
about to store or to compare under it holds that row (`LimitIsCurrent`), and that
a limit about to be counted against was committed while the check ran
(`GrantIsCovered`). It is inductive together with `AdminInv`: a change is committed
under a marker, with a revision no check has seen.

### Sessions

`AuthSessionsProofs`: `KeysAgree`, `LimitHolds`, `EndedForGood`. `SessionLimit`
counts live records, but the scripts bound the index; the invariant `KeyInv`
connects them: a live record is a member of its user's index, a dead one has no
owner key, members have been drawn before, and the index as a whole, stale
members included, respects the limit. `ReqInv` says that a request that compares
holds a record. There is one lemma per script and one per step of a request.
`KeysStaySound` puts the first two together, `KeysAreTyped` is type correctness.

`OldestGoFirst` (the action property `EvictsOldest`) needs that scores follow the
order in which sessions were drawn, that no two have the same, and that no
session is in two indexes (`ScoreInv`). `CalmAreServed` (`ServedWhenAlone`) needs
what an undisturbed request has read so far and that this is still so
(`CalmInv`), and what every other request can do to it: it either leaves the
session, its user and its role alone or ends the calm.

### The workspace

`WorkspaceProofs` has four parts.

`RequestScope`: `EveryScopeIsSound`, `FirstAbortWins`, `FailuresAreToldTruly`.
What is told depends on how the fetch ended and on what had aborted its scope by
then. The invariant adds what each stage knows of the answer (`AnswerIsChecked`: a
body that is read has been validated) and where the reasons come from
(`ReasonIsTrue`: `"parent"` only if the query was cancelled, and a contract error
without an abort is the server's).

`ResponseContract`: `EveryContractIsKept`, for every manifest, every sequence of
alternatives and every finite body. The lemma `TakenDeclaresAll` is the point of
`matchingUnionSchema`: it takes an alternative that declares as many keys of the
body as any that accepts it, so if one of these declares them all, the one taken
does (by the cardinality of subsets of a finite set).

`SessionDeletion`: `DeletionsAreSafe`, for any number of sessions, navigations and
DELETEs. `UndoneIsKept` needs that neither a toast nor a DELETE that the server has
still to answer is of an undone session (`UndoneIsOutOfReach`);
`DeletedDetailIsForgotten` needs that a detail under way whose version is still
the registry's is of an available session (`FetchIsVersioned`).

`QuerySubmit`: `RequestsAreAborted`, `SuppressedStaysHidden`, `StatesDoNotMix`. The
invariant `OneFlight` says that there is at most one request and that it is the
one the mounted hook owns, which is why aborting the owned one aborts all;
`ShownInv` that nothing is shown besides a refusal while a request runs.

### Only model-checked

* Everything under fairness (`EveryRequestEnds`, `AdminsEnd`, `KeysAreTemporary`,
  `MarkedSessionIsDeleted`, `EverythingSettles`): liveness and `ENABLED` are out of
  reach of the installed provers.
* The pages of the admin console. `AdminMessages` uses a recursive operator for
  nested error bodies, which these provers cannot read, and the properties of
  run `admin` speak of all pages at once.
* The other components of the workspace: identity, routes, sign-in,
  conversation, lists, history, selection, language.

## 5. Hazards

`PROJECT.json` lists the hazards of the code, at the line where they bite, with
the properties that watch them. Known and watched by none: a record of a deleted
chat session that is written after its cleanup
(`services/query_service.py:835`), a Redis error at the start of a finally clause
(`:1267`), and an accept that overlaps with a regeneration (`:1328`; for both see
section 6). With the response sent before the commit
(`db/base.py:70`), a client can be told of a success whose commit then fails; the
models explore that order, and no property calls it wrong.

## 6. Where code and documents disagree

Shown by a run:

* `forbidden`: a role without permissions. The first refresh of the session
  rewrites the empty permission list as `{}`, which the strict parser rejects:
  that request is answered 503 and the next one deletes the session, where the
  guard promises 403.

Stated in a module, checked by no run because TLC refutes it. `tlc` shows the
behaviour when the definition is added to the properties of the run in brackets.

* `NoDuplicateInHistory` of `QueryLifecycle` (`retry`, with
  `ReplyBeforeCommit = FALSE` and no faults). `accept_query` takes no processing
  lock: it checks the active attempt, a regeneration then moves the saved row to
  its new attempt, and the accept finds no row for the old one and inserts it.
  `query_service.py:1909` updates in place "to avoid confusing duplicates in
  history".
* `CacheIsAuthoritative` of `QuotaConfig` (`checks`). `_cache_revision` reads
  marker and revision with two calls. A check that finds no marker and then reads
  the revision of a transition that began in between can store the limits of
  before the commit under the new revision; the copy then contradicts the row
  for up to 60 seconds. `StaleOnlyAfterStraddling` shows that there is no other
  way.
* `NotUndoneMeansDeleted` of `SessionDeletion` (`workspace`). A navigation takes
  the toast off the screen and clears its timer, and the DELETE is never sent.
  FR-033 (`specs/002-phase2-premium-ui-rtl/spec.md:195`): "If the user does not
  undo within 5 seconds, the session and all associated data [...] are
  permanently deleted".
* `SelectionIsStored` of `ConnectionSelection` (`workspace`). The session that a
  question creates is stored without the connection the question went to
  (`query_service.py:768`); only a later choice of the user is written to it.
  FR-094 (`specs/003-multi-dialect-source-dbs/spec.md:235`): "The selected
  `connection_id` MUST be stored on the session record."
* `LocationReachesPrompt` of `Routes` (`workspace`). The workspace takes the
  question from its location and replaces the location; the identity boundary
  verifies that navigation, and the workspace mounted afterwards has neither.
  `WorkspacePage.prefill.test.tsx` expects the question in the prompt, without the
  boundary.
* `LateUserIsIsolated` of `IdentityBoundary` (`workspace`). A request for the
  current user that was sent with the former cookie and is answered after the
  sign-in of another user gives the page the former user, over data of the new
  one, until the next verification (compare `QueryProvider.test.tsx:331`).
* `ExpiryIsOfThisSession` of `IdentityBoundary` (`workspace`). A late 401 to a
  request of a session that has ended ends the session that followed it.
* `CancellationIsNative` of `RequestScope` (`workspace`). A cancellation that cuts
  off the reading of the body during validation is reported as a contract error;
  the comment at `requestScope.ts:158` says that cancellations keep their native
  abort error.
* `ExportIsTheDisplayedDataset` of `AdminAudit` (`admin`). While a new search
  loads, the table still shows the former dataset and the export button uses the
  new filter; the comment at `AdminAuditPage.tsx:43` binds results, summary and
  export to one dataset.
* `NoNavigationSharesAnAnswer` of `IdentityBoundary` (`workspace`). A navigation
  while the first request for the current user is running does not send another
  one: `query.fetch` joins the request that was sent before the navigation.
  `EveryNavigationIsVerified` shows that this is the only case.
* `ChoiceSurvivesPrefill` of `Locale` (`workspace`). The toggle writes `?lng=` with
  `history.replaceState`, which the router does not see. When the workspace then
  drops the prefill from the address it starts from the router's copy, and the
  former language is back in the address. The comment at
  `LanguageToggle.tsx:22` says "any stale `?lng=` query value is rewritten so
  reloads cannot revert it".
* `RecoveryAlertIsTrue` of `AdminQuotas` (`admin`). The page goes on saying that a
  change is not synchronised after another admin's change of the same role has
  synchronised it.
* `OnlyProtectedFieldsAreRefused` of `AdminRoles` (`admin`). The form sends all
  fields, changed or not, and the server refuses a built-in role whenever a
  protected one is present, so its description and policies cannot be saved
  either; the note in the form names "name, priority, and permissions".

Met on the way, and visible in the properties that hold only with an exception:

* A deletion deletes the processing lock of a query that is still running, so
  two queries of a browser session can be in flight; `OverlapOnlyWhenCancelled`
  shows that this is the only way.
* A timed-out attempt that was never tracked, or one stored between check and
  write, stays in Redis after its chat session is deleted, until its TTL.
* A failing Redis call in the finally clause of a query skips the release of the
  lock. The key then waits for its TTL; the entry of `_inflight_owners` stays, and
  that worker answers 409 to the browser session until it restarts.
  `FinallyReleases` is checked without that fault.
* A deletion whose commit fails removes its marker after its cleanup has taken the
  lock and the operation of a query that is still running. That query is then no
  longer told to stop, and another one may write to the same chat session.
  `LockIsReturned` and `OneOperationPerChat` are checked and proved without that
  fault.
* A purge that finds no survivor and is overtaken by an append leaves a log that
  verification reports as broken (`VerifiesUnlessOvertaken`), and so do two
  overlapping purges with different cutoffs.
* A role's description cannot be made blank: the form leaves a blank one out, and
  the server keeps what it is not sent (`admin_roles.py:692`). The page looks for `duplicateRoleName` and
  `duplicateRolePriority`, the server sends `duplicateName` and
  `duplicatePriority`, so the two messages are never shown.
* A turn that was restored while it was being regenerated keeps its spinner; a
  regeneration that ends in a refine prompt hides the saved answer until the page
  is mounted again.
* A refine prompt without `kind` passes the schema and then fails with a
  TypeError; a status the manifest does not list is told as a contract error.
* An entry that moves to the top between two pages is skipped until the next
  refetch (`NothingIsSkipped` is about the others). PATCHes of a session's
  connection can overtake one another, and the session is then stored with another
  connection than the selector shows (`ChoiceIsStored` leaves this out).
* The thresholds form takes every update that it had not read for news, also one
  with the values it knows and the one its own save has made: what was typed in the
  meantime is replaced (`DraftKeptUnlessNews`).
* A policy that was stored with a filter on a table, or a mask on a column, that
  it does not allow keeps it through the editor, which only checks what it changes
  (`PoliciesWellFormed`).
* Of the paths that fit a request, `requestOperation` takes the one with the fewest
  parameters, so an id that is spelled like a literal segment of another path
  would be taken for it. Ids are UUIDs, and `OperationIsRecognised` is checked
  with ids that equal literals of other places only.
* After "Back" to an address with another language, or after a prefill was
  dropped, a reload reverts the choice (`tReverted`); without storage every reload
  does. A failed import of the highlighter is
  remembered until the page is loaded again.

## 7. Not modelled

* Permissions catalogue, SQL evaluator, detection of hostile input: pure
  decisions over SQL syntax trees and texts, which would have to be modelled
  character by character or not at all. LLM providers and source databases:
  external calls, present as outcomes.
* Server side of connections, roles, SSO, history and audit search: present as
  the external server of the page that uses it, as far as the page can tell. The
  SSO callback is not modelled.
* Rerun of a saved query (read-only for this state), the connection pool,
  application start and configuration.
* Frontend: the generated client (types and one function per endpoint, no
  control of its own), presentational components, wording and layout. The text of
  messages, questions, SQL and cell values is left out throughout.
