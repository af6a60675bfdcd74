----------------------------- MODULE QuotaConfig -----------------------------
(***************************************************************************)
(* The quota configuration of one role (services/quota_service.py,         *)
(* api/v1/admin_quotas.py).  PostgreSQL is authoritative.  Workers count   *)
(* against a copy of the limits in Redis, tagged with a revision.  An      *)
(* admin request changes the configuration in three places: it raises a    *)
(* transition marker in Redis (which bumps the revision and drops the      *)
(* copy), commits the row under the lock of the role, and publishes the    *)
(* row, which removes the marker.  While the marker is up every check      *)
(* fails closed.                                                           *)
(*                                                                         *)
(* One dimension and one user are enough: dimensions only choose a field,  *)
(* and users only a counter.  The marker "<token>:<revision>" is identified*)
(* by its revision, which no other marker ever carries.                    *)
(***************************************************************************)
EXTENDS Naturals

CONSTANTS
    Admins,         \* PUT and DELETE requests
    Wanted,         \* what a request sets: a limit, or NoRow for DELETE
    Readers,        \* calls of check_and_increment
    Limits,         \* daily limits an admin may set
    NoRow,          \* no quota row: uncapped
    None,
    MaxRevision,    \* bound on transitions
    RoleMayGo,      \* whether the role may be deleted meanwhile
    Faulty          \* whether Redis, commits and workers may fail

Retries == 3        \* _TRANSITION_RECONCILIATION_RETRIES, _CONFIG_CACHE_RETRIES
Values == Limits \cup {NoRow}

ASSUME QuotaAssumption ==
    /\ Limits \subseteq Nat
    /\ NoRow \notin Limits /\ None \notin Values \cup Admins
    /\ Wanted \in [Admins -> Values]
    /\ MaxRevision \in Nat
    /\ RoleMayGo \in BOOLEAN /\ Faulty \in BOOLEAN

VARIABLES
    db,         \* the committed role_quotas row
    role,       \* the role exists
    rowLock,    \* admin request that holds the role FOR UPDATE
    revision,   \* quota_config_revision:<role>
    marker,     \* quota_config_transition:<role>, 0 if absent
    cache,      \* quota_config:<role>
    count,      \* the user's counter of the day
    admin,      \* the admin requests
    reader,     \* the checks
    window,     \* history: values of db since a check began
    straddled   \* history: a revision was read while the marker was up

redis == <<revision, marker, cache>>
vars == <<db, role, rowLock, revision, marker, cache, count,
          admin, reader, window, straddled>>

Init ==
    /\ db \in Values
    /\ role = TRUE
    /\ rowLock = None
    /\ revision = 0 /\ marker = 0 /\ cache = None
    /\ count = 0
    /\ admin = [a \in Admins |-> [pc |-> "begin", mark |-> 0, created |-> FALSE,
                                  seen |-> NoRow, tries |-> 0]]
    /\ reader = [r \in Readers |-> [pc |-> "start", rev |-> 0, limit |-> NoRow,
                                    cached |-> FALSE, tries |-> 0]]
    /\ window = [r \in Readers |-> {}]
    /\ straddled = FALSE

-----------------------------------------------------------------------------
(* Redis scripts *)

BeginMarksOldRevision ==
    \/ marker # 0 /\ UNCHANGED redis
    \/ /\ marker = 0
       /\ revision' = revision + 1
       /\ marker' = revision
       /\ cache' = None

(* _BEGIN_CONFIG_TRANSITION_SCRIPT *)
BeginScript ==
    \/ marker # 0 /\ UNCHANGED redis
    \/ /\ marker = 0
       /\ revision' = revision + 1
       /\ marker' = revision + 1
       /\ cache' = None

(* mutant of PublishScript *)
PublishLeavesMarker(mark, value) ==
    IF marker = mark
    THEN /\ cache' = [limit |-> value, rev |-> mark]
         /\ UNCHANGED <<revision, marker>>
    ELSE UNCHANGED redis

(* _PUBLISH_CONFIG_TRANSITION_SCRIPT: only for the marker it was raised for *)
PublishScript(mark, value) ==
    IF marker = mark
    THEN /\ cache' = [limit |-> value, rev |-> mark]
         /\ marker' = 0
         /\ UNCHANGED revision
    ELSE UNCHANGED redis

-----------------------------------------------------------------------------
(* Admin requests *)

AdminGoes(a, pc) == admin' = [admin EXCEPT ![a].pc = pc]

(* The request ends: get_db commits or rolls back, which frees the role. *)
AdminEnds(a, how) ==
    /\ AdminGoes(a, how)
    /\ rowLock' = IF rowLock = a THEN None ELSE rowLock

ChecksUnchanged == UNCHANGED <<count, reader, window, straddled>>

(* The first transition of the request. *)
BeginTransition(a) ==
    /\ admin[a].pc = "begin"
    /\ revision < MaxRevision
    /\ BeginScript
    /\ admin' = [admin EXCEPT ![a].pc = "lock", ![a].mark = marker',
                              ![a].created = (marker = 0)]
    /\ UNCHANGED <<db, role, rowLock>> /\ ChecksUnchanged

(* _locked_role, then the quota row is read under that lock. *)
LockedRole(a) ==
    /\ admin[a].pc = "lock"
    /\ role
    /\ rowLock = None
    /\ rowLock' = a
    /\ admin' = [admin EXCEPT ![a].pc = "own", ![a].seen = db]
    /\ UNCHANGED <<db, role, redis>> /\ ChecksUnchanged

(* The role is gone: publish "uncapped", answer 404. *)
RoleNotFound(a) ==
    /\ admin[a].pc = "lock"
    /\ ~role
    /\ PublishScript(admin[a].mark, NoRow)
    /\ AdminGoes(a, "done")
    /\ UNCHANGED <<db, role, rowLock>> /\ ChecksUnchanged

(* _own_transition_after_reconciliation, a marker of its own: is it still  *)
(* there?                                                                  *)
OwnsTransition(a) ==
    /\ admin[a].pc = "own"
    /\ admin[a].created
    /\ AdminGoes(a, IF marker = admin[a].mark THEN "apply" ELSE "again")
    /\ UNCHANGED <<db, role, rowLock, redis>> /\ ChecksUnchanged

(* Another request's marker, left behind or still in use: publish what the *)
(* database says now, which nobody can change while the role is locked.    *)
PublishForOther(a) ==
    /\ admin[a].pc = "own"
    /\ ~admin[a].created
    /\ PublishScript(admin[a].mark, admin[a].seen)
    /\ AdminGoes(a, IF marker = admin[a].mark THEN "claim" ELSE "again")
    /\ UNCHANGED <<db, role, rowLock>> /\ ChecksUnchanged

(* mutant of BeginAgain *)
BeginForever(a) ==
    /\ admin[a].pc \in {"claim", "again"}
    /\ UNCHANGED <<db, role, rowLock, redis, admin>> /\ ChecksUnchanged

(* Raise a marker again.  After a publication a created marker is used at  *)
(* once; otherwise the loop goes round, at most Retries times.             *)
BeginAgain(a) ==
    /\ admin[a].pc \in {"claim", "again"}
    /\ revision < MaxRevision
    /\ BeginScript
    /\ LET created == marker = 0
           last    == admin[a].tries + 1 = Retries
           next    == IF admin[a].pc = "claim" /\ created THEN "apply"
                      ELSE IF last THEN "refused" ELSE "own"
       IN  /\ admin' = [admin EXCEPT ![a].pc = next, ![a].mark = marker',
                                     ![a].created = created, ![a].tries = @ + 1]
           /\ rowLock' = IF next = "refused" THEN None ELSE rowLock
    /\ UNCHANGED <<db, role>> /\ ChecksUnchanged

NothingToChange(a) == admin[a].seen = Wanted[a]

(* No field changes, or there is nothing to delete: publish the row as it  *)
(* is, still under the lock, and answer 200, 204 or 404.                   *)
PublishUnchanged(a) ==
    /\ admin[a].pc = "apply"
    /\ NothingToChange(a)
    /\ PublishScript(admin[a].mark, admin[a].seen)
    /\ AdminEnds(a, IF marker = admin[a].mark THEN "done" ELSE "refused")
    /\ UNCHANGED <<db, role>> /\ ChecksUnchanged

Remember(value) ==
    window' = [r \in Readers |->
        IF reader[r].pc = "start" THEN {} ELSE window[r] \cup {value}]

(* upsert or delete, the audit entry, and the commit, which frees the role. *)
CommitChange(a) ==
    /\ admin[a].pc = "apply"
    /\ ~NothingToChange(a)
    /\ db' = Wanted[a]
    /\ Remember(Wanted[a])
    /\ AdminEnds(a, "publish")
    /\ UNCHANGED <<role, redis, count, reader, straddled>>

(* After the commit, outside the lock. *)
PublishCommitted(a) ==
    /\ admin[a].pc = "publish"
    /\ PublishScript(admin[a].mark, Wanted[a])
    /\ AdminGoes(a, IF marker = admin[a].mark THEN "done" ELSE "pending")
    /\ UNCHANGED <<db, role, rowLock>> /\ ChecksUnchanged

(* The database refuses the change, or the connection is lost while it     *)
(* commits: _republish_after_rollback.                                     *)
CommitFails(a) ==
    /\ Faulty
    /\ admin[a].pc = "apply"
    /\ ~NothingToChange(a)
    /\ db' \in {db, Wanted[a]}
    /\ Remember(db')
    /\ AdminEnds(a, "relock")
    /\ UNCHANGED <<role, redis, count, reader, straddled>>

(* mutant of RelockAfterRollback *)
RelockWithoutRead(a) ==
    /\ admin[a].pc = "relock"
    /\ rowLock = None
    /\ rowLock' = a
    /\ AdminGoes(a, "republish")
    /\ UNCHANGED <<db, role, redis>> /\ ChecksUnchanged

(* It locks the role again and reads what was really stored. *)
RelockAfterRollback(a) ==
    /\ admin[a].pc = "relock"
    /\ rowLock = None
    /\ rowLock' = a
    /\ admin' = [admin EXCEPT ![a].pc = "republish", ![a].seen = db]
    /\ UNCHANGED <<db, role, redis>> /\ ChecksUnchanged

RepublishAfterRollback(a) ==
    /\ admin[a].pc = "republish"
    /\ PublishScript(admin[a].mark, admin[a].seen)
    /\ AdminEnds(a, "refused")
    /\ UNCHANGED <<db, role>> /\ ChecksUnchanged

InRedis == {"begin", "own", "claim", "again", "apply", "publish", "republish"}

(* A Redis call fails, or the worker dies: the request ends, and a marker  *)
(* it has raised stays.  The script that raises it may have run although   *)
(* its reply is lost.                                                      *)
AdminFails(a) ==
    /\ Faulty
    /\ admin[a].pc \in InRedis \cup {"lock", "relock"}
    /\ \/ UNCHANGED redis /\ AdminEnds(a, "failed")
       \/ /\ admin[a].pc \in {"begin", "claim", "again"}
          /\ marker = 0 /\ revision < MaxRevision
          /\ BeginScript
          /\ admin' = [admin EXCEPT ![a].pc = "failed", ![a].mark = marker',
                                    ![a].created = TRUE]
          /\ rowLock' = IF rowLock = a THEN None ELSE rowLock
    /\ UNCHANGED <<db, role>> /\ ChecksUnchanged

(* api/v1/admin_roles.py deletes the role; the quota row goes with it. *)
DeleteRole ==
    /\ RoleMayGo /\ role
    /\ rowLock = None
    /\ role' = FALSE
    /\ db' = NoRow
    /\ Remember(NoRow)
    /\ UNCHANGED <<rowLock, redis, count, admin, reader, straddled>>

-----------------------------------------------------------------------------
(* check_and_increment: every Redis or database read is a step *)

ReaderGoes(r, pc) == reader' = [reader EXCEPT ![r].pc = pc]
AdminsUnchanged == UNCHANGED <<db, role, rowLock, revision, marker, admin>>

StartCheck(r) ==
    /\ reader[r].pc = "start"
    /\ ReaderGoes(r, "transition")
    /\ window' = [window EXCEPT ![r] = {db}]
    /\ UNCHANGED <<cache, count, straddled>> /\ AdminsUnchanged

(* _cache_revision reads the marker ... *)
ReadTransition(r) ==
    /\ reader[r].pc = "transition"
    /\ ReaderGoes(r, IF marker # 0 THEN "unavailable" ELSE "revision")
    /\ UNCHANGED <<cache, count, window, straddled>> /\ AdminsUnchanged

(* ... and then the revision. *)
ReadRevision(r) ==
    /\ reader[r].pc = "revision"
    /\ reader' = [reader EXCEPT ![r] = [@ EXCEPT !.pc = "cache", !.rev = revision]]
    /\ straddled' = (straddled \/ marker # 0)
    /\ UNCHANGED <<cache, count, window>> /\ AdminsUnchanged

(* mutant of CacheHit *)
CacheHitAnyRevision(r) == cache # None

CacheHit(r) == cache # None /\ cache.rev = reader[r].rev

(* _stable_cached_limits reads the copy. *)
ReadCache(r) ==
    /\ reader[r].pc = "cache"
    /\ reader' = [reader EXCEPT ![r] =
            IF CacheHit(r)
            THEN [@ EXCEPT !.pc = "recheck", !.limit = cache.limit, !.cached = TRUE]
            ELSE [@ EXCEPT !.pc = "repository", !.cached = FALSE]]
    /\ UNCHANGED <<cache, count, window, straddled>> /\ AdminsUnchanged

(* _cache_repository_limits reads the row ... *)
ReadRepository(r) ==
    /\ reader[r].pc = "repository"
    /\ reader' = [reader EXCEPT ![r] = [@ EXCEPT !.pc = "store", !.limit = db]]
    /\ UNCHANGED <<cache, count, window, straddled>> /\ AdminsUnchanged

(* mutant of StoreCache *)
StoreUnderCurrentRevision(r) ==
    /\ reader[r].pc = "store"
    /\ cache' = [limit |-> reader[r].limit, rev |-> revision]
    /\ reader' = [reader EXCEPT ![r] = [@ EXCEPT !.pc = "recheck", !.cached = FALSE]]
    /\ UNCHANGED <<count, window, straddled>> /\ AdminsUnchanged

(* ... and stores it under the revision read before. *)
StoreCache(r) ==
    /\ reader[r].pc = "store"
    /\ cache' = [limit |-> reader[r].limit, rev |-> reader[r].rev]
    /\ reader' = [reader EXCEPT ![r] = [@ EXCEPT !.pc = "recheck", !.cached = FALSE]]
    /\ UNCHANGED <<count, window, straddled>> /\ AdminsUnchanged

RecheckTransition(r) ==
    /\ reader[r].pc = "recheck"
    /\ ReaderGoes(r, IF marker # 0 THEN "unavailable" ELSE "compare")
    /\ UNCHANGED <<cache, count, window, straddled>> /\ AdminsUnchanged

(* The revision must not have moved.  If it has, a copy is looked up in    *)
(* the database instead, a row is dropped and the loop goes round.         *)
RecheckRevision(r) ==
    /\ reader[r].pc = "compare"
    /\ reader' = [reader EXCEPT ![r] =
            IF revision = reader[r].rev THEN [@ EXCEPT !.pc = "count"]
            ELSE IF reader[r].cached THEN [@ EXCEPT !.pc = "repository"]
            ELSE IF reader[r].tries + 1 = Retries THEN [@ EXCEPT !.pc = "unavailable"]
            ELSE [@ EXCEPT !.pc = "transition", !.tries = reader[r].tries + 1]]
    /\ UNCHANGED <<cache, count, window, straddled>> /\ AdminsUnchanged

Capped(r) == reader[r].limit # NoRow

(* _CHECK_SCRIPT, or _assert_config_available for an uncapped role. *)
CheckScript(r) ==
    /\ reader[r].pc = "count"
    /\ \/ marker # 0 /\ ReaderGoes(r, "unavailable") /\ UNCHANGED count
       \/ /\ marker = 0 /\ Capped(r) /\ count >= reader[r].limit
          /\ ReaderGoes(r, "exceeded") /\ UNCHANGED count
       \/ /\ marker = 0 /\ Capped(r) /\ count < reader[r].limit
          /\ ReaderGoes(r, "allowed") /\ count' = count + 1
       \/ /\ marker = 0 /\ ~Capped(r)
          /\ ReaderGoes(r, "allowed") /\ UNCHANGED count
    /\ UNCHANGED <<cache, window, straddled>> /\ AdminsUnchanged

(* Redis or the database fails: QuotaUnavailableError. *)
CheckFails(r) ==
    /\ Faulty
    /\ reader[r].pc \notin {"start", "unavailable", "exceeded", "allowed"}
    /\ ReaderGoes(r, "unavailable")
    /\ UNCHANGED <<cache, count, window, straddled>> /\ AdminsUnchanged

(* The TTL of the copy passes. *)
CacheExpires ==
    /\ cache # None
    /\ cache' = None
    /\ UNCHANGED <<count, reader, window, straddled>> /\ AdminsUnchanged

AdminStep(a) ==
    \/ BeginTransition(a) \/ LockedRole(a) \/ RoleNotFound(a)
    \/ OwnsTransition(a) \/ PublishForOther(a) \/ BeginAgain(a)
    \/ PublishUnchanged(a) \/ CommitChange(a) \/ PublishCommitted(a)
    \/ CommitFails(a) \/ RelockAfterRollback(a) \/ RepublishAfterRollback(a)

AdminNext(a) == AdminStep(a) \/ AdminFails(a)

ReaderNext(r) ==
    \/ StartCheck(r) \/ ReadTransition(r) \/ ReadRevision(r) \/ ReadCache(r)
    \/ ReadRepository(r) \/ StoreCache(r) \/ RecheckTransition(r)
    \/ RecheckRevision(r) \/ CheckScript(r) \/ CheckFails(r)

Next ==
    \/ \E a \in Admins : AdminNext(a)
    \/ \E r \in Readers : ReaderNext(r)
    \/ DeleteRole
    \/ CacheExpires

Spec == Init /\ [][Next]_vars

(* A handler runs on while its next step is possible; failures are never   *)
(* counted on.                                                             *)
FairSpec == Spec /\ \A a \in Admins : WF_vars(AdminStep(a))

-----------------------------------------------------------------------------
Over == {"done", "refused", "pending", "failed"}
AdminStates == Over \cup
    {"begin", "lock", "own", "claim", "again", "apply", "publish", "relock", "republish"}
ReaderStates ==
    {"start", "transition", "revision", "cache", "repository", "store",
     "recheck", "compare", "count", "allowed", "exceeded", "unavailable"}
Copies == [limit : Values, rev : 0 .. MaxRevision]

TypeOK ==
    /\ db \in Values
    /\ role \in BOOLEAN /\ straddled \in BOOLEAN
    /\ rowLock \in Admins \cup {None}
    /\ revision \in 0 .. MaxRevision
    /\ marker \in {0, revision}
    /\ cache \in Copies \cup {None}
    /\ count \in Nat
    /\ admin \in [Admins -> [pc : AdminStates, mark : 0 .. MaxRevision,
                             created : BOOLEAN, seen : Values,
                             tries : 0 .. Retries]]
    /\ reader \in [Readers -> [pc : ReaderStates, rev : 0 .. MaxRevision,
                               limit : Values, cached : BOOLEAN,
                               tries : 0 .. Retries]]
    /\ window \in [Readers -> SUBSET Values]

(***************************************************************************)
(* Enforcement fails closed around every change: the row only changes      *)
(* while a marker is up and the marker outlives the commit, and the marker *)
(* only comes down together with the publication of the row that is        *)
(* committed at that moment, whichever request publishes (upsert_quota,    *)
(* delete_quota, _own_transition_after_reconciliation).                    *)
(***************************************************************************)
FailClosedStep ==
    role' =>
        /\ db' # db => marker # 0 /\ marker' = marker
        /\ marker # 0 /\ marker' # marker =>
                marker' = 0 /\ cache'.limit = db /\ db' = db
FailClosed == [][FailClosedStep]_vars

(***************************************************************************)
(* No transition is abandoned without a failure: a marker was raised by a  *)
(* request that is still at work or that lost Redis, its worker or its     *)
(* reply.  Requests that end in any other way, a refusal after             *)
(* _TRANSITION_RECONCILIATION_RETRIES included, leave enforcement open.    *)
(***************************************************************************)
MarkerHasOwner ==
    marker # 0 => \E a \in Admins :
        /\ admin[a].created /\ admin[a].mark = marker
        /\ admin[a].pc \notin Over \ {"failed"}

(***************************************************************************)
(* A copy that readers will accept holds the committed limits.             *)
(***************************************************************************)
Acceptable == marker = 0 /\ cache # None /\ cache.rev = revision /\ role
CacheIsAuthoritative == Acceptable => cache.limit = db

(***************************************************************************)
(* The only way to a stale copy is a check that finds no marker and then   *)
(* reads the revision of a transition that began in between                *)
(* (_cache_revision reads two keys).                                       *)
(***************************************************************************)
StaleOnlyAfterStraddling == straddled \/ CacheIsAuthoritative

(***************************************************************************)
(* The variables have their types, and limits that are not the committed   *)
(* ones are cached only in that way.                                       *)
(***************************************************************************)
CacheIsSound == TypeOK /\ StaleOnlyAfterStraddling

(***************************************************************************)
(* A check is granted only against limits that were committed at some      *)
(* moment while it ran (unless a copy has gone stale in the way above).    *)
(***************************************************************************)
GrantStep ==
    \A r \in Readers :
        reader[r].pc = "count" /\ reader'[r].pc = "allowed" /\ role =>
            straddled \/ reader[r].limit \in window[r]
GrantsAreCurrent == [][GrantStep]_vars

(***************************************************************************)
(* Every admin request ends: none waits for ever for the role or goes      *)
(* round in the reconciliation of transitions.                             *)
(***************************************************************************)
AdminsEnd == \A a \in Admins : <>(admin[a].pc \in Over)
=============================================================================
