--------------------------- MODULE ProcessingLock ---------------------------
(***************************************************************************)
(* The per-HTTP-session processing lock that serialises submit, reject and *)
(* regenerate (core/processing_lock.py).  A request first reserves an      *)
(* entry in the dictionary of its own worker process (_inflight_owners),   *)
(* then takes the Redis key processing_lock:<session> with SET NX EX.      *)
(* Redis may drop the key (its TTL passed), and the deletion of a chat     *)
(* session deletes the key of the operation it cancels, while the owner is *)
(* still running; the dictionary entry is only ever removed by the owner.  *)
(*                                                                         *)
(* An owner token is a fresh uuid4 per acquisition, so the request itself  *)
(* stands for its token.                                                   *)
(***************************************************************************)
CONSTANTS
    Requests,       \* acquisitions of the lock; also their owner tokens
    HttpSessions,   \* signed-in HTTP sessions
    Workers,        \* backend processes, each with one Redis client object
    Http,           \* the HTTP session of a request
    Worker,         \* the process that serves a request
    None

ASSUME RequestAssumption ==
    /\ Http \in [Requests -> HttpSessions]
    /\ Worker \in [Requests -> Workers]
    /\ None \notin Requests

VARIABLES
    lock,       \* Redis: processing_lock:<h> -> owner
    inflight,   \* per worker: _inflight_owners[processing_lock:<h>] -> owner
    phase       \* where each request is in acquire / release

vars == <<lock, inflight, phase>>

Phases == {"idle", "reserved", "held", "over"}

TypeOK ==
    /\ lock \in [HttpSessions -> Requests \cup {None}]
    /\ inflight \in [Workers \X HttpSessions -> Requests \cup {None}]
    /\ phase \in [Requests -> Phases]

Slot(r) == <<Worker[r], Http[r]>>
Running(r) == phase[r] \in {"reserved", "held"}

Init ==
    /\ lock = [h \in HttpSessions |-> None]
    /\ inflight = [x \in Workers \X HttpSessions |-> None]
    /\ phase = [r \in Requests |-> "idle"]

-----------------------------------------------------------------------------
ReserveStoresKey(r) ==
    /\ phase[r] = "idle"
    /\ inflight[Slot(r)] = None
    /\ inflight' = [inflight EXCEPT ![Slot(r)] = Http[r]]
    /\ phase' = [phase EXCEPT ![r] = "reserved"]
    /\ UNCHANGED lock

(* mutant of ReserveInflightOwner *)
ReserveOverwrites(r) ==
    /\ phase[r] = "idle"
    /\ inflight' = [inflight EXCEPT ![Slot(r)] = r]
    /\ phase' = [phase EXCEPT ![r] = "reserved"]
    /\ UNCHANGED lock

(* _reserve_inflight_owner: the first entry for a key wins. *)
ReserveInflightOwner(r) ==
    /\ phase[r] = "idle"
    /\ inflight[Slot(r)] = None
    /\ inflight' = [inflight EXCEPT ![Slot(r)] = r]
    /\ phase' = [phase EXCEPT ![r] = "reserved"]
    /\ UNCHANGED lock

(* acquire_lock returns None before touching Redis: 409 to the client. *)
DeniedInflight(r) ==
    /\ phase[r] = "idle"
    /\ inflight[Slot(r)] # None
    /\ phase' = [phase EXCEPT ![r] = "over"]
    /\ UNCHANGED <<lock, inflight>>

(* _release_inflight_owner with an owner: pops only that owner's entry. *)
ReleaseInflightOwner(r) ==
    inflight' = [inflight EXCEPT ![Slot(r)] = IF @ = r THEN None ELSE @]

(* SET NX EX succeeds. *)
AcquireLock(r) ==
    /\ phase[r] = "reserved"
    /\ lock[Http[r]] = None
    /\ lock' = [lock EXCEPT ![Http[r]] = r]
    /\ phase' = [phase EXCEPT ![r] = "held"]
    /\ UNCHANGED inflight

(* mutant of AcquireLockFails *)
AcquireLockFailsWithoutFinally(r) ==
    /\ phase[r] = "reserved"
    /\ phase' = [phase EXCEPT ![r] = "over"]
    /\ UNCHANGED <<lock, inflight>>

(* SET NX EX finds another owner, or the call fails.  When the call fails  *)
(* Redis may have applied it all the same (the reply was lost): the key is *)
(* then left to its TTL.  The finally clause removes the entry.            *)
AcquireLockFails(r) ==
    /\ phase[r] = "reserved"
    /\ \/ UNCHANGED lock
       \/ lock[Http[r]] = None /\ lock' = [lock EXCEPT ![Http[r]] = r]
    /\ ReleaseInflightOwner(r)
    /\ phase' = [phase EXCEPT ![r] = "over"]

(* mutant of CompareDelete *)
DeleteWithoutCompare(r) ==
    lock' = [lock EXCEPT ![Http[r]] = None]

(* The compare-and-delete script of release_lock_if_owned. *)
CompareDelete(r) ==
    lock' = [lock EXCEPT ![Http[r]] = IF @ = r THEN None ELSE @]

(* release_lock_if_owned.  The script may fail; the entry is removed in    *)
(* the finally clause either way.                                          *)
ReleaseLockIfOwned(r) ==
    /\ phase[r] = "held"
    /\ CompareDelete(r) \/ UNCHANGED lock
    /\ ReleaseInflightOwner(r)
    /\ phase' = [phase EXCEPT ![r] = "over"]

-----------------------------------------------------------------------------
(* The TTL of the key passes. *)
LockExpires(h) ==
    /\ lock[h] # None
    /\ lock' = [lock EXCEPT ![h] = None]
    /\ UNCHANGED <<inflight, phase>>

(* _CLEAN_CANCELLED_STATE_SCRIPT deletes the key of the operation it       *)
(* cancels when that operation's owner token is still the stored value.    *)
RevokeLock(r) ==
    /\ phase[r] = "held"
    /\ CompareDelete(r)
    /\ UNCHANGED <<inflight, phase>>

(* A worker process dies: its dictionary and its requests are gone (those  *)
(* that have not reached the lock may be, too), the Redis keys stay until  *)
(* their TTL.                                                              *)
WorkerCrash(w) ==
    /\ inflight' = [x \in Workers \X HttpSessions |->
                        IF x[1] = w THEN None ELSE inflight[x]]
    /\ \E lost \in SUBSET {r \in Requests : Worker[r] = w} :
        /\ {r \in Requests : Worker[r] = w /\ Running(r)} \subseteq lost
        /\ phase' = [r \in Requests |-> IF r \in lost THEN "over" ELSE phase[r]]
    /\ UNCHANGED lock

Next ==
    \/ \E r \in Requests :
        \/ ReserveInflightOwner(r) \/ DeniedInflight(r)
        \/ AcquireLock(r) \/ AcquireLockFails(r)
        \/ ReleaseLockIfOwned(r) \/ RevokeLock(r)
    \/ \E h \in HttpSessions : LockExpires(h)
    \/ \E w \in Workers : WorkerCrash(w)

Spec == Init /\ [][Next]_vars

-----------------------------------------------------------------------------
(***************************************************************************)
(* Whatever happens to the Redis key (expiry, revocation by a session      *)
(* deletion, a lost reply), two requests of one HTTP session never run     *)
(* inside acquire/release at the same time in one worker process.          *)
(***************************************************************************)
WorkerExclusion ==
    \A r1, r2 \in Requests :
        Running(r1) /\ Running(r2) /\ Slot(r1) = Slot(r2) => r1 = r2

(***************************************************************************)
(* The dictionary never leaks: an entry belongs to a request of that very  *)
(* worker and session that is still between acquire and release.  A stale  *)
(* entry would answer 409 to the session until the process restarts, since *)
(* the dictionary has no TTL.                                              *)
(***************************************************************************)
NoInflightLeak ==
    \A x \in Workers \X HttpSessions :
        inflight[x] # None => Running(inflight[x]) /\ Slot(inflight[x]) = x

(***************************************************************************)
(* The lock changes hands only through a free key: no step overwrites an   *)
(* owner, and the release of one request leaves every lock another request *)
(* owns as it is (release_lock_if_owned, "prevents an operation from       *)
(* deleting another operation's lock").                                    *)
(***************************************************************************)
OwnerStep ==
    /\ \A h \in HttpSessions : lock[h] # None => lock'[h] \in {lock[h], None}
    /\ \A r \in Requests : \A h \in HttpSessions :
          phase[r] # "over" /\ phase'[r] = "over" /\ lock[h] \in Requests \ {r}
              => lock'[h] = lock[h]
OwnerSafety == [][OwnerStep]_vars
=============================================================================
