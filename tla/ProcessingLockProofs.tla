------------------------ MODULE ProcessingLockProofs ------------------------
(***************************************************************************)
(* The processing lock for any number of requests, HTTP sessions and       *)
(* workers.  WorkerExclusion alone is not inductive: it needs to know that *)
(* a running request owns the entry of its slot (RunningOwnsEntry), and    *)
(* that in turn needs NoInflightLeak, for a crash empties all entries of a *)
(* worker and must not meet a running request of another one.              *)
(***************************************************************************)
EXTENDS ProcessingLock, TLAPS

(* A request between acquire and release owns the entry of its slot. *)
RunningOwnsEntry == \A r \in Requests : Running(r) => inflight[Slot(r)] = r

Inv == TypeOK /\ NoInflightLeak /\ RunningOwnsEntry

(* A slot is a key of _inflight_owners. *)
LEMMA SlotType == \A r \in Requests : Slot(r) \in Workers \X HttpSessions /\ Slot(r)[1] = Worker[r]
  BY RequestAssumption DEF Slot

(* No entry exists and no request runs at the start. *)
LEMMA InitInv == Init => Inv
  BY RequestAssumption, SlotType
     DEF Init, Inv, TypeOK, NoInflightLeak, RunningOwnsEntry, Running, Phases

(* _release_inflight_owner of a request that owns its entry empties it and *)
(* touches no other.                                                       *)
LEMMA ReleaseEntry ==
  ASSUME Inv, NEW r \in Requests, Running(r), ReleaseInflightOwner(r),
         phase' = [phase EXCEPT ![r] = "over"]
  PROVE  /\ NoInflightLeak' /\ RunningOwnsEntry'
         /\ inflight' \in [Workers \X HttpSessions -> Requests \cup {None}]
         /\ phase' \in [Requests -> Phases]
  <1>1. inflight' = [inflight EXCEPT ![Slot(r)] = None]
    BY Zenon, SlotType DEF ReleaseInflightOwner, Inv, RunningOwnsEntry
  <1> QED
    BY <1>1, SlotType, RequestAssumption
       DEF Inv, TypeOK, NoInflightLeak, RunningOwnsEntry, Running, Phases, Slot

(* A key is given to a request or emptied. *)
LEMMA KeyWritten ==
  ASSUME lock \in [HttpSessions -> Requests \cup {None}],
         NEW h \in HttpSessions, NEW v \in Requests \cup {None}
  PROVE  [lock EXCEPT ![h] = v] \in [HttpSessions -> Requests \cup {None}]
  OBVIOUS

(* Every step of the protocol preserves the inductive invariant. *)
LEMMA NextInv == Inv /\ [Next]_vars => Inv'
  <1> SUFFICES ASSUME Inv, [Next]_vars PROVE Inv'
    OBVIOUS
  <1> USE SlotType, RequestAssumption DEF Inv, TypeOK, Phases
  <1>1. ASSUME NEW r \in Requests, ReserveInflightOwner(r) PROVE Inv'
    BY <1>1 DEF ReserveInflightOwner, NoInflightLeak, RunningOwnsEntry, Running, Slot
  <1>2. ASSUME NEW r \in Requests, DeniedInflight(r) PROVE Inv'
    BY <1>2 DEF DeniedInflight, NoInflightLeak, RunningOwnsEntry, Running, Slot
  <1>3. ASSUME NEW r \in Requests, AcquireLock(r) PROVE Inv'
    BY <1>3 DEF AcquireLock, NoInflightLeak, RunningOwnsEntry, Running, Slot
  <1>4. ASSUME NEW r \in Requests, AcquireLockFails(r) PROVE Inv'
    <2>1. lock' \in [HttpSessions -> Requests \cup {None}]
      <3>1. Http[r] \in HttpSessions
        OBVIOUS
      <3>2. CASE UNCHANGED lock
        BY <3>2
      <3>3. CASE lock' = [lock EXCEPT ![Http[r]] = r]
        BY <3>1, <3>3, KeyWritten
      <3> QED
        BY <1>4, <3>2, <3>3 DEF AcquireLockFails
    <2> QED
      BY Zenon, <1>4, <2>1, ReleaseEntry DEF AcquireLockFails, Running
  <1>5. ASSUME NEW r \in Requests, ReleaseLockIfOwned(r) PROVE Inv'
    <2>1. lock' \in [HttpSessions -> Requests \cup {None}]
      <3>1. Http[r] \in HttpSessions /\ lock[Http[r]] \in Requests \cup {None}
        OBVIOUS
      <3>2. CASE UNCHANGED lock
        BY <3>2
      <3>3. CASE CompareDelete(r)
        BY <3>1, <3>3, KeyWritten DEF CompareDelete
      <3> QED
        BY <1>5, <3>2, <3>3 DEF ReleaseLockIfOwned
    <2> QED
      BY Zenon, <1>5, <2>1, ReleaseEntry DEF ReleaseLockIfOwned, Running
  <1>6. ASSUME NEW r \in Requests, RevokeLock(r) PROVE Inv'
    BY <1>6 DEF RevokeLock, CompareDelete, NoInflightLeak, RunningOwnsEntry, Running, Slot
  <1>7. ASSUME NEW h \in HttpSessions, LockExpires(h) PROVE Inv'
    BY <1>7 DEF LockExpires, NoInflightLeak, RunningOwnsEntry, Running, Slot
  <1>8. ASSUME NEW w \in Workers, WorkerCrash(w) PROVE Inv'
    <2>1. PICK lost \in SUBSET {r \in Requests : Worker[r] = w} :
            /\ {r \in Requests : Worker[r] = w /\ Running(r)} \subseteq lost
            /\ phase' = [r \in Requests |-> IF r \in lost THEN "over" ELSE phase[r]]
      BY Zenon, <1>8 DEF WorkerCrash
    <2>2. \A r \in Requests : Running(r)' => Running(r) /\ Worker[r] # w
      BY <2>1 DEF Running
    <2>3. \A r \in Requests : Running(r) /\ Worker[r] # w => Running(r)'
      BY <2>1 DEF Running
    <2>4. TypeOK'
      BY <1>8, <2>1 DEF WorkerCrash
    <2>5. RunningOwnsEntry'
      BY <1>8, <2>2 DEF WorkerCrash, RunningOwnsEntry, Slot
    <2>6. NoInflightLeak'
      BY <1>8, <2>3 DEF WorkerCrash, NoInflightLeak, Slot
    <2> QED
      BY <2>4, <2>5, <2>6
  <1>9. CASE UNCHANGED vars
    BY <1>9 DEF vars, NoInflightLeak, RunningOwnsEntry, Running, Slot
  <1> QED
    BY Zenon, <1>1, <1>2, <1>3, <1>4, <1>5, <1>6, <1>7, <1>8, <1>9 DEF Next

(* The inductive invariant holds in every reachable state. *)
THEOREM Invariance == Spec => []Inv
  BY InitInv, NextInv, PTL DEF Spec

(* acquire_lock and release_lock_if_owned keep their state well typed. *)
THEOREM TypeCorrect == Spec => []TypeOK
  BY Invariance, PTL DEF Inv

(* _inflight_owners never keeps an entry of a request that is over. *)
THEOREM NoLeak == Spec => []NoInflightLeak
  BY Invariance, PTL DEF Inv

(* Within one worker two requests of one HTTP session never run together,  *)
(* whatever happens to the Redis key.                                      *)
THEOREM Exclusion == Spec => []WorkerExclusion
  <1>1. Inv => WorkerExclusion
    BY DEF Inv, RunningOwnsEntry, WorkerExclusion
  <1> QED
    BY <1>1, Invariance, PTL

(* No step of acquire_lock, release_lock_if_owned, the cleanup script, a   *)
(* TTL or a crash takes a lock from its owner and gives it to another, and *)
(* a request that ends leaves the locks of the others alone.               *)
THEOREM OwnersAreSafe == Spec => OwnerSafety
  <1>1. Inv /\ [Next]_vars => [OwnerStep]_vars
    <2> SUFFICES ASSUME Inv, Next PROVE OwnerStep
      OBVIOUS
    <2> USE RequestAssumption DEF Inv, TypeOK, OwnerStep, CompareDelete
    <2>1. ASSUME NEW r \in Requests,
                 ReserveInflightOwner(r) \/ DeniedInflight(r) \/ AcquireLock(r)
                     \/ AcquireLockFails(r)
          PROVE  OwnerStep
      BY <2>1 DEF ReserveInflightOwner, DeniedInflight, AcquireLock, AcquireLockFails
    <2>2. ASSUME NEW r \in Requests, ReleaseLockIfOwned(r) \/ RevokeLock(r)
          PROVE  OwnerStep
      BY <2>2 DEF ReleaseLockIfOwned, RevokeLock
    <2>3. ASSUME NEW h \in HttpSessions, LockExpires(h) PROVE OwnerStep
      BY <2>3 DEF LockExpires
    <2>4. ASSUME NEW w \in Workers, WorkerCrash(w) PROVE OwnerStep
      BY <2>4 DEF WorkerCrash
    <2> QED
      BY <2>1, <2>2, <2>3, <2>4 DEF Next
  <1> QED
    BY <1>1, Invariance, PTL DEF Spec, OwnerSafety
=============================================================================
