----------------------------- MODULE QueryLock -----------------------------
(***************************************************************************)
(* The query handlers use the processing lock as module ProcessingLock     *)
(* describes it: the phases of acquire and release, read off the steps of  *)
(* the handlers.                                                           *)
(***************************************************************************)
EXTENDS QueryLifecycle

(* Where a request is in acquire_lock / release_lock_if_owned. *)
LockPhase ==
    [r \in Requests |->
        IF Kind[r] \in {"accept", "delete"} \/ pc[r] \in {"start", "ready"} THEN "idle"
        ELSE IF pc[r] = "reserved" THEN "reserved"
        ELSE IF pc[r] \in {"done", "end", "crashed"} /\ inflight[Slot(r)] # r THEN "over"
        ELSE "held"]

Lock == INSTANCE ProcessingLock WITH phase <- LockPhase

(***************************************************************************)
(* Every step of the query handlers that touches the processing lock is a  *)
(* step of the lock protocol, so its theorems hold here.                   *)
(***************************************************************************)
ImplementsProcessingLock == Lock!Spec
=============================================================================
