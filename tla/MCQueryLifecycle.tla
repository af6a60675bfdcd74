-------------------------- MODULE MCQueryLifecycle --------------------------
(* Workloads for QueryLifecycle.  Each gives every request a kind, an HTTP *)
(* session, a worker and, for submits and deletions, a chat session.       *)
EXTENDS QueryLock, TLC

CONSTANTS q1, q2, q3, q4, h1, h2, w1, w2, s1, s2

(* One browser session submits twice, through two workers: to a chat       *)
(* session that is deleted meanwhile and to a new one.                     *)
CancelKind == q1 :> "submit" @@ q2 :> "submit" @@ q3 :> "delete"
CancelHttp == q1 :> h1 @@ q2 :> h1 @@ q3 :> h1
CancelWorker == q1 :> w1 @@ q2 :> w2 @@ q3 :> w1
CancelTarget == q1 :> s1 @@ q2 :> s2 @@ q3 :> s1

(* An answer is regenerated while it is accepted from a second tab and its *)
(* chat session is deleted.                                                *)
RetryKind == q1 :> "submit" @@ q2 :> "regenerate" @@ q3 :> "accept" @@ q4 :> "delete"
RetryHttp == q1 :> h1 @@ q2 :> h1 @@ q3 :> h1 @@ q4 :> h1
RetryWorker == q1 :> w1 @@ q2 :> w1 @@ q3 :> w2 @@ q4 :> w1
RetryTarget == q1 :> s1 @@ q2 :> s1 @@ q3 :> s1 @@ q4 :> s1

(* One chat session is used from two browser sessions. *)
SharedKind == q1 :> "submit" @@ q2 :> "reject" @@ q3 :> "submit"
SharedHttp == q1 :> h1 @@ q2 :> h1 @@ q3 :> h2
SharedWorker == q1 :> w1 @@ q2 :> w1 @@ q3 :> w2
SharedTarget == q1 :> s1 @@ q2 :> s1 @@ q3 :> s1

(* A chat session is deleted and its answer accepted, by workers that may  *)
(* die.                                                                    *)
RecoveryKind == q1 :> "submit" @@ q2 :> "delete" @@ q3 :> "accept"
RecoveryHttp == q1 :> h1 @@ q2 :> h1 @@ q3 :> h1
RecoveryWorker == q1 :> w1 @@ q2 :> w2 @@ q3 :> w1
RecoveryTarget == q1 :> s1 @@ q2 :> s1 @@ q3 :> s1
=============================================================================
