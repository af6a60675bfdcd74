-------------------------- MODULE MCProcessingLock --------------------------
(* Four requests of two HTTP sessions over two workers: two requests share *)
(* worker and session, one shares the session only, one the worker only.   *)
EXTENDS ProcessingLock, TLC

CONSTANTS r1, r2, r3, r4, h1, h2, w1, w2

MCHttp == r1 :> h1 @@ r2 :> h1 @@ r3 :> h1 @@ r4 :> h2
MCWorker == r1 :> w1 @@ r2 :> w1 @@ r3 :> w2 @@ r4 :> w1
=============================================================================
