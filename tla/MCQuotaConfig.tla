---------------------------- MODULE MCQuotaConfig ----------------------------
(* Instances of QuotaConfig for TLC. *)
EXTENDS QuotaConfig, TLC

CONSTANTS a1, a2, a3, r1, r2

(* two different limits and a deletion *)
Three == (a1 :> 1) @@ (a2 :> 2) @@ (a3 :> NoRow)
Two == (a1 :> 1) @@ (a2 :> 2)
One == a1 :> 1
=============================================================================
