----------------------------- MODULE MCExpertPool -----------------------------
(* Small pools for TLC: two layers, a decode pass and a prompt pass *)
EXTENDS ExpertPool, TLC

CONSTANTS l1, l2, x1, x2

TwoExperts == (x1 :> l1) @@ (x2 :> l2)
TwoSizes == ("decode" :> 1) @@ ("prompt" :> 2)
=============================================================================
