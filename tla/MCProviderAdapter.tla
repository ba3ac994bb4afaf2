---- MODULE MCProviderAdapter ----
(* Two packs that fit and one over the input limit; the budget pays for three calls of  *)
(* the small pack, so a retry and a later execution compete for what is left.            *)
EXTENDS ProviderAdapter, TLC
CONSTANTS e1, e2, i1, i2, p1, p2, big
MCInputUnits == p1 :> 1 @@ p2 :> 2 @@ big :> 3
====
