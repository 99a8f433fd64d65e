--------------------------- MODULE MCJobLifecycle ---------------------------
(* Instances of JobLifecycle for TLC; every constant is given in the cfg.   *)
EXTENDS JobLifecycle, TLC

CONSTANTS w1, w2

OneDelivery == {w1}
TwoDeliveries == {w1, w2}
Deliveries == Permutations(TwoDeliveries)
=============================================================================
