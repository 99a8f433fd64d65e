-------------------------- MODULE MCPaymentLocks --------------------------
(* An instance of PaymentLocks for TLC: a generate and a finalize request   *)
(* and a duplicate delivery of the first.                                   *)
EXTENDS PaymentLocks

CONSTANTS g1, f1, d1

TwoRequests  == {g1, f1}
OneGenerate  == {g1}
OneDuplicate == {d1}
OfFirst      == [d \in OneDuplicate |-> g1]

Leftovers == {NoLock, [there |-> TRUE, left |-> 0, granted |-> Ttl],
              Granted(LegacyTtl)}
=============================================================================
