-------------------------- MODULE MCAmortization --------------------------
(* An instance of AmortizationApply for TLC: two asientos of one table that *)
(* share the payment date; the merge's first manifest has only e1.          *)
EXTENDS AmortizationApply, TLC

CONSTANTS e1, e2, t1, v1, v2, a1, a2

BothEvents == {e1, e2}
OneTable   == {t1}
TableMap   == [e \in BothEvents |-> t1]
DueRow     == [e \in BothEvents |-> 1]
TwoPrints  == {v1, v2}

\* A new version of e1 has another amount; the date is one mark of all.
Contents ==
    [e \in BothEvents |-> [p \in TwoPrints |->
        {"date", IF e = e2 THEN "y" ELSE IF p = v1 THEN "x1" ELSE "x2"}]]
ReadBack == {"date"}

PartialThenAll == {<<e1>>, <<e1, e2>>}
TwoRuns   == {a1, a2}
EitherRun == Permutations(TwoRuns)

\* Only the date, or an amount of another payment.
Typed == {{"date"}, {"q"}}
=============================================================================
