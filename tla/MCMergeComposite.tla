------------------------- MODULE MCMergeComposite -------------------------
(* Instances of MergeComposite for TLC: a process n1 of two payments and a  *)
(* process n2 of one.  Either every payment has a file name of its own, or  *)
(* the two of n1 are twins: same client, same credits, so the same name.    *)
EXTENDS MergeComposite

CONSTANTS n1, n2, p1, p2, p3, c1, c2, m1, m2

OneProcess   == {n1}
TwoProcesses == {n1, n2}
OneMerge     == {m1}
TwoMerges    == {m1, m2}

AllPayments == {p1, p2, p3}
AllCredits  == {c1, c2}
AllBases    == {"file1", "file2", "file3"}

\* n1: payments p1 (two credits) and p2; n2: payment p3.
PaymentsOfBoth == [n \in {n1, n2} |-> IF n = n1 THEN <<p1, p2>> ELSE <<p3>>]
PaymentsOfOne  == [n \in {n1} |-> <<p1, p2>>]
Credits  == [p \in AllPayments |-> IF p = p1 THEN {c1, c2} ELSE {c2}]
OwnBase  == [p \in AllPayments |-> IF p = p1 THEN "file1"
                                   ELSE IF p = p2 THEN "file2" ELSE "file3"]

TwinCredits == [p \in AllPayments |-> IF p = p3 THEN {c1, c2} ELSE {c2}]
TwinBase    == [p \in AllPayments |-> IF p = p3 THEN "file3" ELSE "file1"]
=============================================================================
