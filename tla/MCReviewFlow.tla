---------------------------- MODULE MCReviewFlow ----------------------------
(***************************************************************************)
(* Three bank payments, of a client with two credits, of one with one, and *)
(* of one whose row cannot be read, and two contents the secretary may     *)
(* save.  The second does not add up where the second credit has an issue, *)
(* and takes the payment of the third credit from the incomplete ones to   *)
(* the advances.  One finalize of another process date comes in between.   *)
(***************************************************************************)
EXTENDS ReviewFlow

CONSTANTS b1, b2, b3, c1, c2, c3, other

MCAmount   == b1 :> 2 @@ b2 :> 1 @@ b3 :> 1
MCBankDate == b1 :> 1 @@ b2 :> 1 @@ b3 :> 1
MCLines    == <<<<b1, c1>>, <<b1, c2>>, <<b2, c3>>, <<b3, c3>>>>
MCFindings == <<b1, c1>> :> {2} @@ <<b1, c2>> :> {1, Issue} @@ <<b2, c3>> :> {0} @@
              <<b3, c3>> :> {0}
MCReadings == {{b1, b2}}

E(estado, validar, applied, note) ==
    [estado |-> estado, validar |-> validar, applied |-> applied, note |-> note]

Sheet(x, y, z) == <<b1, c1>> :> x @@ <<b1, c2>> :> y @@ <<b2, c3>> :> z @@
                  <<b3, c3>> :> z

MCSheets ==
    {Sheet(E("ADELANTADO", TRUE, 2, TRUE), E("NORMAL", FALSE, Blank, TRUE),
           E("INCOMPLETO", TRUE, 1, TRUE)),
     Sheet(E("ADELANTADO", TRUE, 1, TRUE), E("INCOMPLETO", TRUE, 1, FALSE),
           E("ADELANTADO", TRUE, 1, TRUE))}

MCPrepared == {[folders |-> {c1, c2}, books |-> Books]}

\* An incomplete payment of another date.
MCElsewhere == {[book |-> "INCOMPLETO",
                 row |-> [id |-> other, credit |-> c1, applied |-> Blank]]}

\* Runs differ by name only.
MCSymmetry == Permutations(Generates) \cup Permutations(Finalizes)
=============================================================================
