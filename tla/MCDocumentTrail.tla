-------------------------- MODULE MCDocumentTrail --------------------------
(***************************************************************************)
(* A client with two folders and four extracts.                            *)
(***************************************************************************)
EXTENDS DocumentTrail

CONSTANTS f1, f2, cl, e1, e2, e3, e4

L(word, numbers, lead) ==
    [word |-> word, numbers |-> numbers, lead |-> lead, comma |-> FALSE, rest |-> 0]

Plain(rest) == [L("none", <<>>, 0) EXCEPT !.rest = rest]

MCFolders == <<f1, f2>>

Doc(file, form, day, credit, text) ==
    [file |-> file, name |-> [form |-> form, day |-> day, credit |-> credit], text |-> text]

T(kind, value) == [kind |-> kind, value |-> value]

\* The day of the disbursement stands before the due day, or behind a label
\* of its own.
MCAbout ==
    e1 :> Doc(1, "monthly", 10, 0, <<T("day", 25), T("vencimiento", 0), T("day", 10),
                                     T("total a pagar", 0), T("amount", 2)>>)
 @@ e2 :> Doc(2, "new", 20, 264, <<T("vencimiento", 0), T("day", 5),
                                   T("fecha limite de pago", 0), T("day", 20),
                                   T("total a pagar", 0), T("amount", 3)>>)
 @@ e3 :> Doc(3, "dated", 10, 0, <<T("fecha limite", 0), T("desembolso", 0), T("day", 30),
                                   T("fecha limite", 0), T("day", 10),
                                   T("obligacion", 0), T("number", 264),
                                   T("total a pagar", 0), T("amount", 4)>>)
 @@ e4 :> Doc(1, "monthly", 10, 0, <<T("fecha limite pago", 0), T("day", 20)>>)

I(paid, due) == [paid |-> paid, due |-> due, fee |-> TRUE]
Amortization(credit, rows) ==
    [kind |-> "tabla", credit |-> credit, client |-> FALSE, rows |-> rows]

\* f1 has one table, f2 two as good as each other, the client's own folder
\* a better and a worse one.
MCTables ==
    f1 :> <<Amortization(FALSE, <<I(TRUE, 5), I(FALSE, None), I(FALSE, 20), I(FALSE, 25)>>)>>
 @@ f2 :> <<Amortization(FALSE, <<>>), Amortization(FALSE, <<>>)>>
 @@ cl :> <<Amortization(TRUE, <<I(TRUE, 5)>>), Amortization(FALSE, <<>>)>>

ClientLabel == Plain(9)
Names(x, y) == f1 :> x @@ f2 :> y @@ cl :> ClientLabel

MCNameChoices ==
    {Names(L("credito", <<264>>, 0), L("credito #", <<265>>, 0)),
     Names(L("none", <<3, 264>>, 0), Plain(1)),
     Names(L("credito #", <<24, 3>>, 1), [L("obligacion", <<3>>, 0) EXCEPT !.comma = TRUE]),
     Names(Plain(1), L("infra", <<>>, 0)),
     Names(Number(264), Plain(1))}

Anywhere == {Nowhere, Own(f1), Inner(f1), Own(f2), Own(cl), Inner(cl)}

MCTreeChoices ==
    {t \in [Extracts -> Anywhere] :
        /\ t[e1] \in {Own(f1), Inner(f1), Inner(cl)}
        /\ t[e2] \in {Inner(f1), Own(f2), Own(cl)}
        /\ t[e3] \in {Nowhere, Own(f2)}
        /\ t[e4] \in {Nowhere, Inner(f1)}
        /\ t[e1] # t[e4]
        /\ t[e3] = Nowhere \/ (t[e4] = Nowhere /\ t[e2] # Own(cl))}

\* The second row has the day of the first; the third comes before the extracts.
MCRows == <<[day |-> 12, amount |-> 6], [day |-> 12, amount |-> 2], [day |-> 8, amount |-> 5]>>
=============================================================================
