---------------------------- MODULE ExtractText ----------------------------
(***************************************************************************)
(* What the use cases read in an extract: the due day, the number of the   *)
(* obligation and TOTAL A PAGAR in its text, the day and the credit in its *)
(* file name.  A text is the sequence of the labels and the days, numbers  *)
(* and amounts in it; a PDF without text is the empty sequence.  A file    *)
(* name has one of the forms below; "other" has neither day nor credit.    *)
(***************************************************************************)
EXTENDS Integers, Sequences, FiniteSets, SequencesExt

CONSTANTS
    None,
    Window    \* tokens that fit into the 120 characters after a label

DueLabels    == <<"fecha limite de pago", "fecha limite pago",
                  "fecha de vencimiento", "vencimiento">>
CreditLabels == <<"obligacion #", "obligacion", "no obligacion code", "obligacion code">>
OtherLabels  == {"fecha limite", "desembolso", "total a pagar"}
Labels == Range(DueLabels) \cup Range(CreditLabels) \cup OtherLabels

\* kind is a label, or says what the value is.
Token == [kind : Labels \cup {"day", "number", "amount"}, value : Nat]
Text  == Seq(Token)

\* "new": Extracto YYYY-MM-DD CREDITO # n; "old": Extracto mes DD-MM-YYYY
\* Obligacion # n; "dated": ends with YYYY-MM-DD; "monthly": with YYYY-MM.
Forms    == {"new", "old", "dated", "monthly", "other"}
FileName == [form : Forms, day : Nat, credit : Nat]

ASSUME ExtractAssumption == None \notin Nat /\ Window \in Nat \ {0}

SmallestOf(S) == CHOOSE x \in S : \A y \in S : x <= y

\* The first value of a kind among the n tokens after place i.
ValueAfter(text, i, n, kind) ==
    LET places == {j \in i + 1 .. i + n : j <= Len(text) /\ text[j].kind = kind}
    IN IF places = {} THEN None ELSE text[SmallestOf(places)].value

\* The value after the first label of that name that has one.
ValueAt(text, label, n, kind) ==
    LET places == {i \in DOMAIN text : /\ text[i].kind = label
                                       /\ ValueAfter(text, i, n, kind) # None}
    IN IF places = {} THEN None ELSE ValueAfter(text, SmallestOf(places), n, kind)

\* The labels are tried in their order.
FirstLabelled(text, labels, n, kind) ==
    LET hits == {l \in DOMAIN labels : ValueAt(text, labels[l], n, kind) # None}
    IN IF hits = {} THEN None ELSE ValueAt(text, labels[SmallestOf(hits)], n, kind)

\* Without such a label the day after another "fecha limite" counts, unless
\* the disbursement is named right behind it.
LooseDay(text) ==
    LET places == {i \in DOMAIN text :
                      /\ text[i].kind = "fecha limite"
                      /\ ~(i < Len(text) /\ text[i + 1].kind = "desembolso")
                      /\ ValueAfter(text, i, 1, "day") # None}
    IN IF places = {} THEN None ELSE ValueAfter(text, SmallestOf(places), 1, "day")

DueDay(text) ==
    IF FirstLabelled(text, DueLabels, Window, "day") # None
    THEN FirstLabelled(text, DueLabels, Window, "day") ELSE LooseDay(text)

CreditIn(text)   == FirstLabelled(text, CreditLabels, 1, "number")
TotalToPay(text) == ValueAt(text, "total a pagar", 1, "amount")

\* What generate reads in the file name.
StatementCredit(n) == IF n.form \in {"new", "old"} THEN n.credit ELSE None
StatementDay(n)    == IF n.form \in {"new", "old"} THEN n.day ELSE None

\* The report knows only a date at the end of the name, finalize also takes
\* an ISO date inside it.
DayAtEnd(n) == IF n.form \in {"dated", "monthly"} THEN n.day ELSE None
DayInName(n) == IF n.form \in {"dated", "monthly", "new"} THEN n.day ELSE None
=============================================================================
