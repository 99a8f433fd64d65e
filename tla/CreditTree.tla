----------------------------- MODULE CreditTree -----------------------------
(***************************************************************************)
(* The folder of one client in SharePoint, and the rules by which the use  *)
(* cases read it.  A unit of credit is a folder of the client, or the      *)
(* client's folder itself; its extracts lie in the unit or in EXTRACTOS    *)
(* under it, which the endpoint of the folders creates in every folder of  *)
(* the client; the client's own folder may have one too.                   *)
(*                                                                         *)
(* A label is a folder's name or the text of column Credito, reduced to    *)
(* what the rules tell apart: the word in it, its numbers in their order,  *)
(* how many of them stand before the word, whether it has a comma, and a   *)
(* number for the rest of the text.                                        *)
(* Every document is an extract: a PDF with that word in its file name.    *)
(***************************************************************************)
EXTENDS ExtractText

CONSTANTS
    Nowhere,      \* of an extract that is not in the tree
    Folders,      \* the folders of the client, in the order Graph lists them
    Client,       \* the client's own folder
    Extracts,     \* the extracts that are, or may come to be, in the tree
    About,        \* the file name and the text of each
    Tables,       \* the workbooks of each unit
    NameChoices,  \* the names the folders may have
    TreeChoices,  \* where the extracts may be at first
    MaxMoves      \* bound on what accounting moves, adds or deletes, and on the
                  \* calls that fail and are passed over

Units  == Range(Folders) \cup {Client}
Places == [unit : Units, inner : BOOLEAN]
Paths  == [at : Places, file : Nat]
Words  == {"credito", "credito #", "obligacion", "#", "none", "infra"}
Label  == [word : Words, numbers : Seq(Nat), lead : Nat, comma : BOOLEAN,
           rest : Nat]

\* file is the rank of the file name in alphabetical order.
Facts == [file : Nat, name : FileName, text : Text]

\* rows are the installments, due None if the cell has no day; fee: it has one.
Installment == [paid : BOOLEAN, due : Nat \cup {None}, fee : BOOLEAN]
Workbook == [kind : {"tabla", "modelo", "other"}, credit : BOOLEAN, client : BOOLEAN,
             rows : Seq(Installment)]

ASSUME TreeAssumption ==
    /\ Folders \in Seq(Range(Folders)) /\ IsInjective(Folders) /\ Client \notin Range(Folders)
    /\ IsFiniteSet(Extracts) /\ About \in [Extracts -> Facts]
    /\ \A x, y \in Extracts : About[x].file = About[y].file => About[x].name = About[y].name
    /\ Nowhere \notin Places
    /\ None \notin Paths
    /\ NameChoices \subseteq [Units -> Label]
    /\ TreeChoices \subseteq [Extracts -> Places \cup {Nowhere}]
    /\ \A t \in TreeChoices : \A x, y \in Extracts :   \* one file of a name in a folder
          t[x] = t[y] /\ t[x] # Nowhere /\ About[x].file = About[y].file => x = y
    /\ MaxMoves \in Nat

VARIABLES
    name,    \* the label of every unit
    tree,    \* where every extract is
    moves    \* history: how often accounting has touched the tree

treeVars == <<name, tree, moves>>

InitTree == name \in NameChoices /\ tree \in TreeChoices /\ moves = 0

\* Accounting moves an extract, uploads it or deletes it.
Move ==
    /\ moves < MaxMoves
    /\ \E e \in Extracts, p \in Places \cup {Nowhere} :
         /\ p # tree[e]
         /\ \A x \in Extracts : tree[x] = p => p = Nowhere \/ About[x].file # About[e].file
         /\ tree' = [tree EXCEPT ![e] = p]
    /\ moves' = moves + 1
    /\ UNCHANGED name

Own(u)   == [unit |-> u, inner |-> FALSE]
Inner(u) == [unit |-> u, inner |-> TRUE]
DocsAt(p)  == {e \in Extracts : tree[e] = p}
FilesAt(p) == {About[e].file : e \in DocsAt(p)}
Has(path)   == path.file \in FilesAt(path.at)
DocAt(path) == CHOOSE e \in DocsAt(path.at) : About[e].file = path.file

\* The elements of s at the places I, in their order.
Picked(s, I) ==
    [k \in 1 .. Cardinality(I) |-> s[CHOOSE i \in I : Cardinality({j \in I : j <= i}) = k]]

Distance(a, b)      == IF a < b THEN b - a ELSE a - b
FirstOf(a, b)       == IF a # None THEN a ELSE b
Number(n) == [word |-> "none", numbers |-> <<n>>, lead |-> 0, comma |-> FALSE, rest |-> 0]

(***************************************************************************)
(* The number of the credit in a label.  Generate and the merge take the   *)
(* first number unless "credito" or "credito#" stands right before one;    *)
(* finalize also knows "credito #" and "obligacion", and takes the last    *)
(* number where no word helps; the merge reads a folder of the extract's   *)
(* path only when its name begins with the word.                           *)
(***************************************************************************)
AfterWord(l) ==
    IF l.word \in {"credito", "credito #", "obligacion"} /\ l.lead < Len(l.numbers)
    THEN l.numbers[l.lead + 1] ELSE None

Digits(l) ==
    IF l.word = "credito" /\ AfterWord(l) # None THEN AfterWord(l)
    ELSE IF l.numbers = <<>> THEN None ELSE Head(l.numbers)

MatchNumber(l) ==
    FirstOf(AfterWord(l), IF l.numbers = <<>> THEN None ELSE Last(l.numbers))

SegmentNumber(l) ==
    IF l.word \in {"credito", "credito #"} /\ l.lead = 0 /\ Len(l.numbers) = 1
    THEN Head(l.numbers) ELSE None

Standard(l) ==
    \/ l.word \in {"credito", "credito #", "obligacion", "#"}
    \/ \E n \in Range(l.numbers) : n >= 100

\* The table of amortization of a unit: the one workbook with the best score.
Score(t) ==
    LET kind == IF t.kind = "tabla" THEN 10 ELSE IF t.kind = "modelo" THEN 5 ELSE 0
    IN IF kind = 0 THEN 0
       ELSE kind + (IF t.credit THEN 5 ELSE 0) + (IF t.client THEN 3 ELSE 0)

BestTables(u) ==
    {i \in DOMAIN Tables[u] :
        /\ Score(Tables[u][i]) > 0
        /\ \A j \in DOMAIN Tables[u] : Score(Tables[u][j]) <= Score(Tables[u][i])}

HasTable(u) == Cardinality(BestTables(u)) = 1

\* The due day of the first installment nobody has paid.
Pending(u) ==
    LET rows == Tables[u][CHOOSE i \in BestTables(u) : TRUE].rows
        open == {i \in DOMAIN rows : ~rows[i].paid /\ rows[i].due # None /\ rows[i].fee}
    IN IF open = {} THEN None ELSE rows[SmallestOf(open)].due

\* A folder with another name is a unit when it holds an extract or a table.
OperationalSignal(u) ==
    FilesAt(Own(u)) # {} \/ HasTable(u) \/ FilesAt(Inner(u)) # {}

\* Mutation of ExtractPool: EXTRACTOS only when the folder has no extract.
ExtractPoolOwnFirst(u, listed) ==
    IF listed # {} THEN [at |-> Own(u), files |-> listed]
    ELSE [at |-> Inner(u), files |-> FilesAt(Inner(u))]

(***************************************************************************)
(* Generate's choice: the extracts of EXTRACTOS if there are any, else     *)
(* those the listing of the unit had, and of these the one with the latest *)
(* due day in its text.  A file that is gone or whose download fails is    *)
(* skipped as an unreadable one is: lost are those of the pool.            *)
(***************************************************************************)
ExtractPool(u, listed) ==
    IF FilesAt(Inner(u)) # {} THEN [at |-> Inner(u), files |-> FilesAt(Inner(u))]
    ELSE [at |-> Own(u), files |-> listed]

PathIn(pool, f) == [at |-> pool.at, file |-> f]
Due(path)       == IF Has(path) THEN DueDay(About[DocAt(path)].text) ELSE None
Readable(pool)  == {f \in pool.files : Due(PathIn(pool, f)) # None}

MaxDue(pool) ==
    {f \in Readable(pool) :
        \A g \in Readable(pool) : Due(PathIn(pool, g)) <= Due(PathIn(pool, f))}

Got(pool, lost) == [pool EXCEPT !.files = @ \ lost]
Newest(pool)    == PathIn(pool, CHOOSE f \in MaxDue(pool) : TRUE)

Selection(pool, lost) ==
    LET got == Got(pool, lost)
    IN IF pool.files = {} THEN "extract_not_found"
       ELSE IF Readable(got) = {} THEN "fecha_limite_extracto_not_readable"
       ELSE IF Cardinality(MaxDue(got)) > 1 THEN "extract_tie_max_fecha_limite"
       ELSE IF TotalToPay(About[DocAt(Newest(got))].text) = None
       THEN "extract_amount_not_found"
       ELSE "selected"

(***************************************************************************)
(* The choice with GENERATE_EXTRACT_SELECTION_V2 off: by the file names    *)
(* alone, of the files the listing of the unit had.  First the one with    *)
(* the folder's name for a credit and the pending day, then the first with *)
(* either, then the first.                                                 *)
(***************************************************************************)
StatementItem(u, files) ==
    LET InName(e) == About[e].name
        Named(f)  == {e \in Extracts : About[e].file = f}
        Credit(f) == \E e \in Named(f) : name[u] = Number(StatementCredit(InName(e)))
        Day(f)    == \E e \in Named(f) : StatementDay(InName(e)) = Pending(u)
        both      == {f \in files : Credit(f) /\ Day(f)}
        either    == {f \in files : Credit(f) \/ Day(f)}
    IN SmallestOf(IF both # {} THEN both ELSE IF either # {} THEN either ELSE files)

\* Mutation of CreditId: nothing to fall back on.
CreditIdTold(u, e) ==
    IF Standard(name[u]) THEN name[u]
    ELSE Number(FirstOf(CreditIn(About[e].text), StatementCredit(About[e].name)))

\* Column Credito: the folder's name, or for the client's own folder and a
\* folder with another name what the extract says of it.
CreditId(u, e) ==
    LET told == FirstOf(CreditIn(About[e].text), StatementCredit(About[e].name))
    IN IF (u = Client \/ ~Standard(name[u])) /\ told # None THEN Number(told) ELSE name[u]

CreditKey(l) == IF Digits(l) # None THEN Number(Digits(l)) ELSE l

(***************************************************************************)
(* Finalize's search for an extract whose path the line does not give: the *)
(* folder by its name, else the only folder with the credit's number in    *)
(* its name; there EXTRACTOS first, then the folder, and in each the file  *)
(* the link names, else the one dated nearest to the bank's day.  A        *)
(* listing that fails counts as empty: with missed TRUE it is the folder's *)
(* for EXTRACTOS, or that of EXTRACTOS.                                    *)
(***************************************************************************)
CreditFolders(l) ==
    LET exact == {f \in Range(Folders) : name[f] = l}
    IN IF exact # {} THEN exact
       ELSE IF MatchNumber(l) = None THEN {}
       ELSE {f \in Range(Folders) : MatchNumber(l) \in Range(name[f].numbers)}

\* Mutation of PickExtract: the link's name is not looked for.
PickExtractNearest(p, day, hint) ==
    LET Far(f) == LET d == DayInName(About[DocAt([at |-> p, file |-> f])].name)
                  IN IF d = None THEN 1000 ELSE Distance(d, day)
    IN IF FilesAt(p) = {} THEN None
       ELSE CHOOSE f \in FilesAt(p) : \A g \in FilesAt(p) : Far(f) <= Far(g)

PickExtract(p, day, hint) ==
    LET Day(f) == DayInName(About[DocAt([at |-> p, file |-> f])].name)
        Nearer(f, g) == \/ Day(g) = None /\ Day(f) # None
                        \/ /\ Day(g) = None /\ Day(f) = None /\ f < g
                        \/ /\ Day(g) # None /\ Day(f) # None
                           /\ \/ Distance(Day(f), day) < Distance(Day(g), day)
                              \/ Distance(Day(f), day) = Distance(Day(g), day) /\ f < g
    IN IF FilesAt(p) = {} THEN None
       ELSE IF hint \in FilesAt(p) THEN hint
       ELSE CHOOSE f \in FilesAt(p) : \A g \in FilesAt(p) \ {f} : Nearer(f, g)

RouteByFolder(l, day, hint, missed) ==
    IF Cardinality(CreditFolders(l)) # 1 THEN None
    ELSE LET u     == CHOOSE f \in CreditFolders(l) : TRUE
             inner == IF missed THEN None ELSE PickExtract(Inner(u), day, hint)
             own   == PickExtract(Own(u), day, hint)
         IN IF inner # None THEN [at |-> Inner(u), file |-> inner]
            ELSE IF own # None THEN [at |-> Own(u), file |-> own]
            ELSE None

\* The notification and the merge split column Ruta at every comma.
RutaPaths(path) ==
    {p \in {path} : Has(p) /\ ~name[Client].comma /\ ~name[p.at.unit].comma}

\* Mutation of RowNumber: column Credito is not asked.
RowNumberOfPath(l, path) ==
    FirstOf(SegmentNumber(name[path.at.unit]), SegmentNumber(name[Client]))

\* The number the merge expects in the names of a line's asientos.
RowNumber(l, path) ==
    FirstOf(Digits(l), FirstOf(SegmentNumber(name[path.at.unit]), SegmentNumber(name[Client])))
=============================================================================
