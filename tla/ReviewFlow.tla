----------------------------- MODULE ReviewFlow -----------------------------
(***************************************************************************)
(* One process date of payment validation: generate puts the review        *)
(* workbook into 01 REVISION, the secretary fills it in, approves it and   *)
(* archives it, and finalize publishes it as the historical workbook and   *)
(* the accounting support, after it has registered the advance and the     *)
(* incomplete payments in the workbooks of their follow-up.                *)
(*                                                                         *)
(* A line is a bank row and a credit of its client.  Generate gives every  *)
(* bank row a fresh ID Pago, so a payment is <<generate run, bank row>>.   *)
(* The three amounts of a line are one: their sum.                         *)
(***************************************************************************)
EXTENDS Sequences, FiniteSets, SequencesExt, JobSeverity

CONSTANTS
    None,         \* no file, and the sheet nobody has filled in
    BankRows,     \* the payments of the bank's report
    Amount,       \* the amount of each
    BankDate,     \* the day of each
    Credits,      \* units of credit: the folders of a client
    Lines,        \* sequence of <<bank row, credit>>, in the sheet's order
    Findings,     \* per line, what the extract may give: a due day or Issue
    Readings,     \* the bank rows that can be read and have a client: a set of
                  \* such sets
    Issue,        \* no extract, two with the same date, no amount in it...
    Sheets,       \* the contents the secretary may save: [lines -> Entry]
    Blank,        \* an empty amount
    Prepared,     \* what SharePoint may hold at first: the credits that have
                  \* their folder, the follow-up workbooks that were created
    Generates,    \* generate runs
    Finalizes,    \* finalize runs
    Elsewhere     \* what finalizes of other process dates register in the same
                  \* follow-up workbooks: [book, row], a row of Pendientes each

LineSet == Range(Lines)
Estados == {"ADELANTADO", "ATRASADO", "INCOMPLETO", "NORMAL", "REVISION_MANUAL"}
Books   == {"ADELANTADO", "INCOMPLETO"}
Entry   == [estado : Estados, validar : BOOLEAN, applied : Nat \cup {Blank},
            note : BOOLEAN]

Ids == Generates \X BankRows
Pendiente == [id : Ids, credit : Credits, applied : Nat \cup {Blank}]
                 \cup {e.row : e \in Elsewhere}

ASSUME FlowAssumption ==
    /\ Lines \in Seq(BankRows \X Credits)
    /\ IsInjective(Lines)
    /\ Amount \in [BankRows -> Nat \ {0}]
    /\ BankDate \in [BankRows -> Nat]
    /\ Findings \in [LineSet -> SUBSET (Nat \cup {Issue})]
    /\ Readings \subseteq SUBSET BankRows
    /\ Sheets \subseteq [LineSet -> Entry]
    /\ Prepared \subseteq [folders : SUBSET Credits, books : SUBSET Books]
    /\ Blank \notin Nat
    /\ Issue \notin Nat
    /\ None \notin Entry \cup Seq(Pendiente)
    /\ Elsewhere \cap Finalizes = {}
    /\ \A e \in Elsewhere : e.book \in Books /\ e.row.id \notin Ids

VARIABLES
    review,    \* the workbook in 01 REVISION
    history,   \* cartera_validada_{date}.xlsx: the review it was made from
    support,   \* soporte_asientos_contables_{date}.xlsx: its lines
    pend,      \* sheet Pendientes per follow-up workbook; None: no workbook
    folders,   \* the credits that have their folder of asientos
    gpc, built,              \* per generate run: control, the new workbook
    fpc, snap, at,           \* per finalize run: control, the workbook it
                             \* read, the line whose folder is in turn
    book, copy, warned,      \* the follow-up in turn, its copy, the warnings
    existed,                 \* whether it found a history of that date
    exclusive, \* TRUE: one run at a time; FALSE: finalizes may overlap, as
               \* the job queue cannot exclude, and nobody edits meanwhile
    last,      \* history: the last run that put the historical workbook
    replaced,  \* history: the runs that put it over an earlier one
    blamed,    \* history: runs with a reason to fail
    epc, away, \* per finalize of another date: control, the copy of its
               \* follow-up workbook
    overtaken, \* history: the runs whose copy of a follow-up workbook lacks rows
               \* that a run of another date has put since
    crossed    \* history: the follow-up workbooks such a run has put its copy in

files == <<review, history, support, pend, folders>>
mine  == <<snap, at, book, copy, warned, existed>>
ghost == <<last, replaced, blamed>>
dates == <<epc, away, overtaken, crossed>>
vars  == <<files, gpc, built, fpc, mine, exclusive, ghost, dates>>

\* A review workbook: Control, Casos_Pago, Errores and Distribucion.  It is
\* approved with Procesar = SI while Estado is still EN_REVISION.
Review == [by : Generates, approved : BOOLEAN,
           cases : SUBSET BankRows, errors : SUBSET BankRows,
           sheet : [LineSet -> Entry \cup {None}]]

GLabels == {"idle", "build", "put", "done", "failed"}
FActive == {"folder", "post", "routes", "exists", "get", "put", "history", "support"}
FLabels == FActive \cup {"idle", "success", "failed"}

TypeOK ==
    /\ review \in Review \cup {None}
    /\ history \in Review \cup {None}
    /\ support \subseteq LineSet
    /\ pend \in [Books -> Seq(Pendiente) \cup {None}]
    /\ folders \subseteq Credits
    /\ gpc \in [Generates -> GLabels]
    /\ built \in [Generates -> Review \cup {None}]
    /\ fpc \in [Finalizes -> FLabels]
    /\ snap \in [Finalizes -> Review \cup {None}]
    /\ at \in [Finalizes -> 1 .. Len(Lines) + 1]
    /\ book \in [Finalizes -> Books]
    /\ copy \in [Finalizes -> Seq(Pendiente)]
    /\ warned \in [Finalizes -> SUBSET Books]
    /\ existed \in [Finalizes -> BOOLEAN]
    /\ exclusive \in BOOLEAN
    /\ last \in Finalizes \cup {None}
    /\ replaced \subseteq Finalizes
    /\ blamed \subseteq Finalizes
    /\ epc \in [Elsewhere -> {"get", "put", "done"}]
    /\ away \in [Elsewhere -> Seq(Pendiente)]
    /\ overtaken \subseteq Finalizes \cup Elsewhere
    /\ crossed \subseteq Books

\* The follow-up workbooks are created by hand, or were forgotten.
Init ==
    /\ review = None /\ history = None /\ support = {}
    /\ \E p \in Prepared :
         /\ pend = [bk \in Books |-> IF bk \in p.books THEN <<>> ELSE None]
         /\ folders = p.folders
    /\ gpc = [g \in Generates |-> "idle"] /\ built = [g \in Generates |-> None]
    /\ fpc = [f \in Finalizes |-> "idle"] /\ snap = [f \in Finalizes |-> None]
    /\ at = [f \in Finalizes |-> 1]
    /\ book = [f \in Finalizes |-> "ADELANTADO"]
    /\ copy = [f \in Finalizes |-> <<>>]
    /\ warned = [f \in Finalizes |-> {}]
    /\ existed = [f \in Finalizes |-> FALSE]
    /\ exclusive \in BOOLEAN
    /\ last = None /\ replaced = {} /\ blamed = {}
    /\ epc = [e \in Elsewhere |-> "get"] /\ away = [e \in Elsewhere |-> <<>>]
    /\ overtaken = {} /\ crossed = {}

Generating == \E g \in Generates : gpc[g] \in {"build", "put"}
Finalizing == \E f \in Finalizes : fpc[f] \in FActive

-----------------------------------------------------------------------------
(* Generate *)

\* Mutation of Line: a token of the old column Estado.
LineLegacy(b, due) ==
    [estado |-> "VALIDAR", validar |-> TRUE, applied |-> Blank, note |-> TRUE]

\* The line a candidate becomes: late, early or on the day.
Line(b, due) ==
    [estado  |-> IF BankDate[b] > due THEN "ATRASADO"
                 ELSE IF BankDate[b] < due THEN "ADELANTADO" ELSE "NORMAL",
     validar |-> TRUE, applied |-> Blank, note |-> TRUE]

\* Mutation of Workbook: the issues of a credit are recorded only where none is left.
WorkbookQuiet(g, found, rows) ==
    LET Of(b) == {l \in LineSet : l[1] = b}
        Lost(b) == \A l \in Of(b) : found[l] = Issue
    IN [by |-> g, approved |-> FALSE,
        cases  |-> {b \in rows : ~Lost(b)},
        errors |-> {b \in BankRows : b \notin rows \/ Lost(b)},
        sheet  |-> [l \in LineSet |->
                      IF l[1] \in rows /\ found[l] # Issue
                      THEN Line(l[1], found[l]) ELSE None]]

\* rows: the bank rows that can be read and whose client can be looked up.
\* A bank row whose credits all have an issue is no case; one issue makes it
\* an error as well, and so does a client without any credit.
Workbook(g, found, rows) ==
    LET Of(b) == {l \in LineSet : l[1] = b}
    IN [by |-> g, approved |-> FALSE,
        cases  |-> {b \in rows : \E l \in Of(b) : found[l] # Issue},
        errors |-> {b \in BankRows :
                      b \notin rows \/ Of(b) = {} \/ \E l \in Of(b) : found[l] = Issue},
        sheet  |-> [l \in LineSet |->
                      IF l[1] \in rows /\ found[l] # Issue
                      THEN Line(l[1], found[l]) ELSE None]]

\* The review folder must be empty.
Look(g) ==
    /\ gpc[g] = "idle"
    /\ ~Generating /\ ~Finalizing
    /\ gpc' = [gpc EXCEPT ![g] = IF review = None THEN "build" ELSE "failed"]
    /\ UNCHANGED <<review, built>>

\* An error of a bank row is recorded and the next row is taken.
Build(g) ==
    /\ gpc[g] = "build"
    /\ \E found \in [LineSet -> UNION Range(Findings)], rows \in Readings :
         /\ \A l \in LineSet : found[l] \in Findings[l]
         /\ built' = [built EXCEPT ![g] = Workbook(g, found, rows)]
    /\ gpc' = [gpc EXCEPT ![g] = "put"]
    /\ UNCHANGED review

Upload(g) ==
    /\ gpc[g] = "put"
    /\ review' = built[g]
    /\ gpc' = [gpc EXCEPT ![g] = "done"]
    /\ built' = [built EXCEPT ![g] = None]

\* A Graph call or the bank's headers fail, or the worker is killed; the put
\* may have been stored all the same.
GenerateFails(g) ==
    /\ gpc[g] \in {"build", "put"}
    /\ review' \in {review} \cup IF gpc[g] = "put" THEN {built[g]} ELSE {}
    /\ gpc' = [gpc EXCEPT ![g] = "failed"]
    /\ built' = [built EXCEPT ![g] = None]

Generate(g) ==
    /\ Look(g) \/ Build(g) \/ Upload(g) \/ GenerateFails(g)
    /\ UNCHANGED <<history, support, pend, folders, fpc, mine, exclusive, ghost, dates>>

-----------------------------------------------------------------------------
(* The secretary *)

\* The workbook is there and may be touched.
Editable == review # None /\ (exclusive \/ ~Finalizing)

Fill(s) ==
    /\ Editable
    /\ review' = [review EXCEPT !.sheet = [l \in LineSet |->
                     IF @[l] = None THEN None ELSE s[l]]]

\* Procesar and Estado, the two cells of Control that are not locked.
Control ==
    /\ Editable
    /\ review' = [review EXCEPT !.approved = ~@]

Archive ==
    /\ Editable
    /\ review' = None

Secretary ==
    /\ \/ \E s \in Sheets : Fill(s)
       \/ Control
       \/ Archive
    /\ UNCHANGED <<history, support, pend, folders, gpc, built, fpc, mine,
                   exclusive, ghost, dates>>

-----------------------------------------------------------------------------
(* Finalize *)

Present(r)   == {l \in LineSet : r.sheet[l] # None}
Validated(r) == {l \in Present(r) : r.sheet[l].validar}
Total(e)     == IF e.applied = Blank THEN 0 ELSE e.applied

LineAccepted(e) ==
    /\ e.estado # "REVISION_MANUAL"
    /\ e.validar => e.applied # Blank /\ Total(e) > 0
    /\ ~e.validar /\ e.estado \in {"NORMAL", "INCOMPLETO"} => e.note

\* What a payment's validated lines apply is what the bank paid.
Adds(r, b) ==
    LET of == {l \in Validated(r) : l[1] = b}
    IN of # {} => MapThenSumSet(LAMBDA l : Total(r.sheet[l]), of) = Amount[b]

Accepted(r) ==
    /\ r.approved
    /\ \A l \in Present(r) : LineAccepted(r.sheet[l])
    /\ \A b \in BankRows : Adds(r, b)

Goto(f, label) == fpc' = [fpc EXCEPT ![f] = label]

\* The run is over, and its locals with it.
Ends(f, label) ==
    /\ Goto(f, label)
    /\ snap' = [snap EXCEPT ![f] = None]
    /\ at' = [at EXCEPT ![f] = 1]
    /\ book' = [book EXCEPT ![f] = "ADELANTADO"]
    /\ copy' = [copy EXCEPT ![f] = <<>>]

\* The run reads the workbook once and works on what it read.
Read(f) ==
    /\ fpc[f] = "idle"
    /\ ~Generating
    /\ exclusive => ~Finalizing
    /\ IF review # None /\ Accepted(review)
       THEN /\ snap' = [snap EXCEPT ![f] = review]
            /\ Goto(f, "folder")
            /\ UNCHANGED blamed
       ELSE /\ blamed' = blamed \cup {f}
            /\ Goto(f, "failed")
            /\ UNCHANGED snap
    /\ UNCHANGED <<history, support, pend, folders, at, book, copy, warned, existed,
                   last, replaced>>

NextLine(f) == /\ at' = [at EXCEPT ![f] = @ + 1]
               /\ Goto(f, "folder")

\* The folder of asientos of the line in turn, if it is a validated one, is
\* looked for and found, or has to be created.
ListFolder(f) ==
    /\ fpc[f] = "folder"
    /\ IF at[f] > Len(Lines) THEN Goto(f, "routes") /\ UNCHANGED at
       ELSE IF Lines[at[f]] \in Validated(snap[f]) /\ Lines[at[f]][2] \notin folders
       THEN Goto(f, "post") /\ UNCHANGED at
       ELSE NextLine(f)
    /\ UNCHANGED <<history, support, pend, folders, snap, book, copy, warned,
                   existed, ghost>>

\* Mutation of PostFolder: the 409 of an overlapping run is an error.
PostFolderStrict(f) ==
    /\ fpc[f] = "post"
    /\ \/ /\ Lines[at[f]][2] \notin folders
          /\ folders' = folders \cup {Lines[at[f]][2]}
          /\ NextLine(f)
          /\ UNCHANGED <<snap, book, copy>>
       \/ /\ Lines[at[f]][2] \in folders
          /\ Ends(f, "failed")
          /\ UNCHANGED folders
    /\ UNCHANGED <<history, support, pend, warned, existed, ghost>>

\* conflictBehavior "fail": where another run has created the folder in
\* between, the post answers 409, a second list finds it and the run goes on.
PostFolder(f) ==
    /\ fpc[f] = "post"
    /\ \/ Lines[at[f]][2] \notin folders /\ folders' = folders \cup {Lines[at[f]][2]}
       \/ Lines[at[f]][2] \in folders /\ UNCHANGED folders
    /\ NextLine(f)
    /\ UNCHANGED <<history, support, pend, snap, book, copy, warned, existed, ghost>>

\* Ruta of every validated line: the extract is found, or the run fails in
\* FinalizeFails.
Routes(f) ==
    /\ fpc[f] = "routes"
    /\ Goto(f, "exists")
    /\ UNCHANGED <<history, support, pend, folders, snap, at, book, copy, warned,
                   existed, ghost>>

\* Mutation of Exists: only the support is looked for.
ExistsSupport(f) ==
    /\ fpc[f] = "exists"
    /\ existed' = [existed EXCEPT ![f] = support # {}]
    /\ Goto(f, "get")
    /\ UNCHANGED <<history, support, pend, folders, snap, at, book, copy, warned,
                   ghost>>

\* Whether the day has been finalized before.
Exists(f) ==
    /\ fpc[f] = "exists"
    /\ existed' = [existed EXCEPT ![f] = history # None]
    /\ Goto(f, "get")
    /\ UNCHANGED <<history, support, pend, folders, snap, at, book, copy, warned,
                   ghost>>

\* The rows of a follow-up workbook.
RowsFor(r, bk) ==
    {[id |-> <<r.by, l[1]>>, credit |-> l[2], applied |-> r.sheet[l].applied] :
        l \in {k \in Validated(r) : r.sheet[k].estado = bk}}

SameKey(p, q) == p.id = q.id /\ p.credit = q.credit
Has(rows, p)  == \E i \in DOMAIN rows : SameKey(rows[i], p)

\* Mutations of Upsert: every row is appended; the sheet is written anew.
UpsertAppend(rows, new) == rows \o SetToSeq(new)
UpsertAnew(rows, new) == SetToSeq(new)

\* One row of Pendientes per (ID Pago, Credito): a row that is there is
\* overwritten where it stands, the others are appended.
Upsert(rows, new) ==
    [i \in DOMAIN rows |->
        IF \E p \in new : SameKey(p, rows[i])
        THEN CHOOSE p \in new : SameKey(p, rows[i])
        ELSE rows[i]]
    \o SetToSeq({p \in new : ~Has(rows, p)})

\* Mutation of NextBook: one follow-up workbook per run.
NextBookOne(f) == Goto(f, "history") /\ UNCHANGED book

\* After the advances the incomplete payments, then the uploads.
NextBook(f) == IF book[f] = "ADELANTADO"
               THEN book' = [book EXCEPT ![f] = "INCOMPLETO"] /\ Goto(f, "get")
               ELSE Goto(f, "history") /\ UNCHANGED book

\* A workbook that cannot be read is a warning, not a failure.
GetBook(f) ==
    /\ fpc[f] = "get"
    /\ \/ /\ RowsFor(snap[f], book[f]) = {}
          /\ NextBook(f)
          /\ UNCHANGED <<copy, warned>>
       \/ /\ RowsFor(snap[f], book[f]) # {}
          /\ pend[book[f]] # None
          /\ copy' = [copy EXCEPT ![f] = pend[book[f]]]
          /\ Goto(f, "put")
          /\ UNCHANGED <<book, warned>>
       \/ /\ RowsFor(snap[f], book[f]) # {}
          /\ warned' = [warned EXCEPT ![f] = @ \cup {book[f]}]
          /\ NextBook(f)
          /\ UNCHANGED copy
    /\ UNCHANGED <<history, support, pend, folders, snap, at, existed, ghost>>

NewRows(f) == Upsert(copy[f], RowsFor(snap[f], book[f]))

PutBook(f) ==
    /\ fpc[f] = "put"
    /\ pend' = [pend EXCEPT ![book[f]] = NewRows(f)]
    /\ copy' = [copy EXCEPT ![f] = <<>>]
    /\ NextBook(f)
    /\ UNCHANGED <<history, support, folders, snap, at, warned, existed, ghost>>

\* Mutation of Published: the workbook is read again for the history.
PublishedLate(f) ==
    /\ history' = review
    /\ last' = f
    /\ replaced' = IF history # None THEN replaced \cup {f} ELSE replaced

\* The history is made from the bytes the run has checked.
Published(f) ==
    /\ history' = snap[f]
    /\ last' = f
    /\ replaced' = IF history # None THEN replaced \cup {f} ELSE replaced

PutHistory(f) ==
    /\ fpc[f] = "history"
    /\ Published(f)
    /\ Goto(f, "support")
    /\ UNCHANGED <<support, pend, folders, snap, at, book, copy, warned, existed, blamed>>

\* Mutation of PutSupport: the lines are added to the support that is there.
PutSupportMerged(f) ==
    /\ fpc[f] = "support"
    /\ support' = support \cup Validated(snap[f])
    /\ Ends(f, "success")
    /\ UNCHANGED <<history, pend, folders, warned, existed, ghost>>

PutSupport(f) ==
    /\ fpc[f] = "support"
    /\ support' = Validated(snap[f])
    /\ Ends(f, "success")
    /\ UNCHANGED <<history, pend, folders, warned, existed, ghost>>

\* The call at hand raises, times out or dies with its worker, and is carried
\* out or not.
FinalizeFails(f) ==
    /\ fpc[f] \in FActive
    /\ blamed' = blamed \cup {f}
    /\ Ends(f, "failed")
    /\ folders' \in {folders} \cup
          IF fpc[f] = "post" THEN {folders \cup {Lines[at[f]][2]}} ELSE {}
    /\ pend' \in {pend} \cup
          IF fpc[f] = "put" THEN {[pend EXCEPT ![book[f]] = NewRows(f)]} ELSE {}
    /\ support' \in {support} \cup
          IF fpc[f] = "support" THEN {Validated(snap[f])} ELSE {}
    /\ \/ fpc[f] = "history" /\ Published(f)
       \/ UNCHANGED <<history, last, replaced>>
    /\ warned' = [warned EXCEPT ![f] = {}]
    /\ existed' = [existed EXCEPT ![f] = FALSE]

\* History: when a run stores a follow-up workbook bk, the copies readers hold
\* of it lack its rows; a run that stores such a copy takes rows out again.
Crosses(run, bk, readers) ==
    LET stored == pend' # pend IN
    /\ overtaken' = (overtaken \cup IF stored THEN readers ELSE {}) \ {run}
    /\ crossed' = crossed \cup IF stored /\ run \in overtaken THEN {bk} ELSE {}

\* The finalizes of other dates that hold a copy of a follow-up workbook, and
\* those of this date.
Away(bk) == {e \in Elsewhere : epc[e] = "put" /\ e.book = bk}
Here(bk) == {f \in Finalizes : fpc[f] = "put" /\ book[f] = bk}

\* The finalizes of this date put the rows of one review, which none of their
\* copies has to have.
Finalize(f) ==
    /\ \/ Read(f) \/ ListFolder(f) \/ PostFolder(f) \/ Routes(f) \/ Exists(f)
       \/ GetBook(f) \/ PutBook(f) \/ PutHistory(f) \/ PutSupport(f)
       \/ FinalizeFails(f)
    /\ Crosses(f, book[f], Away(book[f]))
    /\ UNCHANGED <<review, gpc, built, exclusive, epc, away>>

-----------------------------------------------------------------------------
(* Finalizes of other process dates, as far as they share files with those *)
(* of this one: the workbooks of the follow-ups.                           *)

GetElsewhere(e) ==
    /\ epc[e] = "get" /\ pend[e.book] # None
    /\ away' = [away EXCEPT ![e] = pend[e.book]]
    /\ epc' = [epc EXCEPT ![e] = "put"]
    /\ UNCHANGED pend

\* The whole workbook, with or without an error and an effect.
PutElsewhere(e) ==
    /\ epc[e] = "put"
    /\ pend' \in {pend, [pend EXCEPT ![e.book] = Upsert(away[e], {e.row})]}
    /\ away' = [away EXCEPT ![e] = <<>>]
    /\ epc' = [epc EXCEPT ![e] = "done"]

FinalizeElsewhere(e) ==
    /\ GetElsewhere(e) \/ PutElsewhere(e)
    /\ Crosses(e, e.book, Here(e.book) \cup (Away(e.book) \ {e}))
    /\ UNCHANGED <<review, history, support, folders, gpc, built, fpc, mine,
                   exclusive, ghost>>

Next ==
    \/ \E g \in Generates : Generate(g)
    \/ Secretary
    \/ \E f \in Finalizes : Finalize(f)
    \/ \E e \in Elsewhere : FinalizeElsewhere(e)

Spec == Init /\ [][Next]_vars

-----------------------------------------------------------------------------
(* Properties *)

\* A payment of the bank that is not on sheet Errores is a case, and every
\* credit of its client has a line.
AccountedFor ==
    \A r \in {review, history} \ {None} : \A b \in BankRows :
        \/ b \in r.errors
        \/ b \in r.cases /\ \A l \in LineSet : l[1] = b => r.sheet[l] # None

\* However often finalize is repeated, fails on its way or runs twice at the
\* same time, and whatever the finalizes of other dates put into the same
\* workbook, a payment has one row per credit in a follow-up workbook.
KeyedOnce ==
    \A bk \in Books : pend[bk] # None =>
        \A i, j \in DOMAIN pend[bk] : SameKey(pend[bk][i], pend[bk][j]) => i = j

\* The run that published last and succeeded has every advance and incomplete
\* payment of the history in its workbook, or has warned about that workbook,
\* unless runs of two dates have put copies of that workbook across each other.
FollowedUp ==
    last # None /\ fpc[last] = "success" =>
        \A bk \in Books \ (warned[last] \cup crossed) : \A p \in RowsFor(history, bk) :
            pend[bk] # None /\ Has(pend[bk], p)

\* No finalize removes a payment from a follow-up workbook: not one that puts a
\* copy read before the put of another one of its date, and not one of another
\* date, unless a copy has crossed the put of another date: the puts have no
\* condition, and that is the only way in which rows are lost.
FollowUpsStay ==
    [][\A bk \in Books \ crossed' : pend[bk] # None =>
         /\ pend'[bk] # None
         /\ \A i \in DOMAIN pend[bk] : Has(pend'[bk], pend[bk][i])]_vars

\* What merge reads has been approved and adds up to what the bank paid,
\* whatever the secretary does to the review while finalize runs, and the
\* folder of asientos of each of its validated lines exists.
PublishedIsUsable ==
    history # None =>
        /\ Accepted(history)
        /\ \A l \in Validated(history) : l[2] \in folders

\* After a success the accounting support lists the lines of the history.
SupportMatches ==
    last # None /\ fpc[last] = "success" => support = Validated(history)

\* One run at a time: who replaces a history of that date reports it.
ReplacementReported ==
    exclusive => \A f \in replaced : fpc[f] = "success" => FinalizeSeverity(existed[f]) = "warning"

\* A run fails for a reason of its own, never because another one overlaps.
FailsForCause == \A f \in Finalizes : fpc[f] = "failed" => f \in blamed
=============================================================================
