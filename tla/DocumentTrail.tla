--------------------------- MODULE DocumentTrail ---------------------------
(***************************************************************************)
(* The way of a client's documents through one process date.  Generate     *)
(* scans the tree and proposes a line per unit of credit, the secretary    *)
(* approves lines, finalize gives each its route and its folder of         *)
(* asientos, the notification sends the extracts, accounting files the     *)
(* asientos, the merge bundles both and the dry run of the amortization    *)
(* finds the table of each asiento.  Accounting touches the tree at any    *)
(* moment.  The lines belong to one payment.  A call that fails and that   *)
(* the code passes over is a step like another, and what it made a job     *)
(* miss is kept as history.                                                *)
(*                                                                         *)
(* Apart from it a behaviour may be the work on the bank's report over the *)
(* same tree: the two share nothing else.                                  *)
(***************************************************************************)
EXTENDS ReportBook, JobSeverity

CONSTANTS
    BankDay,     \* day of the payment
    Numbered,    \* the numbers accounting may write in an asiento's name
    MaxFiled,    \* bound on the asientos filed
    Uses,        \* which of the two uses of the tree a behaviour is
    Rules        \* how generate chooses an extract: GENERATE_EXTRACT_SELECTION_V2

ASSUME TrailAssumption ==
    /\ BankDay \in Nat /\ Numbered \subseteq Nat /\ MaxFiled \in Nat
    /\ Uses \subseteq {"trail", "report"} /\ Rules \subseteq {"v2", "legacy"}
    /\ None \notin Severities
    /\ \A files \in SUBSET {About[e].file : e \in Extracts} : files # None

VARIABLES
    rule,      \* the value of the variable of the environment
    stage,     \* control of the run in turn
    at,        \* the folder or the unit in turn
    listed,    \* per unit: the extracts its listing had; None: no unit
    pool,      \* the extracts of the unit in turn
    lines,     \* sheet Distribucion, then of the historical workbook
    issues,    \* sheet Errores: the units without a line
    valid,     \* the lines with Validar Pago = SI
    cleared,   \* those of them whose cell Ruta the secretary emptied
    filed,     \* the asientos: folder and number in the file name
    sent,      \* the extracts the notification has sent
    taken,     \* the lines the merge has found whole: number, asientos
    skips,     \* the lines of result.skipped
    bundle,    \* the consolidated PDF: per line its asientos and extract
    reused,    \* history: the merge found a PDF of that name and kept it
    plan,      \* the events of the dry run
    told,      \* the severity of merge and dry run
    unread,    \* history: the extracts whose download failed in generate
    unlisted,  \* history: the lines for which finalize missed EXTRACTOS
    unsent     \* history: the extracts the notification left out

scanVars  == <<at, listed, pool>>
sheetVars == <<lines, issues, valid, cleared>>
mergeVars == <<taken, skips, bundle, reused>>
lostVars  == <<unread, unlisted, unsent>>
trailVars == <<stage, scanVars, sheetVars, filed, sent, mergeVars, plan, told, lostVars>>
bankVars  == <<reportVars, bookVars, rule>>
vars      == <<treeVars, bankVars, trailVars>>

Stages == {"report", "start", "list", "unit", "read", "review", "approved",
           "final", "build", "merged", "planned", "failed", "nothing"}

\* doc is the extract that was read: history, the sheet has its numbers.
Line == [unit : Units, ruta : Paths \cup {None}, link : Paths, credit : Label,
         key : Label, table : BOOLEAN, doc : Extracts]
Codes == {"amortization_table_not_found", "amortization_table_ambiguous",
          "pending_installment_not_found", "extract_not_found", "fecha_limite_extracto_not_readable",
          "extract_tie_max_fecha_limite", "extract_amount_not_found"}
AsientoFolder == [unit : Units, label : Label]
Asiento == [folder : AsientoFolder, number : Nat]
Taken   == [number : Nat, asientos : SUBSET Asiento]
Bundled == [number : Nat, asientos : SUBSET Asiento, doc : Extracts]
Event   == [line : Nat, asiento : Asiento, table : Units \cup {None}]
BuildReasons == {"asiento_download_failed", "extracto_download_failed",
                 "consolidated_upload_failed"}
Reasons == {"extract_routes_missing", "credit_number_not_resolved",
            "asiento_folder_list_failed", "asiento_contable_credit_mismatch",
            "asiento_contable_not_found"} \cup BuildReasons

TypeOK ==
    /\ name \in NameChoices
    /\ tree \in [Extracts -> Places \cup {Nowhere}]
    /\ moves \in 0 .. MaxMoves
    /\ BookTypeOK
    /\ rule \in Rules /\ stage \in Stages
    /\ at \in 1 .. Len(Folders) + 2
    /\ listed \in [Units -> (SUBSET Nat) \cup {None}]
    /\ pool \in [at : Places, files : SUBSET Nat] \cup {None}
    /\ lines \in Seq(Line)
    /\ issues \subseteq Units \X Codes
    /\ valid \subseteq DOMAIN lines /\ cleared \subseteq valid
    /\ filed \subseteq Asiento
    /\ sent \in (SUBSET Extracts) \cup {None}
    /\ DOMAIN taken \subseteq valid /\ \A i \in DOMAIN taken : taken[i] \in Taken
    /\ skips \subseteq valid \X Reasons
    /\ DOMAIN bundle \subseteq valid /\ \A i \in DOMAIN bundle : bundle[i] \in Bundled
    /\ plan \subseteq Event
    /\ told \in [{"merge", "dryrun"} -> Severities \cup {None}]
    /\ reused \in BOOLEAN
    /\ unread \subseteq Extracts /\ unlisted \subseteq cleared /\ unsent \subseteq Extracts

Init ==
    /\ InitTree /\ InitReport /\ InitBook /\ rule \in Rules
    /\ \E use \in Uses : /\ stage = IF use = "report" THEN "report" ELSE "start"
                         /\ use = "trail" => book = <<>>
                         /\ use = "report" => rule = CHOOSE r \in Rules : TRUE
    /\ at = 1 /\ listed = [u \in Units |-> None] /\ pool = None
    /\ lines = <<>> /\ issues = {} /\ valid = {} /\ cleared = {}
    /\ filed = {} /\ sent = None
    /\ taken = Empty /\ skips = {} /\ bundle = Empty /\ plan = {}
    /\ told = [j \in {"merge", "dryrun"} |-> None]
    /\ reused = FALSE /\ unread = {} /\ unlisted = {} /\ unsent = {}

\* The bound: n more steps of accounting or failing calls.  Those of the
\* notification and the merge are not counted afterwards.
Room(n) == moves + Cardinality(unread) + Cardinality(unlisted) + n <= MaxMoves

-----------------------------------------------------------------------------
(***************************************************************************)
(* Generate.                                                               *)
(***************************************************************************)
\* The listing of the client's folder gives its own files and its folders.
ListClient ==
    /\ stage = "start"
    /\ stage' = "list"
    /\ listed' = [listed EXCEPT ![Client] = FilesAt(Own(Client))]
    /\ UNCHANGED <<treeVars, bankVars, at, pool, sheetVars, filed, sent, mergeVars, plan, told,
                   lostVars>>

Operational(u) == name[u].word # "infra" /\ (Standard(name[u]) \/ OperationalSignal(u))

\* Then every folder is listed; what it holds is not listed again.
ListFolder ==
    /\ stage = "list" /\ at <= Len(Folders)
    /\ listed' = [listed EXCEPT ![Folders[at]] =
                     IF Operational(Folders[at]) THEN FilesAt(Own(Folders[at])) ELSE None]
    /\ at' = at + 1
    /\ UNCHANGED <<treeVars, bankVars, stage, pool, sheetVars, filed, sent, mergeVars, plan, told,
                   lostVars>>

\* Mutation of UnitOrder: next to folders the client's own is no unit.
UnitOrderFolders ==
    LET folders == Picked(Folders, {i \in DOMAIN Folders : listed[Folders[i]] # None})
    IN IF folders = <<>> THEN <<Client>> ELSE folders

\* The client's own folder is a unit when no folder is one, and next to
\* others when extracts lie in it.
Operating == Picked(Folders, {i \in DOMAIN Folders : listed[Folders[i]] # None})
Flat      == Operating = <<>>
UnitOrder ==
    IF Flat THEN <<Client>>
    ELSE IF listed[Client] # {} THEN Append(Operating, Client)
    ELSE Operating

UnitsKnown ==
    /\ stage = "list" /\ at > Len(Folders)
    /\ stage' = "unit" /\ at' = 1
    /\ UNCHANGED <<treeVars, bankVars, listed, pool, sheetVars, filed, sent, mergeVars, plan, told,
                   lostVars>>

\* Next to other units the client's folder is given its own files only.
PoolOf(u) ==
    IF u = Client /\ ~Flat THEN [at |-> Own(Client), files |-> listed[Client]]
    ELSE ExtractPool(u, listed[u])

OpenUnit ==
    /\ rule = "v2" /\ stage = "unit" /\ at <= Len(UnitOrder)
    /\ stage' = "read"
    /\ pool' = PoolOf(UnitOrder[at])
    /\ UNCHANGED <<treeVars, bankVars, at, listed, sheetVars, filed, sent, mergeVars, plan, told,
                   lostVars>>

Candidate(u, path) ==
    [unit |-> u, ruta |-> path, link |-> path, credit |-> CreditId(u, DocAt(path)),
     key |-> CreditKey(CreditId(u, DocAt(path))), table |-> HasTable(u), doc |-> DocAt(path)]

\* The files are downloaded by their paths, and one is selected of those that
\* could be.
ReadUnit ==
    /\ stage = "read"
    /\ \E lost \in SUBSET pool.files :
         /\ Room(Cardinality(lost))
         /\ unread' = unread \cup {x \in DocsAt(pool.at) : About[x].file \in lost}
         /\ LET u == UnitOrder[at]
            IN IF Selection(pool, lost) = "selected"
               THEN /\ lines' = Append(lines, Candidate(u, Newest(Got(pool, lost))))
                    /\ UNCHANGED issues
               ELSE /\ issues' = issues \cup {<<u, Selection(pool, lost)>>}
                    /\ UNCHANGED lines
    /\ stage' = "unit" /\ at' = at + 1 /\ pool' = None
    /\ UNCHANGED <<treeVars, bankVars, listed, valid, cleared, filed, sent, mergeVars, plan, told,
                   unlisted, unsent>>

\* With the rule off the table is needed, and EXTRACTOS is not looked into.
LegacyIssue(u) ==
    IF BestTables(u) = {} THEN "amortization_table_not_found"
    ELSE IF ~HasTable(u) THEN "amortization_table_ambiguous"
    ELSE IF Pending(u) = None THEN "pending_installment_not_found"
    ELSE None

LegacyCandidate(u, path) ==
    LET inName == StatementCredit(About[DocAt(path)].name)
        credit == IF inName # None THEN Number(inName) ELSE name[u]
    IN [Candidate(u, path) EXCEPT !.credit = credit, !.key = CreditKey(credit)]

LegacyUnit ==
    /\ rule = "legacy" /\ stage = "unit" /\ at <= Len(UnitOrder)
    /\ LET u    == UnitOrder[at]
           path == [at |-> Own(u), file |-> StatementItem(u, listed[u])]
           Issue(code) == /\ issues' = issues \cup {<<u, code>>}
                          /\ at' = at + 1
                          /\ UNCHANGED <<stage, lines>>
           \* Any other failure takes the whole payment into sheet Errores.
           Raise == stage' = "nothing" /\ lines' = <<>> /\ issues' = {} /\ at' = 1
       IN IF LegacyIssue(u) # None THEN Issue(LegacyIssue(u))
          ELSE IF listed[u] = {}
          THEN \* EXTRACTOS is taken for an extract, where there is one.
               \/ Raise
               \/ FilesAt(Inner(u)) = {} /\ Issue("extract_not_found")
          ELSE IF ~Has(path) THEN Raise
          ELSE IF TotalToPay(About[DocAt(path)].text) = None THEN Issue("extract_amount_not_found")
          ELSE /\ lines' = Append(lines, LegacyCandidate(u, path))
               /\ at' = at + 1
               /\ UNCHANGED <<stage, issues>>
    /\ UNCHANGED <<treeVars, bankVars, listed, pool, valid, cleared, filed, sent, mergeVars,
                   plan, told, lostVars>>

\* Two candidates with one path would be one line; a client without a line
\* is in sheet Errores only.
Dedupe(candidates) ==
    Picked(candidates, {i \in DOMAIN candidates :
                           \A j \in 1 .. i - 1 : candidates[j].ruta # candidates[i].ruta})

GenerateEnds ==
    /\ stage = "unit" /\ at > Len(UnitOrder)
    /\ lines' = Dedupe(lines)
    /\ stage' = IF lines = <<>> THEN "nothing" ELSE "review"
    /\ at' = 1
    /\ UNCHANGED <<treeVars, bankVars, listed, pool, issues, valid, cleared, filed, sent,
                   mergeVars, plan, told, lostVars>>

-----------------------------------------------------------------------------
(***************************************************************************)
(* The secretary and finalize.                                             *)
(***************************************************************************)
Approve ==
    /\ stage = "review"
    /\ \E v \in (SUBSET DOMAIN lines) \ {{}}, c \in SUBSET DOMAIN lines :
         /\ c \subseteq v
         /\ valid' = v /\ cleared' = c
         /\ lines' = [i \in DOMAIN lines |->
                        IF i \in c THEN [lines[i] EXCEPT !.ruta = None] ELSE lines[i]]
    /\ stage' = "approved"
    /\ UNCHANGED <<treeVars, bankVars, scanVars, issues, filed, sent, mergeVars, plan, told,
                   lostVars>>

\* A path in the cell is used as it stands, without a look at the tree.
ExtractRoute(l, missed) ==
    IF l.ruta # None THEN l.ruta ELSE RouteByFolder(l.credit, BankDay, l.link.file, missed)

\* ASIENTOS CONTABLES CRED n, under the unit.
FolderLabel(l) ==
    LET n == FirstOf(MatchNumber(l.credit), MatchNumber(name[l.unit]))
    IN IF n # None THEN Number(n) ELSE l.credit

FolderOf(l) == [unit |-> l.unit, label |-> FolderLabel(l)]

Finalize ==
    /\ stage = "approved"
    /\ \E missed \in SUBSET cleared :
         LET Route(i) == ExtractRoute(lines[i], i \in missed)
         IN /\ Room(Cardinality(missed))
            /\ \A i \in valid : Route(i) # None
            /\ lines' = [i \in DOMAIN lines |->
                           IF i \in valid THEN [lines[i] EXCEPT !.ruta = Route(i)]
                           ELSE lines[i]]
            /\ unlisted' = missed
    /\ stage' = "final"
    /\ UNCHANGED <<treeVars, bankVars, scanVars, issues, valid, cleared, filed, sent,
                   mergeVars, plan, told, unread, unsent>>

\* Nor has a line a route when the listing of the client's folders, or the one
\* of the folder itself, fails.
MissingExtractRoute ==
    /\ stage = "approved"
    /\ \E i \in valid : \/ ExtractRoute(lines[i], FALSE) = None
                       \/ (i \in cleared /\ Room(1))
    /\ stage' = "failed"
    /\ UNCHANGED <<treeVars, bankVars, scanVars, sheetVars, filed, sent, mergeVars, plan, told,
                   lostVars>>

-----------------------------------------------------------------------------
(***************************************************************************)
(* The notification, accounting, the merge and the dry run.                *)
(***************************************************************************)
Routes(i) == IF lines[i].ruta = None THEN {} ELSE RutaPaths(lines[i].ruta)

Attached == {DocAt(p) : p \in UNION {Routes(i) : i \in valid}}

\* Mutation of Notify: only the routes that were in the sheet all along.
NotifyUncleared ==
    /\ stage = "final" /\ sent = None
    /\ sent' = {DocAt(p) : p \in UNION {Routes(i) : i \in valid \ cleared}}
    /\ UNCHANGED <<treeVars, bankVars, stage, scanVars, sheetVars, filed, mergeVars, plan, told,
                   lostVars>>

\* A route that leads nowhere attaches nothing; nor does one whose look-up or
\* download fails, or a file that is too large, or any when attachments are
\* switched off.
Notify ==
    /\ stage = "final" /\ sent = None
    /\ \E left \in SUBSET Attached :
         /\ left = {} \/ Room(1)
         /\ sent' = Attached \ left
         /\ unsent' = left
    /\ UNCHANGED <<treeVars, bankVars, stage, scanVars, sheetVars, filed, mergeVars, plan, told,
                   unread, unlisted>>

\* The notification reads no asiento, so they may as well come after it.
File ==
    /\ stage = "final" /\ sent # None /\ Cardinality(filed) < MaxFiled
    /\ \E i \in valid, n \in Numbered :
         /\ [folder |-> FolderOf(lines[i]), number |-> n] \notin filed
         /\ filed' = filed \cup {[folder |-> FolderOf(lines[i]), number |-> n]}
    /\ UNCHANGED <<treeVars, bankVars, stage, scanVars, sheetVars, sent, mergeVars, plan, told,
                   lostVars>>

\* The asientos of a line's folder, and those of them with its number.
InFolder(i) == {a \in filed : a.folder = FolderOf(lines[i])}
Accepted(i) == {a \in InFolder(i) : a.number = RowNumber(lines[i].credit, lines[i].ruta)}

\* Mutation of SkipReasons: an asiento with another number is passed over.
SkipReasonsQuiet(i, call) ==
    IF Routes(i) = {} \/ call = "route" THEN {"extract_routes_missing"}
    ELSE IF RowNumber(lines[i].credit, lines[i].ruta) = None
    THEN {"credit_number_not_resolved"}
    ELSE IF call = "listing" THEN {"asiento_folder_list_failed"}
    ELSE {r \in {"asiento_contable_not_found"} : Accepted(i) = {}}

\* The lines of result.skipped: a line may be taken and have one as well.
\* call is the one that failed for the line: the look-up of its route, the
\* listing of its asientos, or none.
Calls == {"none", "route", "listing"}

SkipReasons(i, call) ==
    IF Routes(i) = {} \/ call = "route" THEN {"extract_routes_missing"}
    ELSE IF RowNumber(lines[i].credit, lines[i].ruta) = None
    THEN {"credit_number_not_resolved"}
    ELSE IF call = "listing" THEN {"asiento_folder_list_failed"}
    ELSE {r \in {"asiento_contable_credit_mismatch"} : InFolder(i) # Accepted(i)}
         \cup {r \in {"asiento_contable_not_found"} : Accepted(i) = {}}

Whole(i, call) == SkipReasons(i, call) \subseteq {"asiento_contable_credit_mismatch"}

\* The control row the notification has written lets the merge begin.
PrevalidatePayment ==
    /\ stage = "final" /\ sent # None
    /\ \E call \in [valid -> Calls] :
         /\ Room(Cardinality({i \in valid : call[i] # "none"}))
         /\ taken' = [i \in {j \in valid : Whole(j, call[j])} |->
                        [number |-> RowNumber(lines[i].credit, lines[i].ruta),
                         asientos |-> Accepted(i)]]
         /\ skips' = UNION {{i} \X SkipReasons(i, call[i]) : i \in valid}
    /\ stage' = "build"
    /\ UNCHANGED <<treeVars, bankVars, scanVars, sheetVars, filed, sent, bundle, reused, plan,
                   told, lostVars>>

\* The PDF of the lines taken, as it is in the tree.
Merged ==
    [i \in DOMAIN taken |->
        [number |-> taken[i].number, asientos |-> taken[i].asientos, doc |-> DocAt(lines[i].ruta)]]

Fetched == \A i \in DOMAIN taken : Has(lines[i].ruta)

\* The severity told of the merge, if it skips no other payment; it may write
\* the PDF of another one.
Tell(output) ==
    \E others \in BOOLEAN :
        told' = [told EXCEPT !["merge"] =
                   MergeSeverity(output, skips' # {}, ~reused' \/ others)]

\* No line is left, or a download fails, or the put, which may have stored
\* the PDF all the same: the payment is skipped.
SkipPayment ==
    /\ \/ DOMAIN taken = {} /\ UNCHANGED <<skips, bundle>>
       \/ \E i \in DOMAIN taken, r \in BuildReasons :
            /\ skips' = skips \cup {<<i, r>>}
            /\ IF r = "consolidated_upload_failed"
               THEN Fetched /\ Room(1) /\ bundle' \in {bundle, Merged}
               ELSE /\ Room(1) \/ (r = "extracto_download_failed" /\ ~Has(lines[i].ruta))
                    /\ UNCHANGED bundle
    /\ reused' = FALSE
    /\ Tell(FALSE)

\* A PDF of that name is there, of an earlier merge or of a payment with the
\* same client and numbers, and force_rebuild is off: it stays as it is.
ReusePdf ==
    /\ DOMAIN taken # {}
    /\ reused' = TRUE
    /\ UNCHANGED <<skips, bundle>>
    /\ Tell(TRUE)

WritePdf ==
    /\ DOMAIN taken # {} /\ Fetched
    /\ bundle' = Merged
    /\ reused' = FALSE
    /\ UNCHANGED skips
    /\ Tell(TRUE)

BuildParts ==
    /\ stage = "build"
    /\ SkipPayment \/ ReusePdf \/ WritePdf
    /\ stage' = "merged"
    /\ UNCHANGED <<treeVars, bankVars, scanVars, sheetVars, filed, sent, taken, plan, lostVars>>

\* The merge is called again: what was skipped may have come, or force_rebuild
\* asks for the PDF anew.  Room is the bound on how often.
MergeAgain ==
    /\ stage = "merged" /\ Room(1)
    /\ stage' = "final"
    /\ taken' = Empty /\ skips' = {} /\ reused' = FALSE
    /\ told' = [told EXCEPT !["merge"] = None]
    /\ UNCHANGED <<treeVars, bankVars, scanVars, sheetVars, filed, sent, bundle, plan, lostVars>>

\* The index of the historical workbook: every line, also one that was not
\* validated, and of two with one key the later.
HistRow(n) ==
    LET same == {i \in DOMAIN lines : lines[i].key = Number(n)}
    IN IF same = {} THEN None ELSE CHOOSE i \in same : \A j \in same : j <= i

TableFor(n) ==
    IF HistRow(n) # None /\ lines[HistRow(n)].table THEN lines[HistRow(n)].unit ELSE None

\* The manifest lists the lines taken, not what is in the PDF.
PlanEvents ==
    /\ stage = "merged" /\ DOMAIN taken # {} /\ \A s \in skips : s[2] \notin BuildReasons
    /\ plan' = UNION {{[line |-> i, asiento |-> a, table |-> TableFor(taken[i].number)] :
                          a \in taken[i].asientos} : i \in DOMAIN taken}
    /\ told' = [told EXCEPT !["dryrun"] =
                  DryRunSeverity(plan' # {}, \E e \in plan' : e.table = None)]
    /\ stage' = "planned"
    /\ UNCHANGED <<treeVars, bankVars, scanVars, sheetVars, filed, sent, mergeVars, lostVars>>

-----------------------------------------------------------------------------
TrailNext ==
    \/ ListClient \/ ListFolder \/ UnitsKnown \/ OpenUnit \/ ReadUnit \/ LegacyUnit
    \/ GenerateEnds
    \/ Approve \/ Finalize \/ MissingExtractRoute
    \/ Notify \/ File \/ PrevalidatePayment \/ BuildParts \/ MergeAgain
    \/ PlanEvents

\* What accounting does once nobody reads the tree any more is left out.
Reading ==
    IF stage = "report" THEN mailed = None
    ELSE stage \notin {"merged", "planned", "failed", "nothing"}

Touch == Reading /\ Room(1) /\ Move /\ UNCHANGED <<bankVars, trailVars>>

Report == stage = "report" /\ BookNext /\ UNCHANGED <<treeVars, rule, trailVars>>

Next == TrailNext \/ Touch \/ Report

Spec == Init /\ [][Next]_vars

-----------------------------------------------------------------------------
Scanned == stage \in Stages \ {"report", "start", "list", "unit", "read"}

\* What generate made of a unit: a line, or an entry of sheet Errores.
Outcomes(u) ==
    Cardinality({i \in DOMAIN lines : lines[i].unit = u})
        + Cardinality({s \in issues : s[1] = u})

\* While accounting leaves the tree alone, generate gives every folder that
\* holds an extract, and the client's own, one line or one entry in Errores.
\* It leaves out a folder of another use, and EXTRACTOS of the client when
\* there are units; and with the new selection off it may give up the whole
\* payment.  (_load_credit_candidates)
GaveUp == rule = "legacy" /\ stage = "nothing" /\ issues = {}

NothingOverlooked ==
    Scanned /\ moves = 0 /\ ~GaveUp =>
        \A u \in Units :
            LET own   == DocsAt(Own(u)) # {}
                inner == DocsAt(Inner(u)) # {}
            IN IF u # Client
               THEN name[u].word # "infra" /\ (own \/ inner) => Outcomes(u) = 1
               ELSE own \/ (inner /\ Flat) => Outcomes(u) = 1

\* While accounting leaves the tree alone, the extract behind a line is the
\* newest readable one where generate looks for it: no other there falls due
\* later or on the same day, unless its download failed, and one in the
\* folder itself is taken only while EXTRACTOS is empty.
\* (_resolve_extract_pdf_pool, _select_extract_by_max_fecha_limite_v2)
ReviewedIsNewest ==
    Scanned /\ rule = "v2" /\ moves = 0 =>
        \A i \in DOMAIN lines :
            LET e == lines[i].doc
            IN /\ \A x \in DocsAt(tree[e]) \ ({e} \cup unread) :
                     DueDay(About[x].text) # None
                        => DueDay(About[x].text) < DueDay(About[e].text)
               /\ tree[e] = Own(lines[i].unit) /\ lines[i].unit # Client
                     => DocsAt(Inner(lines[i].unit)) = {}

\* The route finalize publishes is that of the extract generate has read,
\* also when the secretary emptied the cell and the folder of the credit has
\* to be found again, as long as column Credito leads to that folder alone
\* and generate chose the extract by its due day.  Where the search missed
\* EXTRACTOS this is only so of an extract in the folder itself.
\* (_apply_ruta_column_on_hist_sheet, _resolve_extract_route_by_credit_folder)
RouteIsReviewed ==
    stage \in {"final", "build", "merged", "planned"} /\ moves = 0 =>
        \A i \in valid :
            (i \in cleared => /\ rule = "v2" /\ CreditFolders(lines[i].credit) = {lines[i].unit}
                              /\ i \in unlisted => ~lines[i].link.at.inner)
            => /\ Has(lines[i].ruta)
               /\ DocAt(lines[i].ruta) = lines[i].doc

\* An asiento that bears the number of the folder finalize made for it is
\* taken by the merge, if the extract is found where its route says, the
\* folder of the asientos can be listed and the two read the same number in
\* column Credito.
\* (_asientos_folder_name_for_credit, _normalize_credito_excel_value)
FiledIsAccepted ==
    stage \in {"build", "merged", "planned"} =>
        \A i \in valid, a \in filed :
            /\ a.folder = FolderOf(lines[i])
            /\ Number(a.number) = FolderLabel(lines[i])
            /\ Digits(lines[i].credit) = MatchNumber(lines[i].credit)
            /\ Digits(lines[i].credit) # None
            /\ <<i, "extract_routes_missing">> \notin skips
            /\ <<i, "asiento_folder_list_failed">> \notin skips
            => i \in DOMAIN taken /\ a \in taken[i].asientos

\* A merge told as a success has every validated line in its manifest, with
\* every asiento that was in its folder when the merge looked, at least one;
\* and a PDF it has written itself holds the same.  A PDF it has found and
\* kept need not: see ConsolidatedIsComplete of MergeComposite.
\* (_merge_completed_enrichment: "cada pago validado quedo en un solo PDF")
SuccessIsWhole ==
    told["merge"] = "success" =>
        \A i \in valid :
            /\ i \in DOMAIN taken
            /\ taken[i].asientos # {}
            /\ \A a \in InFolder(i) : a \in taken[i].asientos
            /\ ~reused => i \in DOMAIN bundle /\ bundle[i].asientos = taken[i].asientos

\* Behind a merge told as a success no extract is bundled that the
\* notification had not before it, to send or to leave out, and where the PDF
\* is the merge's own none that it sent is missing; also when accounting has
\* moved, added or deleted one of them since generate: the merge then misses
\* it.  (Two such steps may replace an extract by another of the same name,
\* which nobody notices.)
SentIsMerged ==
    told["merge"] = "success" /\ moves <= 1 =>
        LET docs == {bundle[i].doc : i \in DOMAIN bundle}
        IN /\ docs \subseteq sent \cup unsent
           /\ ~reused => sent \cup unsent = docs

\* The table an asiento is planned into belongs to the unit in whose folder
\* it was filed, unless another line of the payment has the number the merge
\* gave it; and a dry run told as a success has a table for every asiento.
\* (_load_historical_index, _find_hist_row)
TableOfLine ==
    \A e \in plan :
        /\ told["dryrun"] = "success" => e.table # None
        /\ e.table # None
           /\ (\A j \in DOMAIN lines \ {e.line} : lines[j].key # Number(taken[e.line].number))
           => e.table = e.asiento.folder.unit
=============================================================================
