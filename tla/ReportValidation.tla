-------------------------- MODULE ReportValidation --------------------------
(***************************************************************************)
(* The validation of the bank's report against the extracts of a client:   *)
(* for every row the use case lists the client's folders, takes the dates  *)
(* in the file names nearest to the payment, reads TOTAL A PAGAR of the    *)
(* extracts of that date and looks for the folders that explain the        *)
(* amount.  What it finds is kept for the next rows of that client and day.*)
(***************************************************************************)
EXTENDS CreditTree

CONSTANTS
    Rows,        \* the rows of the report: day and amount
    Tolerance    \* GRAPH_CREDIT_MATCH_TOLERANCE

ASSUME ReportAssumption ==
    /\ Rows \in Seq([day : Nat, amount : Nat])
    /\ Tolerance \in Nat

VARIABLES
    answers,    \* what is written next to the rows done so far
    cache,      \* per day of payment: the combination found
    scanned,    \* the folders listed for the row in turn
    found       \* the extracts listed in them: <<folder, extract>>

reportVars == <<answers, cache, scanned, found>>

Days   == {Rows[i].day : i \in DOMAIN Rows}
Listed == Places \X Extracts
Faults == {"none", "no extract", "raised"}
\* The total kept with a combination is that of its extracts; lost is
\* history: the extracts that could not be downloaded or opened.
Combination == [fault : Faults, docs : SUBSET Listed, early : BOOLEAN,
                lost : SUBSET Listed]
Answer == [validado : {"SI", "NO"}, estado : {"OK", "REVISION", "ERROR"},
           observacion : Faults, rutas : SUBSET Listed]

InitReport ==
    answers = <<>> /\ cache = [d \in Days |-> None] /\ scanned = 0 /\ found = {}

\* Every folder of the client, EXTRACTOS of the client included, and nothing
\* below them.
ScanOrder == [i \in DOMAIN Folders |-> Own(Folders[i])] \o <<Inner(Client)>>

FileDate(e) == DayAtEnd(About[e].name)
Amount(e)   == TotalToPay(About[e].text)

Candidates(p) == {<<p, e>> : e \in {x \in DocsAt(p) : FileDate(x) # None}}

\* The nearest date; of two as near, the one on or after the payment.
Anchor(dates, day) ==
    CHOOSE d \in dates : \A x \in dates \ {d} :
        \/ Distance(d, day) < Distance(x, day)
        \/ Distance(d, day) = Distance(x, day) /\ d > x

Total(docs) == SumFunctionOnSet([d \in Listed |-> Amount(d[2])], docs)

\* The bits of the masks 0 .. 2^n - 1, in their order: those without bit k, then
\* the same ones with it.
WithBit(half, k) == half \o [m \in DOMAIN half |-> half[m] \cup {k}]

Masks(n) ==
    LET Upto[k \in 0 .. n] == IF k = 0 THEN <<{}>> ELSE WithBit(Upto[k - 1], k)
    IN Upto[n]

Off(sums, S, target) == Distance(SumFunctionOnSet(sums, S), target)

\* What is kept when the search comes to the folders S.
Improve(best, S, sums, target) ==
    LET off == Off(sums, S, target)
    IN [any   |-> IF \/ best.any = {}
                     \/ off < Off(sums, best.any, target)
                     \/ /\ off = Off(sums, best.any, target)
                        /\ Cardinality(S) < Cardinality(best.any)
                  THEN S ELSE best.any,
        exact |-> IF off <= Tolerance
                     /\ (best.exact = {} \/ Cardinality(S) < Cardinality(best.exact))
                  THEN S ELSE best.exact]

\* The first m masks have been looked at; the first one is no folder.
SearchUpto(m, sums, target) ==
    LET masks == Masks(Len(sums))
        Best[k \in 1 .. Len(masks)] ==
            IF k = 1 THEN [any |-> {}, exact |-> {}]
            ELSE Improve(Best[k - 1], masks[k], sums, target)
    IN Best[m]

\* Mutation of BestSubsetMatch: the last mask is left out.
BestSubsetMatchShort(sums, target) ==
    LET best == SearchUpto(Len(Masks(Len(sums))) - 1, sums, target)
    IN IF best.exact # {} THEN best.exact ELSE best.any

BestSubsetMatch(sums, target) ==
    LET best == SearchUpto(Len(Masks(Len(sums))), sums, target)
    IN IF best.exact # {} THEN best.exact ELSE best.any

Fail(fault, lost) == [fault |-> fault, docs |-> {}, early |-> FALSE, lost |-> lost]

\* The combination for the row in turn: an extract that is lost or unreadable
\* is skipped, and so is a folder that has no other one of the date.
Match(row, listed, lost) ==
    LET dates   == {FileDate(d[2]) : d \in listed}
        anchor  == Anchor(dates, row.day)
        OfFolder(p) == {d \in listed \ lost :
                                       /\ d[1] = p /\ FileDate(d[2]) = anchor
                                       /\ Amount(d[2]) # None}
        folders == Picked(ScanOrder, {i \in DOMAIN ScanOrder : OfFolder(ScanOrder[i]) # {}})
        best    == BestSubsetMatch([i \in DOMAIN folders |-> Total(OfFolder(folders[i]))],
                                   row.amount)
        docs    == UNION {OfFolder(folders[i]) : i \in best}
    IN IF dates = {} \/ folders = <<>> THEN Fail("no extract", lost)
       ELSE [fault |-> "none", docs |-> docs, early |-> row.day < anchor, lost |-> lost]

Verdict(row, c) ==
    [validado |-> IF c.fault = "none" /\ row.amount >= Total(c.docs) THEN "SI" ELSE "NO",
     estado   |-> IF c.fault # "none" THEN "ERROR"
                  ELSE IF c.early THEN "REVISION" ELSE "OK",
     observacion |-> c.fault,
     rutas    |-> c.docs]

Turn == Rows[Len(answers) + 1]

ScanFolder ==
    /\ Len(answers) < Len(Rows)
    /\ cache[Turn.day] = None
    /\ scanned < Len(ScanOrder)
    /\ scanned' = scanned + 1
    /\ found' = found \cup Candidates(ScanOrder[scanned + 1])
    /\ UNCHANGED <<answers, cache>>

\* A listing that raises leaves the client and day without a combination.
ScanFails ==
    /\ Len(answers) < Len(Rows)
    /\ cache[Turn.day] = None
    /\ scanned < Len(ScanOrder)
    /\ cache' = [cache EXCEPT ![Turn.day] = Fail("raised", {})]
    /\ scanned' = 0 /\ found' = {}
    /\ UNCHANGED answers

\* The extracts are read by the id of the item: one that was moved since is
\* still read.  A download that fails loses its extract alone.
MatchRow ==
    /\ Len(answers) < Len(Rows)
    /\ cache[Turn.day] = None
    /\ scanned = Len(ScanOrder)
    /\ \E lost \in SUBSET found :
         /\ moves + Cardinality(lost) <= MaxMoves
         /\ cache' = [cache EXCEPT ![Turn.day] = Match(Turn, found, lost)]
    /\ scanned' = 0 /\ found' = {}
    /\ UNCHANGED answers

AnswerRow ==
    /\ Len(answers) < Len(Rows)
    /\ cache[Turn.day] # None
    /\ answers' = Append(answers, Verdict(Turn, cache[Turn.day]))
    /\ UNCHANGED <<cache, scanned, found>>

ReportNext == ScanFolder \/ ScanFails \/ MatchRow \/ AnswerRow

ReportTypeOK ==
    /\ answers \in Seq(Answer)
    /\ cache \in [Days -> Combination \cup {None}]
    /\ scanned \in 0 .. Len(ScanOrder)
    /\ found \subseteq Listed

-----------------------------------------------------------------------------
(***************************************************************************)
(* The answer to the first row of a day, read off the tree and of what     *)
(* could be downloaded of it.  Explains(S,                                 *)
(* row) says what the documentation of the search promises of the folders  *)
(* S: the amount is met within the tolerance with as few folders as can    *)
(* be, or, when no folders meet it, as nearly as can be.                   *)
(***************************************************************************)
Lost(row) == IF cache[row.day] = None THEN {} ELSE cache[row.day].lost

NearestDocs(row) ==
    LET all == UNION {Candidates(p) : p \in Range(ScanOrder)}
    IN {d \in all \ Lost(row) :
                    /\ Amount(d[2]) # None
                    /\ \A x \in all :
                         LET near == Distance(FileDate(d[2]), row.day)
                             far  == Distance(FileDate(x[2]), row.day)
                         IN near < far \/ (near = far /\ FileDate(d[2]) >= FileDate(x[2]))}

Within(S, row) == {d \in NearestDocs(row) : d[1] \in S}
Miss(S, row)   == Distance(Total(Within(S, row)), row.amount)
FolderSets(row)   == (SUBSET {d[1] : d \in NearestDocs(row)}) \ {{}}

Explains(S, row) ==
    LET exact == {T \in FolderSets(row) : Miss(T, row) <= Tolerance}
    IN IF exact # {}
       THEN S \in exact /\ \A T \in exact : Cardinality(S) <= Cardinality(T)
       ELSE \A T \in FolderSets(row) :
                \/ Miss(S, row) < Miss(T, row)
                \/ Miss(S, row) = Miss(T, row) /\ Cardinality(S) <= Cardinality(T)

FirstOfItsDay(i) == \A j \in 1 .. i - 1 : Rows[j].day # Rows[i].day

\* While accounting leaves the tree alone the first row of a day names the
\* extracts of the folders that explain its amount best, all those of the date
\* nearest to the payment that could be read, and lacks them only when there
\* are none or a listing raised.  Every row, also a later one of the day, which gets the first
\* one's extracts, is SI exactly when it covers the totals of those named.
\* (validate_payment_report_and_replace_excel, _find_best_subset_match)
ReportIsBest ==
    moves = 0 =>
        \A i \in DOMAIN answers :
            LET row == Rows[i]
            IN CASE answers[i].observacion = "raised" -> answers[i].validado = "NO"
                 [] answers[i].observacion = "no extract" -> NearestDocs(row) = {}
                 [] OTHER ->
                      /\ FirstOfItsDay(i) =>
                            \E S \in FolderSets(row) :
                                Explains(S, row) /\ answers[i].rutas = Within(S, row)
                      /\ answers[i].validado = "SI" <=> row.amount >= Total(answers[i].rutas)
=============================================================================
