------------------------- MODULE AmortizationApply -------------------------
(***************************************************************************)
(* The apply job of the amortization tables: an internal dry run plans a   *)
(* row for every asiento of the merge manifest, a preflight accepts or     *)
(* rejects the whole plan, then each table is downloaded, edited in        *)
(* memory, put back as a whole and downloaded again for verification.      *)
(*                                                                         *)
(* Accounting edits the same tables by hand, files asientos again and      *)
(* publishes IBR rates meanwhile.                                          *)
(*                                                                         *)
(* What a row of the payment block holds is a set of marks, a mark being a *)
(* column with its value: an empty row has none, and comparing only the    *)
(* filled columns with the asiento is comparing by \subseteq.              *)
(***************************************************************************)
EXTENDS Naturals, Sequences

CONSTANTS
    None,
    Events,      \* asientos, identified by their idempotency key
    Tables,
    TableOf,     \* per event
    Rows,        \* application rows of a table
    Due,         \* per event, the row of its fecha_limite_pago (also its cut)
    Prints,      \* hash and eTag of the versions of an asiento PDF
    Content,     \* per event and print, the marks of its payment application
    Checked,     \* the marks verify_uploaded_table reads back of a written row
    Manifests,   \* sequences of events the merge left for an apply, none twice
    Runs,        \* apply jobs
    Fillings,    \* what accounting may type into a row
    MaxEdits,    \* bound on the edits of accounting
    Faults,      \* Graph calls may raise
    Crashes      \* an apply job may be killed

Marks == (UNION {Content[e][p] : e \in Events, p \in Prints}) \cup (UNION Fillings)

ASSUME ApplyAssumption ==
    /\ None \notin Events \cup Prints \cup Tables
    /\ TableOf \in [Events -> Tables]
    /\ Rows \subseteq Nat
    /\ Due \in [Events -> Rows]
    /\ \A e \in Events, p \in Prints : Content[e][p] # {}
    /\ Manifests \subseteq Seq(Events)
    /\ \A m \in Manifests : \A j, k \in DOMAIN m : m[j] = m[k] => j = k
    /\ {} \notin Fillings
    /\ MaxEdits \in Nat
    /\ {Faults, Crashes} \subseteq BOOLEAN

VARIABLES
    table,   \* per table, the stored workbook
    pdf,     \* per event, the print of the asiento PDF that is filed now
    rates,   \* the cuts the IBR workbook has a rate for
    me,      \* per apply job, where it is and its local variables
    said,    \* per apply job, the apply_status of each event
    edits,   \* bound: the edits of accounting so far
    stale    \* history: a put replaced a table that had changed meanwhile

vars == <<table, pdf, rates, me, said, edits, stale>>

\* by: history, the event an apply job wrote the row for.
Cell == [marks : SUBSET Marks, by : Events \cup {None}]
Book == [cells : [Rows -> Cell],
         log : [Events -> Prints \cup {None}],  \* _AUTOMATION_LOG, last entry
         ibr : SUBSET Rows]
Item == [event : Events, print : Prints, row : Rows \cup {None},
         status : {"WOULD_APPLY", "WOULD_ADOPT_EXISTING", "BLOCKED"},
         ibr : {"WOULD_WRITE_IBR", "WOULD_SKIP_IBR_ALREADY_PLANNED", "PENDING_IBR"}]

Labels   == {"idle", "plan", "tables", "items", "put", "verify", "ended"}
Outcomes == {"none", "planned", "applied", "adopted", "skipped", "error"}

EmptyBook == [cells |-> [r \in Rows |-> [marks |-> {}, by |-> None]],
              log |-> [e \in Events |-> None], ibr |-> {}]
Fresh == [pc |-> "idle", left |-> <<>>, plan |-> {}, at |-> None, batch |-> {},
          base |-> EmptyBook, book |-> EmptyBook, done |-> {}]
Nothing == [e \in Events |-> "none"]

TypeOK ==
    /\ table \in [Tables -> Book]
    /\ pdf \in [Events -> Prints]
    /\ rates \subseteq Rows
    /\ me \in [Runs -> [pc : Labels, left : Seq(Events), plan : SUBSET Item,
                        at : Tables \cup {None}, batch : SUBSET Item,
                        base : Book, book : Book, done : SUBSET Item]]
    /\ said \in [Runs -> [Events -> Outcomes]]
    /\ edits \in 0..MaxEdits
    /\ stale \in BOOLEAN

Init ==
    /\ table = [t \in Tables |-> EmptyBook]
    /\ pdf \in {[e \in Events |-> p] : p \in Prints}
    /\ rates \in SUBSET {Due[e] : e \in Events}
    /\ me = [r \in Runs |-> Fresh]
    /\ said = [r \in Runs |-> Nothing]
    /\ edits = 0
    /\ stale = FALSE

At(r, label) == me[r].pc = label
Become(r, state) == me' = [me EXCEPT ![r] = state]
Accounting == <<pdf, rates, edits>>

-----------------------------------------------------------------------------
(* The dry run                                                             *)

\* compare_existing_application
Compare(cell, content) ==
    CASE cell.marks = {} -> "APLICADO"
      [] cell.marks # {} /\ cell.marks \subseteq content -> "ADOPTADO_EXISTENTE"
      [] OTHER -> "REVISION_MANUAL"

First(rows) == CHOOSE r \in rows : \A s \in rows : r <= s

\* find_application_row_detailed: the first row that agrees, reserved or not,
\* else the first empty row no earlier asiento of this dry run reserved.
FindRow(e, content, reserved) ==
    LET cells == table[TableOf[e]].cells
        below == {r \in Rows : r >= Due[e]}
        same  == {r \in below : Compare(cells[r], content) = "ADOPTADO_EXISTENTE"}
        empty == {r \in below \ reserved : Compare(cells[r], content) = "APLICADO"}
    IN CASE same # {} -> [status |-> "WOULD_ADOPT_EXISTING", row |-> First(same)]
         [] same = {} /\ empty # {} -> [status |-> "WOULD_APPLY", row |-> First(empty)]
         [] OTHER -> [status |-> "BLOCKED", row |-> None]

\* _plan_ibr_block: one write per table and cut.
PlanIbr(e, plan) ==
    CASE \E i \in plan : /\ i.ibr = "WOULD_WRITE_IBR"
                         /\ TableOf[i.event] = TableOf[e]
                         /\ Due[i.event] = Due[e] -> "WOULD_SKIP_IBR_ALREADY_PLANNED"
      [] Due[e] \in rates /\ ~\E i \in plan : /\ i.ibr = "WOULD_WRITE_IBR"
                                              /\ TableOf[i.event] = TableOf[e]
                                              /\ Due[i.event] = Due[e] -> "WOULD_WRITE_IBR"
      [] OTHER -> "PENDING_IBR"

\* _plan_one_asiento_event
Planned(e, plan) ==
    LET reserved == {i.row : i \in {j \in plan : /\ j.status = "WOULD_APPLY"
                                                 /\ TableOf[j.event] = TableOf[e]}}
        found == FindRow(e, Content[e][pdf[e]], reserved)
    IN [event |-> e, print |-> pdf[e], row |-> found.row,
        status |-> found.status, ibr |-> PlanIbr(e, plan)]

Begin(r) ==
    /\ me[r].pc \in {"idle", "ended"}
    /\ \E m \in Manifests : Become(r, [Fresh EXCEPT !.pc = "plan", !.left = m])
    /\ said' = [said EXCEPT ![r] = Nothing]
    /\ UNCHANGED <<table, Accounting, stale>>

PlanEvent(r) ==
    /\ At(r, "plan") /\ me[r].left # <<>>
    /\ Become(r, [me[r] EXCEPT !.left = Tail(@),
                               !.plan = @ \cup {Planned(Head(me[r].left), @)}])
    /\ UNCHANGED <<table, Accounting, said, stale>>

\* validate_amortization_preflight: one asiento that cannot be placed stops
\* the whole run before any table is touched.
Preflight(r) ==
    /\ At(r, "plan") /\ me[r].left = <<>>
    /\ IF \E i \in me[r].plan : i.status = "BLOCKED"
       THEN Become(r, [Fresh EXCEPT !.pc = "ended"])
       ELSE Become(r, [me[r] EXCEPT !.pc = "tables"])
    /\ UNCHANGED <<table, Accounting, said, stale>>

\* A document cannot be downloaded or parsed, or has a warning that is not
\* allowed: the item is an error and the preflight fails.
PlanFails(r) ==
    /\ Faults
    /\ At(r, "plan")
    /\ Become(r, [Fresh EXCEPT !.pc = "ended"])
    /\ UNCHANGED <<table, Accounting, said, stale>>

-----------------------------------------------------------------------------
(* One table after the other                                               *)

Says(r, E, outcome) ==
    said' = [said EXCEPT ![r] = [e \in Events |-> IF e \in E THEN outcome ELSE @[e]]]

EventsOf(I) == {i.event : i \in I}

\* Go on to the next table.
NextTable(r) ==
    Become(r, [me[r] EXCEPT !.pc = "tables", !.at = None, !.batch = {}, !.done = {},
                            !.base = EmptyBook, !.book = EmptyBook])

\* TABLE_APPLY_FAILED, APPLY_SAFETY_ABORT: every item of the table is an error.
TableFails(r) ==
    /\ NextTable(r)
    /\ Says(r, {e \in Events : TableOf[e] = me[r].at /\ said[r][e] # "none"}, "error")

Download(r) ==
    /\ At(r, "tables")
    /\ \E t \in {TableOf[i.event] : i \in me[r].plan} :
          LET batch == {i \in me[r].plan : TableOf[i.event] = t} IN
          /\ Become(r, [me[r] EXCEPT !.pc = "items", !.at = t, !.batch = batch,
                                     !.plan = @ \ batch,
                                     !.base = table[t], !.book = table[t]])
          /\ Says(r, EventsOf(batch), "planned")
    /\ UNCHANGED <<table, Accounting, stale>>

DownloadRaises(r) ==
    /\ Faults
    /\ At(r, "tables")
    /\ \E t \in {TableOf[i.event] : i \in me[r].plan} :
          LET batch == {i \in me[r].plan : TableOf[i.event] = t} IN
          /\ Become(r, [me[r] EXCEPT !.plan = @ \ batch])
          /\ Says(r, EventsOf(batch), "error")
    /\ UNCHANGED <<table, Accounting, stale>>

Finish(r) ==
    /\ At(r, "tables") /\ me[r].plan = {}
    /\ Become(r, [Fresh EXCEPT !.pc = "ended"])
    /\ UNCHANGED <<table, Accounting, said, stale>>

-----------------------------------------------------------------------------
(* The items of a table, in the downloaded copy                            *)

\* Mutation of Verdict: the log of the table is not asked.
VerdictUnlogged(i, log, book) ==
    LET compare == Compare(book.cells[i.row], Content[i.event][i.print]) IN
    CASE compare = "REVISION_MANUAL" -> "abort"
      [] i.status = "WOULD_APPLY" /\ compare = "ADOPTADO_EXISTENTE" -> "abort"
      [] i.status = "WOULD_APPLY" /\ compare = "APLICADO" -> "applied"
      [] OTHER -> "adopted"

\* Mutation of Verdict: the row is not compared again.
VerdictUncompared(i, log, book) ==
    CASE log[i.event] # None -> "skipped"
      [] log[i.event] = None /\ i.status = "WOULD_APPLY" -> "applied"
      [] OTHER -> "adopted"

\* check_idempotency_against_log with the index load_automation_log_index made
\* of the downloaded log, then compare_existing_application with the row as the
\* items before have left it.
Verdict(i, log, book) ==
    LET logged  == log[i.event]
        compare == Compare(book.cells[i.row], Content[i.event][i.print])
    IN CASE logged # None /\ logged # i.print -> "error"   \* PDF_CHANGED_SAME_PATH
         [] logged = i.print -> "skipped"
         [] logged = None /\ compare = "REVISION_MANUAL" -> "abort"
         [] logged = None /\ i.status = "WOULD_APPLY" /\ compare = "ADOPTADO_EXISTENTE" -> "abort"
         [] logged = None /\ i.status = "WOULD_APPLY" /\ compare = "APLICADO" -> "applied"
         [] OTHER -> "adopted"

\* Mutation of Edited: the log row is written one column off.
EditedShifted(i, book) ==
    [cells |-> book.cells,
     log |-> [book.log EXCEPT ![i.event] = i.row],
     ibr |-> book.ibr]

\* write_payment_application (an adopted row is left as it is), write_ibr and
\* append_automation_log.
Edited(i, book) ==
    [cells |-> IF i.status = "WOULD_APPLY"
               THEN [book.cells EXCEPT ![i.row] =
                        [marks |-> Content[i.event][i.print], by |-> i.event]]
               ELSE book.cells,
     log |-> [book.log EXCEPT ![i.event] = i.print],
     ibr |-> book.ibr \cup
               (IF i.ibr = "WOULD_WRITE_IBR" THEN {Due[i.event]} ELSE {})]

\* The loop does not suspend; which item comes first makes no difference.
ApplyItem(r) ==
    /\ At(r, "items")
    /\ \E i \in me[r].batch :
          LET verdict == Verdict(i, me[r].base.log, me[r].book)
              rest    == [me[r] EXCEPT !.batch = @ \ {i}]
          IN \/ /\ verdict \in {"applied", "adopted"}
                /\ Become(r, [rest EXCEPT !.book = Edited(i, @), !.done = @ \cup {i}])
                /\ Says(r, {i.event}, verdict)
             \/ /\ verdict \in {"skipped", "error"}
                /\ Become(r, rest)
                /\ Says(r, {i.event}, verdict)
             \/ verdict = "abort" /\ TableFails(r)
    /\ UNCHANGED <<table, Accounting, stale>>

\* Nothing applied or adopted: the table is not uploaded.
ItemsDone(r) ==
    /\ At(r, "items") /\ me[r].batch = {}
    /\ IF me[r].done = {} THEN NextTable(r) ELSE Become(r, [me[r] EXCEPT !.pc = "put"])
    /\ UNCHANGED <<table, Accounting, said, stale>>

-----------------------------------------------------------------------------
(* Upload and verification                                                 *)

\* The whole workbook is put, whatever the table is by now.
Stored(r) ==
    /\ table' = [table EXCEPT ![me[r].at] = me[r].book]
    /\ stale' = (stale \/ table[me[r].at] # me[r].base)

Put(r) ==
    /\ At(r, "put")
    /\ Stored(r)
    /\ Become(r, [me[r] EXCEPT !.pc = "verify"])
    /\ UNCHANGED <<Accounting, said>>

\* Mutation of PutLocked: the items keep their outcome.
PutLockedUnmarked(r) ==
    /\ Faults
    /\ At(r, "put")
    /\ NextTable(r)
    /\ UNCHANGED <<table, Accounting, said, stale>>

\* 423: somebody has the workbook open.
PutLocked(r) ==
    /\ Faults
    /\ At(r, "put")
    /\ NextTable(r)
    /\ Says(r, EventsOf(me[r].done), "error")
    /\ UNCHANGED <<table, Accounting, stale>>

\* Any other error; the put may have been stored.
PutRaises(r) ==
    /\ Faults
    /\ At(r, "put")
    /\ Stored(r) \/ UNCHANGED <<table, stale>>
    /\ TableFails(r)
    /\ UNCHANGED Accounting

\* verify_uploaded_table
Verified(i, outcome, book) ==
    LET cell == book.cells[i.row]
        content == Content[i.event][i.print]
    IN /\ book.log[i.event] # None
       /\ i.ibr = "WOULD_WRITE_IBR" => Due[i.event] \in book.ibr
       /\ IF outcome = "adopted" THEN Compare(cell, content) = "ADOPTADO_EXISTENTE"
          ELSE cell.marks \cap Checked = content \cap Checked

Verify(r) ==
    /\ At(r, "verify")
    /\ NextTable(r)
    /\ Says(r, IF \A i \in me[r].done :
                     Verified(i, said[r][i.event], table[me[r].at])
               THEN {} ELSE EventsOf(me[r].done), "error")
    /\ UNCHANGED <<table, Accounting, stale>>

VerifyRaises(r) ==
    /\ Faults
    /\ At(r, "verify")
    /\ TableFails(r)
    /\ UNCHANGED <<table, Accounting, stale>>

-----------------------------------------------------------------------------
(* Accounting, and kills                                                   *)

\* Accounting fills or corrects a row by hand.
Edit(t, row) ==
    /\ edits < MaxEdits
    /\ edits' = edits + 1
    /\ \E f \in Fillings : table' = [table EXCEPT ![t].cells[row].marks = f]
    /\ UNCHANGED <<pdf, rates, me, said, stale>>

\* Accounting files another version of an asiento under the same path.
Refile(e) ==
    /\ edits < MaxEdits
    /\ edits' = edits + 1
    /\ \E p \in Prints \ {pdf[e]} : pdf' = [pdf EXCEPT ![e] = p]
    /\ UNCHANGED <<table, rates, me, said, stale>>

Publish(cut) ==
    /\ cut \notin rates
    /\ rates' = rates \cup {cut}
    /\ UNCHANGED <<table, pdf, me, said, edits, stale>>

Crash(r) ==
    /\ Crashes
    /\ me[r].pc \notin {"idle", "ended"}
    /\ Become(r, Fresh)
    /\ said' = [said EXCEPT ![r] = Nothing]
    /\ UNCHANGED <<table, Accounting, stale>>

RunStep(r) ==
    \/ PlanEvent(r) \/ Preflight(r) \/ Download(r) \/ ApplyItem(r) \/ ItemsDone(r)
    \/ Put(r) \/ Verify(r) \/ Finish(r)

RunFault(r) ==
    PlanFails(r) \/ DownloadRaises(r) \/ PutLocked(r) \/ PutRaises(r)
        \/ VerifyRaises(r) \/ Crash(r)

Next ==
    \/ \E r \in Runs : Begin(r) \/ RunStep(r) \/ RunFault(r)
    \/ \E t \in Tables, row \in Rows : Edit(t, row)
    \/ \E e \in Events : Refile(e) \/ Publish(Due[e])

Spec == Init /\ [][Next]_vars

-----------------------------------------------------------------------------
(* Properties                                                              *)

WrittenFor(e) == {row \in Rows : table[TableOf[e]].cells[row].by = e}

(* No asiento is written into its table twice: not by a repeated job, not  *)
(* by two overlapping ones, not after a put that raised, a kill, a row     *)
(* corrected by hand or a PDF filed again.                                 *)
PostedOnce == \A e \in Events : \A row, other \in WrittenFor(e) : row = other

(* As long as no put replaced a table that had changed since it was        *)
(* downloaded, an apply never writes over a filled row: what accounting    *)
(* typed and what an earlier job wrote stay where they are.                *)
EntriesStay ==
    [][~stale' => \A t \in Tables, row \in Rows :
          table[t].cells[row].marks # {}
             => table'[t].cells[row].by = table[t].cells[row].by]_vars

(* What an ended job reports is in the table, under the same condition: an *)
(* applied asiento has its row, and an applied, adopted or skipped one is  *)
(* in the automation log.                                                  *)
ReportedIsStored ==
    \A r \in Runs, e \in Events :
        ~stale /\ At(r, "ended") =>
            /\ said[r][e] = "applied" => WrittenFor(e) # {}
            /\ said[r][e] \in {"applied", "adopted", "skipped"}
                  => table[TableOf[e]].log[e] # None
=============================================================================
