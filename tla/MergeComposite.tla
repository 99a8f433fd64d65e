--------------------------- MODULE MergeComposite ---------------------------
(***************************************************************************)
(* The consolidation of payment PDFs: the notification that registers a    *)
(* process in row 2 of control_merge_pdfs.xlsx, the merge jobs that carry  *)
(* it out and the files they leave in SharePoint.                          *)
(*                                                                         *)
(* SharePoint offers a get and a put of a whole file.  Every update of the *)
(* control row is a get, an edit of some columns and a put: what others    *)
(* put in between is lost.                                                 *)
(*                                                                         *)
(* A process stands for the historical workbook and the e-mail PDF it      *)
(* registers.  A consolidated PDF is the set of <<payment, credit>> parts  *)
(* it was built from; a file that is not there is the empty set.           *)
(***************************************************************************)
EXTENDS Naturals, Sequences, FiniteSets

CONSTANTS
    None,          \* the empty path
    Processes,     \* notifications, each with its historical and e-mail PDF
    Payments,      \* the ID Pago groups
    CreditSet,     \* the credits, each with its folder of asientos
    PaymentsOf,    \* per process, the sequence of its payments, sorted by id
    CreditsOf,     \* per payment, the credits of its rows
    Bases, BaseOf, \* _merge_composite_output_basename: per payment a name
                   \* made of date, client and credits, not of the payment
    Merges,        \* merge jobs
    Forces,        \* the values of force_rebuild that are asked for
    Overlap,       \* TRUE: merge jobs may overlap
    Faults,        \* Graph calls on documents may raise
    ControlFaults, \* Graph calls on the control workbook may raise
    Crashes        \* a merge job may be killed

ASSUME MergeAssumption ==
    /\ None \notin Processes
    /\ PaymentsOf \in [Processes -> Seq(Payments)]
    /\ \A n \in Processes : \A i, j \in DOMAIN PaymentsOf[n] :
          PaymentsOf[n][i] = PaymentsOf[n][j] => i = j
    /\ Bases # {}
    /\ CreditsOf \in [Payments -> SUBSET CreditSet]
    /\ BaseOf \in [Payments -> Bases]
    /\ {Overlap, Faults, ControlFaults, Crashes} \cup Forces \subseteq BOOLEAN
    /\ IsFiniteSet(Payments)

Copies == 1 .. (Cardinality(Payments) + 1)
Files  == Bases \X Copies
Parts  == Payments \X CreditSet
NoFile == <<CHOOSE b \in Bases : TRUE, 0>>

VARIABLES
    row,       \* row 2 of the control workbook
    files,     \* the consolidated PDFs
    asientos,  \* the credits whose asiento PDF has been filed
    manifest,  \* per process, the outputs its last manifest lists
    pc,        \* per merge job
    view,      \* per merge job, the row it has read and not yet put
    snap,      \* per merge job, the process it validated
    force,     \* per merge job, its force_rebuild
    todo,      \* per merge job, the payments it still has to do
    items,     \* per merge job, the credit_items of the current payment
    outputs,   \* per merge job, what it consolidated or reused
    skipped,   \* per merge job, the payments it reported an omission for
    tallies,   \* per merge job and base, the names it allocated
    target,    \* per merge job, the file it is about to put
    npc,       \* per notification
    saw,       \* per notification about to put: the row it read was open
    there,     \* the control workbook exists
    setup,     \* control of the set-up call
    held,      \* the row the set-up has read and will put back
    trouble    \* history: a merge's control call raised, a merge was killed,
               \* or a notification put over what others put since it read

store == <<row, files, asientos, manifest>>
progress == <<todo, items, outputs, skipped, tallies, target>>
mine == <<view, snap, force, progress>>
setupVars == <<there, setup, held>>
noteVars == <<npc, saw>>
vars == <<store, pc, mine, noteVars, setupVars, trouble>>

Estados == {"VACIO", "PENDIENTE_ASIENTOS", "CONSOLIDANDO", "CONSOLIDADO",
            "MERGE_PARCIAL", "ERROR_MERGE"}
Row == [estado : Estados, active : BOOLEAN, process : Processes \cup {None}]

Before  == {"idle", "read", "mark", "markPut"}
Working == {"load", "group", "exists", "upload", "close", "closePut",
            "error", "errorPut"}
After   == {"manifest", "completed", "failed", "dead"}
NLabels == {"idle", "export", "get", "put", "registered", "blocked", "unregistered"}

TypeOK ==
    /\ row \in Row
    /\ files \in [Files -> SUBSET Parts]
    /\ asientos \subseteq CreditSet
    /\ manifest \in [Processes -> SUBSET Parts]
    /\ pc \in [Merges -> Before \cup Working \cup After]
    /\ view \in [Merges -> Row]
    /\ snap \in [Merges -> Processes \cup {None}]
    /\ force \in [Merges -> BOOLEAN]
    /\ todo \in [Merges -> Seq(Payments)]
    /\ items \in [Merges -> SUBSET CreditSet]
    /\ outputs \in [Merges -> SUBSET Parts]
    /\ skipped \in [Merges -> SUBSET Payments]
    /\ tallies \in [Merges -> [Bases -> Nat]]
    /\ target \in [Merges -> Bases \X (Copies \cup {0})]
    /\ npc \in [Processes -> NLabels]
    /\ saw \in [Processes -> BOOLEAN]
    /\ there \in BOOLEAN
    /\ setup \in {"idle", "get", "put", "create"}
    /\ held \in Row
    /\ trouble \subseteq {"control", "kill", "race"}

\* Row 2 of the workbook setup_merge_control_workbook creates.
EmptyRow == [estado |-> "VACIO", active |-> FALSE, process |-> None]

Init ==
    /\ row = EmptyRow
    /\ files = [f \in Files |-> {}]
    /\ asientos \in SUBSET CreditSet
    /\ manifest = [p \in Processes |-> {}]
    /\ pc = [m \in Merges |-> "idle"]
    /\ view = [m \in Merges |-> EmptyRow]
    /\ snap = [m \in Merges |-> None]
    /\ force = [m \in Merges |-> FALSE]
    /\ todo = [m \in Merges |-> <<>>]
    /\ items = [m \in Merges |-> {}]
    /\ outputs = [m \in Merges |-> {}]
    /\ skipped = [m \in Merges |-> {}]
    /\ tallies = [m \in Merges |-> [b \in Bases |-> 0]]
    /\ target = [m \in Merges |-> NoFile]
    /\ npc = [p \in Processes |-> "idle"]
    /\ saw = [p \in Processes |-> FALSE]
    /\ there \in BOOLEAN
    /\ setup = "idle"
    /\ held = EmptyRow
    /\ trouble = {}

Goto(m, label) == pc' = [pc EXCEPT ![m] = label]

\* What the job keeps in its local variables is gone with it.
Forget(m) ==
    /\ view' = [view EXCEPT ![m] = EmptyRow]
    /\ snap' = [snap EXCEPT ![m] = None]
    /\ force' = [force EXCEPT ![m] = FALSE]
    /\ todo' = [todo EXCEPT ![m] = <<>>]
    /\ items' = [items EXCEPT ![m] = {}]
    /\ outputs' = [outputs EXCEPT ![m] = {}]
    /\ skipped' = [skipped EXCEPT ![m] = {}]
    /\ tallies' = [tallies EXCEPT ![m] = [b \in Bases |-> 0]]
    /\ target' = [target EXCEPT ![m] = NoFile]
Live(m) == pc[m] \notin {"idle", "completed", "failed", "dead"}
Sending(n) == npc[n] \in {"export", "get", "put"}

-----------------------------------------------------------------------------
(* The notification (update_merge_control_workbook_after_notify)           *)

NGoto(n, label) == npc' = [npc EXCEPT ![n] = label]

\* A process is registered in the row.
Open(r) == r.active /\ r.process \in Processes

\* Mutation of Blocks: a merge that failed does not count as active.
BlocksButError(r) ==
    r.active /\ r.estado \in {"PENDIENTE_ASIENTOS", "CONSOLIDANDO", "MERGE_PARCIAL"}

\* _should_block_overwrite
Blocks(r) ==
    r.active /\ r.estado \in {"PENDIENTE_ASIENTOS", "CONSOLIDANDO",
                              "MERGE_PARCIAL", "ERROR_MERGE"}

\* The mail is sent first; a notification may be repeated until registered.
Send(n) ==
    /\ npc[n] \in {"idle", "blocked", "unregistered"}
    /\ setup = "idle"
    /\ NGoto(n, "export")
    /\ UNCHANGED <<store, pc, mine, saw, trouble, setupVars>>

\* The PDF copy of the mail; without it the process is not registered.
Export(n) ==
    /\ npc[n] = "export"
    /\ \/ NGoto(n, "get")
       \/ Faults /\ NGoto(n, "unregistered")
    /\ UNCHANGED <<store, pc, mine, saw, trouble, setupVars>>

NotifyGet(n) ==
    /\ npc[n] = "get"
    /\ \/ there /\ Blocks(row) /\ NGoto(n, "blocked") /\ UNCHANGED saw
       \/ there /\ ~Blocks(row) /\ NGoto(n, "put") /\ saw' = [saw EXCEPT ![n] = Open(row)]
       \/ (ControlFaults \/ ~there) /\ NGoto(n, "unregistered") /\ UNCHANGED saw
    /\ UNCHANGED <<store, pc, mine, trouble, setupVars>>

\* Every column the merge reads is overwritten, whatever the row is by now:
\* there is no lock, so others may have put since the notification read it.
NotifyPut(n) ==
    /\ npc[n] = "put"
    /\ LET registered ==
             [estado |-> "PENDIENTE_ASIENTOS", active |-> TRUE, process |-> n]
       IN \/ row' = registered /\ NGoto(n, "registered")
          \/ ControlFaults /\ row' \in {row, registered} /\ NGoto(n, "unregistered")
    /\ saw' = [saw EXCEPT ![n] = FALSE]
    /\ trouble' = IF Open(row) /\ ~saw[n] /\ row' # row
                  THEN trouble \cup {"race"} ELSE trouble
    /\ UNCHANGED <<files, asientos, manifest, pc, mine, setupVars>>

-----------------------------------------------------------------------------
(* The merge job: the control row                                          *)

\* Mutation of MayMerge: only a fresh process is merged.
MayMergeFresh(r) == r.active /\ r.estado = "PENDIENTE_ASIENTOS"

\* merge_control_parse_row2_validate_for_merge
MayMerge(r) ==
    /\ r.active /\ r.estado \in {"PENDIENTE_ASIENTOS", "ERROR_MERGE", "MERGE_PARCIAL"}
    /\ r.process # None

Begin(m) ==
    /\ pc[m] \in {"idle", "completed", "failed", "dead"}
    /\ setup = "idle"
    /\ Overlap \/ \A o \in Merges : ~Live(o)
    /\ Goto(m, "read")
    /\ \E f \in Forces : force' = [force EXCEPT ![m] = f]
    /\ UNCHANGED <<store, view, snap, progress, noteVars, trouble, setupVars>>

ReadControl(m) ==
    /\ pc[m] = "read"
    /\ IF there /\ MayMerge(row)
       THEN /\ Goto(m, "mark")
            /\ snap' = [snap EXCEPT ![m] = row.process]
            /\ UNCHANGED <<view, force, progress>>
       ELSE Goto(m, "failed") /\ Forget(m)
    /\ UNCHANGED <<store, noteVars, trouble, setupVars>>

ControlLabels == [mark |-> "markPut", close |-> "closePut", error |-> "errorPut"]

\* merge_control_upload_row2_updates downloads the workbook ...
ControlGet(m) ==
    /\ pc[m] \in DOMAIN ControlLabels
    /\ view' = [view EXCEPT ![m] = row]
    /\ Goto(m, ControlLabels[pc[m]])
    /\ UNCHANGED <<store, snap, force, progress, noteVars, trouble, setupVars>>

Consolidated(m) == outputs[m] # {} /\ skipped[m] = {}

\* Mutation of Edited: an error is written as a state no reader knows.
EditedError(m) ==
    CASE pc[m] = "markPut" -> [view[m] EXCEPT !.estado = "CONSOLIDANDO"]
      [] pc[m] = "errorPut" -> [view[m] EXCEPT !.estado = "ERROR"]
      [] OTHER -> [view[m] EXCEPT !.estado = "MERGE_PARCIAL", !.active = TRUE]

\* ... and puts it back with these columns changed.
Edited(m) ==
    CASE pc[m] = "markPut" -> [view[m] EXCEPT !.estado = "CONSOLIDANDO"]
      [] pc[m] = "errorPut" ->
            [view[m] EXCEPT !.estado = "ERROR_MERGE", !.active = TRUE]
      [] pc[m] = "closePut" /\ Consolidated(m) ->
            [view[m] EXCEPT !.estado = "CONSOLIDADO", !.active = FALSE]
      [] OTHER -> [view[m] EXCEPT !.estado = "MERGE_PARCIAL", !.active = TRUE]

ControlPut(m) ==
    /\ pc[m] \in {"markPut", "closePut", "errorPut"}
    /\ row' = Edited(m)
    /\ view' = [view EXCEPT ![m] = EmptyRow]
    /\ Goto(m, CASE pc[m] = "markPut" -> "load"
                 [] pc[m] = "closePut" -> "manifest"
                 [] OTHER -> "failed")
    /\ UNCHANGED <<files, asientos, manifest, snap, force, progress, noteVars, trouble, setupVars>>

\* Mutation of Escapes: the error is not written to the control row.
EscapesUnmarked(m) == Goto(m, "failed") /\ Forget(m)

\* An exception: ERROR_MERGE is written once CONSOLIDANDO has been, and a
\* failure to write it is only logged.
Escapes(m) ==
    /\ Goto(m, IF pc[m] \in Working \ {"error", "errorPut"} THEN "error" ELSE "failed")
    /\ Forget(m)

ControlRaises(m) ==
    /\ ControlFaults
    /\ pc[m] \in {"read", "mark", "markPut", "close", "closePut", "error", "errorPut"}
    /\ IF pc[m] \in {"markPut", "closePut", "errorPut"}
       THEN row' \in {row, Edited(m)} ELSE UNCHANGED row
    /\ Escapes(m)
    /\ trouble' = trouble \cup {"control"}
    /\ UNCHANGED <<files, asientos, manifest, noteVars, setupVars>>

-----------------------------------------------------------------------------
(* The merge job: the payments                                             *)

\* The bank report, the historical workbook and the e-mail PDF are read.
Load(m) ==
    /\ pc[m] = "load"
    /\ Goto(m, "group")
    /\ todo' = [todo EXCEPT ![m] = PaymentsOf[snap[m]]]
    /\ UNCHANGED <<store, view, snap, force, items, outputs, skipped, tallies, target, noteVars, trouble, setupVars>>

\* Loading, or looking for an existing output, raises.
DocumentRaises(m) ==
    /\ Faults
    /\ pc[m] \in {"load", "exists"}
    /\ Escapes(m)
    /\ UNCHANGED <<store, noteVars, trouble, setupVars>>

Payment(m) == Head(todo[m])

NextPayment(m) ==
    /\ Goto(m, "group")
    /\ todo' = [todo EXCEPT ![m] = Tail(@)]
    /\ items' = [items EXCEPT ![m] = {}]
    /\ target' = [target EXCEPT ![m] = NoFile]

\* The payment goes on with these credit_items.
WithItems(m, found) ==
    /\ Goto(m, "exists")
    /\ items' = [items EXCEPT ![m] = found]
    /\ UNCHANGED <<todo, target>>

\* Mutation of Prevalidate: a credit without asiento is left out silently.
PrevalidateSilently(m) ==
    /\ pc[m] = "group" /\ todo[m] # <<>>
    /\ LET found == CreditsOf[Payment(m)] \cap asientos IN
       IF found = {} THEN NextPayment(m) ELSE WithItems(m, found)
    /\ UNCHANGED <<store, view, snap, force, outputs, skipped, tallies, noteVars, trouble, setupVars>>

\* _prevalidate_id_pago_group: the credits whose asientos are filed become
\* credit_items, the others are reported as skipped.
Prevalidate(m) ==
    /\ pc[m] = "group" /\ todo[m] # <<>>
    /\ LET p == Payment(m)
           found == CreditsOf[p] \cap asientos
       IN /\ skipped' = [skipped EXCEPT ![m] =
                           IF found = {} \/ found # CreditsOf[p]
                           THEN @ \cup {p} ELSE @]
          /\ IF found = {} THEN NextPayment(m) ELSE WithItems(m, found)
    /\ UNCHANGED <<store, view, snap, force, outputs, tallies, noteVars, trouble, setupVars>>

Base(m)   == BaseOf[Payment(m)]
Done(m)   == {Payment(m)} \X items[m]
Exists(m) == files[<<Base(m), 1>>] # {}

\* An output of that name is there already and is not rebuilt.
Reuse(m) ==
    /\ pc[m] = "exists"
    /\ Exists(m) /\ ~force[m]
    /\ outputs' = [outputs EXCEPT ![m] = @ \cup Done(m)]
    /\ NextPayment(m)
    /\ UNCHANGED <<store, view, snap, force, skipped, tallies, noteVars, trouble, setupVars>>

\* _build_consolidated_pdf_parts and the name of the output: a rebuilt one
\* keeps the base name, for a new one _allocate_duplicate_pdf_name counts.
Build(m) ==
    /\ pc[m] = "exists"
    /\ ~Exists(m) \/ force[m]
    /\ tallies' = [tallies EXCEPT ![m][Base(m)] = @ + 1]
    /\ target' = [target EXCEPT ![m] =
                     <<Base(m), IF Exists(m) THEN 1 ELSE tallies'[m][Base(m)]>>]
    /\ Goto(m, "upload")
    /\ UNCHANGED <<store, view, snap, force, todo, items, outputs, skipped, noteVars, trouble, setupVars>>

\* A part cannot be downloaded.
BuildFails(m) ==
    /\ Faults
    /\ pc[m] = "exists"
    /\ ~Exists(m) \/ force[m]
    /\ skipped' = [skipped EXCEPT ![m] = @ \cup {Payment(m)}]
    /\ NextPayment(m)
    /\ UNCHANGED <<store, view, snap, force, outputs, tallies, noteVars, trouble, setupVars>>

Uploaded(m) == [files EXCEPT ![target[m]] = Done(m)]

Upload(m) ==
    /\ pc[m] = "upload"
    /\ files' = Uploaded(m)
    /\ outputs' = [outputs EXCEPT ![m] = @ \cup Done(m)]
    /\ NextPayment(m)
    /\ UNCHANGED <<row, asientos, manifest, view, snap, force, skipped, tallies,
                   noteVars, trouble, setupVars>>

\* Mutation of UploadFails: the output is listed all the same.
UploadFailsListed(m) ==
    /\ Faults
    /\ pc[m] = "upload"
    /\ files' \in {files, Uploaded(m)}
    /\ outputs' = [outputs EXCEPT ![m] = @ \cup Done(m)]
    /\ NextPayment(m)
    /\ UNCHANGED <<row, asientos, manifest, view, snap, force, skipped, tallies,
                   noteVars, trouble, setupVars>>

\* The put raises, and may have stored the file all the same.
UploadFails(m) ==
    /\ Faults
    /\ pc[m] = "upload"
    /\ files' \in {files, Uploaded(m)}
    /\ skipped' = [skipped EXCEPT ![m] = @ \cup {Payment(m)}]
    /\ NextPayment(m)
    /\ UNCHANGED <<row, asientos, manifest, view, snap, force, outputs, tallies,
                   noteVars, trouble, setupVars>>

\* No payment left; a historical workbook without any is an error.
GroupsDone(m) ==
    /\ pc[m] = "group" /\ todo[m] = <<>>
    /\ IF outputs[m] = {} /\ skipped[m] = {} THEN Escapes(m)
       ELSE Goto(m, "close") /\ UNCHANGED mine
    /\ UNCHANGED <<store, noteVars, trouble, setupVars>>

\* _upload_merge_manifest, after the control row; its failure is a warning.
Manifest(m) ==
    /\ pc[m] = "manifest"
    /\ \/ manifest' = [manifest EXCEPT ![snap[m]] = outputs[m]]
       \/ Faults /\ UNCHANGED manifest
    /\ Goto(m, "completed")
    /\ Forget(m)
    /\ UNCHANGED <<row, files, asientos, noteVars, trouble, setupVars>>

-----------------------------------------------------------------------------
(* The set-up of the control workbook (setup_merge_control_workbook), which *)
(* creates it, or repairs the table and the protection of its only sheet   *)
(* and puts the workbook back as it read it.  It is called by hand, before *)
(* or between the runs of the flow.                                        *)

SetupLooks ==
    /\ setup = "idle"
    /\ \A m \in Merges : ~Live(m)
    /\ \A n \in Processes : ~Sending(n)
    /\ setup' = IF there THEN "get" ELSE "create"
    /\ UNCHANGED <<store, pc, mine, noteVars, there, held, trouble>>

\* A workbook that is sound, or beyond repair, is not put.
SetupGet ==
    /\ setup = "get"
    /\ \/ setup' = "put" /\ held' = row
       \/ setup' = "idle" /\ UNCHANGED held
    /\ UNCHANGED <<store, pc, mine, noteVars, there, trouble>>

\* A put that fails is a warning, stored or not.
SetupPut ==
    /\ setup = "put"
    /\ row' = held \/ (ControlFaults /\ UNCHANGED row)
    /\ setup' = "idle" /\ held' = EmptyRow
    /\ UNCHANGED <<files, asientos, manifest, pc, mine, noteVars, there, trouble>>

SetupCreate ==
    /\ setup = "create"
    /\ there' \in IF ControlFaults THEN BOOLEAN ELSE {TRUE}
    /\ row' = EmptyRow
    /\ setup' = "idle"
    /\ UNCHANGED <<files, asientos, manifest, pc, mine, noteVars, held, trouble>>

SetupStep == SetupLooks \/ SetupGet \/ SetupPut \/ SetupCreate

-----------------------------------------------------------------------------

\* Accounting files an asiento PDF.
FileAsiento(c) ==
    /\ c \notin asientos
    /\ asientos' = asientos \cup {c}
    /\ UNCHANGED <<row, files, manifest, pc, mine, noteVars, trouble, setupVars>>

Crash(m) ==
    /\ Crashes
    /\ Live(m)
    /\ Goto(m, "dead")
    /\ Forget(m)
    /\ trouble' = trouble \cup {"kill"}
    /\ UNCHANGED <<store, noteVars, setupVars>>

MergeStep(m) ==
    \/ ReadControl(m) \/ ControlGet(m) \/ ControlPut(m)
    \/ Load(m) \/ Prevalidate(m) \/ Reuse(m) \/ Build(m) \/ Upload(m)
    \/ GroupsDone(m) \/ Manifest(m)

MergeFault(m) ==
    ControlRaises(m) \/ DocumentRaises(m) \/ BuildFails(m) \/ UploadFails(m)
        \/ Crash(m)

NotifyStep(n) == Export(n) \/ NotifyGet(n) \/ NotifyPut(n)

Next ==
    \/ \E m \in Merges : Begin(m) \/ MergeStep(m) \/ MergeFault(m)
    \/ \E n \in Processes : Send(n) \/ NotifyStep(n)
    \/ SetupStep
    \/ \E c \in CreditSet : FileAsiento(c)

Spec == Init /\ [][Next]_vars

\* The job runner runs a merge once it has begun, a set-up call ends, the
\* operator starts merges while a process is open, however often the set-up
\* is called in between, and accounting files the asientos.
Fairness ==
    /\ \A m \in Merges : WF_vars(MergeStep(m)) /\ SF_vars(Begin(m))
    /\ WF_vars(SetupGet \/ SetupPut \/ SetupCreate)
    /\ \A n \in Processes : WF_vars(NotifyStep(n))
    /\ \A c \in CreditSet : WF_vars(FileAsiento(c))

FairSpec == Spec /\ Fairness

-----------------------------------------------------------------------------
(* Properties                                                              *)

PaymentSet(n) == {PaymentsOf[n][i] : i \in DOMAIN PaymentsOf[n]}

(* A registered process leaves the control row only through a merge of     *)
(* that process that has an output for each of its payments: no            *)
(* notification that reads it replaces it, nor does a set-up called while  *)
(* nothing else is under way, and no failed, killed or partial merge       *)
(* closes it, as long as merges run one at a time and none of their writes *)
(* to the control workbook raised (one that did may have been stored).     *)
(* Notifications overlap as they like, and nothing in the code keeps two   *)
(* of them from reading an empty row and the later put from replacing the  *)
(* earlier one's process: the history has "race" from there on.            *)
OpenUntilMerged ==
    [][~Overlap /\ {"control", "race"} \cap trouble' = {}
         /\ Open(row) /\ (~row'.active \/ row'.process # row.process)
         => \E m \in Merges :
              /\ snap[m] = row.process
              /\ \A p \in PaymentSet(row.process) :
                    \E c \in CreditSet : <<p, c>> \in outputs[m]]_vars

(* A process reported CONSOLIDADO has a consolidated PDF in SharePoint     *)
(* under the name of each of its payments: one process, whatever merges    *)
(* overlap, or several, when merges run one at a time, the control         *)
(* workbook does not fail and no notification put over another's.          *)
ConsolidatedHasFiles ==
    row.estado = "CONSOLIDADO"
    /\ ("race" \notin trouble \/ \A n, o \in Processes : n = o) =>
        \A p \in PaymentSet(row.process) :
            \E n \in Copies : files[<<BaseOf[p], n>>] # {}

(* When no merge runs, the control row is one a merge or a notification    *)
(* can go on from: whatever raised on the way has been marked ERROR_MERGE, *)
(* however notifications overlap with the merges and with each other,      *)
(* unless a job was killed or the control workbook itself failed.          *)
NeverLeftConsolidating ==
    {"control", "kill"} \cap trouble = {} /\ (\A m \in Merges : ~Live(m)) =>
        row.estado # "CONSOLIDANDO"

(* Every output a manifest lists is a file the amortization jobs find.     *)
ManifestHasFiles ==
    \A n \in Processes : \A part \in manifest[n] :
        \E i \in Copies : files[<<BaseOf[part[1]], i>>] # {}

(* A process that is open is consolidated once its asientos are filed and  *)
(* the merge is run again, as the MERGE_PARCIAL message says.              *)
EventuallyClosed == row.active ~> ~row.active

(* The message of a partial merge asks to file what is missing and to run  *)
(* the merge again: then CONSOLIDADO means that the PDFs of each payment   *)
(* hold all its credits.                                                   *)
ConsolidatedIsComplete ==
    row.estado = "CONSOLIDADO" =>
        \A p \in PaymentSet(row.process) : \A c \in CreditsOf[p] :
            \E f \in Files : <<p, c>> \in files[f]
=============================================================================
