# Payment validation and amortization service: TLA+ models and proofs

The service (`src/app`, FastAPI) carries the payment validation of a lender from
the bank report to the amortization tables.  Power Automate calls its queue
endpoints and polls `GET /jobs/{id}`; all documents are Excel and PDF files in
SharePoint, reached over Microsoft Graph; jobs are kept in memory or in a Vercel
Blob store and run as FastAPI background tasks or as Vercel workflow steps with
an API-side fallback.  Nothing in it has a transaction: every update of a job
record, a lock, a control row or a table is a get followed by a put.

This directory holds TLA+ modules of the parts whose correctness depends on how
those gets and puts interleave, and of the rules by which the jobs read one and
the same folder of a client at different times; the TLC runs that check them on
small instances; and TLAPS proofs of all of their invariants and action
properties for every value of the constants.

## 1. Inventory

| Component | Source (`src/app/...`) | State | Operations | Hard behaviour |
|---|---|---|---|---|
| Job lifecycle | `application/jobs/job_run_guard.py`, `application/jobs/*_job.py` | the job record: status, phase, run id, result, error, started_at | claim, save, fail, reconcile, abort | two executions of one job, exceptions in every handler, stale puts |
| Runners | `adapters/secondary/vercel_workflow_job_runner.py`, `background_job_runner.py`, `workflows/` | the workflow run | start, dispatched write, delivery, redelivery | start that succeeds and raises, delivery before the dispatched write |
| API fallback | `application/jobs/vercel_workflow_fallback.py` | delay and poll window | look, poll, take over, mark stale | timeout against a late worker |
| Queue endpoints | `adapters/primary/http/routers/payment_validation.py` | - | `queue_*`, status, setup | error paths after the lock was taken |
| Job stores | `adapters/secondary/memory_job_store.py`, `vercel_blob_job_store.py` | records, results, locks | `update_job`, `get_job`, locks | no compare-and-swap |
| Locks | `application/job_manager.py`, `lock_utils.py`, `payment_validation_locks.py` | generate and finalize lock | try_start, finish, purge, clean-up | expiry, clean-up of a lock taken anew |
| PDF consolidation | `use_cases/merge_composite_validado_pdfs.py`, `merge_control_workbook_merge.py` | control row, output PDFs, manifest | merge | partial runs, re-runs, kills, put that raised but was stored |
| Registration | `use_cases/merge_control_workbook_notify.py`, `send_validar_extractos_notification.py` | control row | notify | racing a merge or another notification |
| Amortization dry run and apply | `use_cases/amortization_fill_*.py`, `services/amortization_*.py` | tables, their automation log | plan, preflight, apply, verify | re-runs, overlapping applies, tables edited in between |
| Generate | `use_cases/payment_validation_generate.py` | review workbook | match payments, write workbook | check-then-put on the review folder |
| Finalize, follow-ups | `use_cases/payment_validation_finalize.py`, `services/payment_followup_finalize.py` | history, support and follow-up workbooks | finalize | follow-ups registered before uploads that may fail |
| Validate report, clear, mail | `use_cases/validate_payment_report.py`, `clear_report_output_columns.py`, `send_validated_report_notification.py` | report workbook, cache of client and day | validate, clear, mail | files found in one job and sent by another; two jobs that put one workbook |
| A client's folder | `use_cases/payment_validation_generate.py`, `_finalize.py`, `services/payment_helpers.py` | folders, extracts, tables in SharePoint | list, choose, route, look up a table | stale listings; several rules for one number |
| Setup | `use_cases/setup_*.py` | control, IBR, follow-up workbooks | create, repair | repair racing a merge |
| Enrichment | `job_status_enrichment.py` | - | severity and text of a finished job | what is called a success |
| Parsing | `services/payment_helpers.py`, `accounting_pdf_parser.py`, `review_schema.py` | - | due day, credit, amount of a PDF | labels that occur twice |
| Graph and Blob clients | `adapters/secondary/*_client.py` | - | I/O | external |

What makes each part correct:

* **Jobs**: `completed` only after the use case was carried out; a terminal
  status is final; every queued job is settled; one execution at a time.
* **Locks**: generate and finalize exclude each other and themselves; nothing
  stays locked for ever; nothing is refused for a left-over lock.
* **Consolidation**: a registered process stays until a merge has an output for
  each of its payments; CONSOLIDADO means the PDFs are there and complete; a
  process can always be finished.
* **Amortization**: each asiento is written to one row once; a filled row is
  never written over; what a run reports is what the table holds.
* **Review**: every payment of the bank is a case or an error; what is published
  was approved and adds up to what the bank paid; no retry and no overlapping
  finalize registers a follow-up twice, nor loses one of its own date.
* **Documents**: every extract of a client is reviewed or told of; the line, the
  route, the mail, the PDF and the table are of one and the same extract; a
  merge or dry run told as a success is whole.  Calls that fail and are passed
  over bend this, and the properties say by how much.
* **Report**: a row is explained by the extracts that could be read and explain it
  best; what is mailed was found valid.

## 2. Modules

| Module | Models | Notes |
|---|---|---|
| `JobRecord` | the record of a job, the updates applied to it, the decisions taken on it | pure operators |
| `JobLifecycle` | handler, deliveries, fallback and record of one job | extends `JobRecord` |
| `JobContract` | what the polling client is promised | abstract specification, refined by `JobLifecycle` |
| `JobLifecycleProofs` | proofs about `JobLifecycle`, its refinement of `JobContract` included | TLAPS |
| `PaymentLocks` | the generate and finalize locks over either store | |
| `LocksProofs` | proofs about `PaymentLocks` | TLAPS |
| `MergeComposite` | control row, notifications, merge jobs, output files | |
| `MergeProofs` | proofs about `MergeComposite` | TLAPS |
| `AmortizationApply` | plan, preflight, apply and verification of the tables | |
| `AmortizationProofs` | proofs about `AmortizationApply` | TLAPS |
| `ReviewFlow` | generate, the secretary and finalize of one process date, with the follow-up workbooks | |
| `ReviewFlowProofs` | proofs about `ReviewFlow` | TLAPS |
| `ExtractText` | what is read in the text and the file name of an extract | pure operators |
| `CreditTree` | the folder of a client, and the rules by which generate, finalize, the merge and the dry run read it | extends `ExtractText` |
| `ReportValidation` | the validation of the bank's report over that folder | extends `CreditTree` |
| `ReportBook` | the report workbook: validate, clear, mail | extends `ReportValidation` |
| `JobSeverity` | the severity told for a finished finalize, merge and dry run | pure operators |
| `DocumentTrail` | the client's documents from generate to the dry run, composed with `ReportBook` over one tree | extends `ReportBook`, `JobSeverity` |
| `CreditTreeProofs`, `ReportBookProofs` | lemmas about the folder; about sums, the search and the report | TLAPS, extended by the next |
| `DocumentTrailProofs` | proofs about `DocumentTrail` | TLAPS |
| `MCJobLifecycle`, `MCPaymentLocks`, `MCMergeComposite`, `MCAmortization`, `MCReviewFlow`, `MCDocumentTrail` | constants and symmetry for TLC | |

`PROJECT.json` maps every definition to the lines it stands for.  Definitions
called "Mutation of ..." stand beside the one they change; they are never part
of a specification and only serve to see that a property can fail.

### JobLifecycle

One job.  Its actors are the request handler `Api`, the `Workers` (deliveries
of the workflow step, or the background task) and the `Fallback` task.  `pc[a]`
is the await an actor is at, `ctx[r]` the place in `run_job_body` that called
`reconcile_job_terminal`, `settled[r]` its local `terminal`.  `store` is the
deployment's store, chosen among `Stores`: in memory `update_job` is one step;
in Blob it is `WriteReads` and `WritePuts`, and `pend[a]` is the merged record
in between.  `Faults` says what may raise: each read and write of the `store`
(a write with or without effect), the `start` of the workflow, the `graph`
setup of a worker.  `Guarded` distinguishes generate and finalize, which run
under `run_job_body`, from the other jobs, whose claim and failure write are
outside their `try`.

`timer` and `age` are lower bounds: `Tick` may happen at any time, so a sleep
or a use case may last arbitrarily long.  Constants are ticks in the order of
the configured seconds: `Delay` (12 s in `.env.vercel.example`), `Takeover`
(20 s), `PollWait`, `Stale`.

Not modelled: the separate result blob of `VercelBlobJobStore` (result and meta
are one put here), `append_event`, the fallback's per-process claim set (one
queue request schedules one fallback).

### PaymentLocks

Requests of both endpoints take the lock (`TryStart`: purge both keys, look at
both, acquire), run and free it.  An actor's outstanding work is the sequence
`todo` of lock operations; `at` is the store call inside the first one.
`backend` is chosen at the start: in memory a request runs without suspension
until it answered, which `MayRun` expresses; in Blob every call is a step, and
a `Duplicates` delivery, whose `finally` frees the lock too, may come.  `Admin`
is the clean-up endpoint.  `Tick` counts down what is left of each lock; a job waits at most `StartDelay`
and runs at most `MaxRun`, the job step timeout, to which the code also sets the
TTL `Ttl`, counted from before the 202.  So a lock may expire under its job: the
history `overdue` is TRUE from the moment an admitted request has none left.  The model is of
`PAYMENT_VALIDATION_LOCKS_ENABLED=true`; with the default (`false`) nothing is
excluded.  The unconditional releases of the diagnostics router break the
exclusion by design and are left out.

### MergeComposite

`row` is row 2 of `control_merge_pdfs.xlsx`.  Notifications (`npc`) read it and
register their process, with nothing that keeps two of them, or one and a merge,
from overlapping; merge jobs validate it, mark CONSOLIDANDO, handle the
payments in order and close it.  A PDF is the set of (payment, credit) parts
it was built from, so a partial PDF and a complete one differ.  `Faults` lets
Graph calls on documents raise, `ControlFaults` those on the control workbook,
each put with or without effect; `Crashes` kills jobs.  `trouble` is history, since
the properties except what is in it: "control", a merge's control call raised;
"kill"; "race", a notification put its process over one that was not in the row
when it read (`saw`).

The set-up of the control workbook creates it, or reads it and puts back the row
it has read (`SetupLooks`, `SetupGet`, `SetupPut`, `SetupCreate`).  It is an
endpoint an operator calls by hand, so it begins while no merge is under way and
no notification is about to write, and none begins before it has ended.  Without
that condition TLC refutes `OpenUntilMerged` and `NeverLeftConsolidating`: the
repair puts row VACIO back over a process registered since, or CONSOLIDANDO over
a closed one.

### AmortizationApply

A table is its application rows (`cells`), its `_AUTOMATION_LOG` (`log`) and
the cuts that have a rate (`ibr`).  An apply job plans the events of a manifest
one by one (`PlanEvent`), passes or fails the preflight, then takes the tables
one after the other: `Download`, one `ApplyItem` per event on the copy
`me[r].book`, `Put` of the whole workbook, `Verify`.  Accounting acts in
between (`Edit`, `Refile`, `Publish`).  Whether an asiento is in the log is asked of
the table as it was downloaded (`me[r].base.log`), whatever the items before have
added to the copy: so `PostedOnce` also rests on a manifest naming no asiento
twice, which the merge sees to (`unique_paths_preserve_order`).

What a row's payment block holds is a *set of marks* (a column with its value),
so "empty", "agrees on the filled columns" and "differs" of
`compare_existing_application` are `{}`, `\subseteq` and the rest.  A cell with a
formula counts as blank there, and the difference between the formula and its
cached value is left out.  Hash and eTag of a PDF are one *print*: a difference
in either blocks the event.  The items of a table are taken in any order, which
contains the code's.  Locating the table and parsing the asiento are `TableOf`,
`Due` and `Content`; their failures, and warnings that are not allowed, are
`PlanFails`.

History: `by` names the event whose apply wrote a row; `stale` becomes TRUE
when a put replaces a table that has changed since it was downloaded.  The code
puts without `If-Match`, so this does happen; it loses rows, and properties
that need the rows to stay say so by `~stale`.  `PostedOnce` needs no such
condition.

### ReviewFlow

The files of one process date are `review` (01 REVISION), `history` and
`support` (02 HISTORICO); shared with all other dates are `pend` (the sheets Pendientes of the two follow-up
workbooks) and `folders` (the credits that have their folder of asientos).  A
generate looks at the review folder, builds a workbook from what it finds and
puts it (`Look`, `Build`, `Upload`).  The secretary fills in the sheet, edits
the two unlocked cells of Control and archives the workbook.  A finalize reads
the workbook once and checks it (`Read`, `Accepted`), provides the folder of
each validated line, looks for an earlier history, registers the follow-ups
workbook by workbook (`GetBook`, `PutBook`), and puts history and support.
`GenerateFails` and `FinalizeFails` are every call that raises, times out or
dies with its worker, carried out or not.

`exclusive` is chosen at the start.  Where it is TRUE there is one run at a
time, and the secretary may edit the review while a finalize runs.  Where it is
FALSE finalizes may overlap, which is the double execution `JobSingleExecution`
shows, and the secretary keeps away from the file meanwhile, so overlapping
runs of one date work on one and the same review.  A generate never overlaps another run:
that is what `PaymentLocks` is for.

The follow-up workbooks are shared by all dates and put without `If-Match`.
`Elsewhere` are finalizes of other dates as far as they touch them: each gets a
workbook, adds its row and puts it (`GetElsewhere`, `PutElsewhere`), at any time,
`exclusive` or not, since the locks are off by default.  A run whose copy was read
before another date's put is `overtaken`; the workbook it then puts is
`crossed`, and has lost rows.

`Readings` are the sets of bank rows that generate can read and assign to a
client; the others are errors.  A client may have no credit at all: its payment is an error and no case.  What
finalize registers of a line in a follow-up workbook is `RowsFor`, a set, since
the order in which new rows are appended (`Upsert`) is of no account: only the
keys decide what is overwritten.

Left out: the legacy tokens of the column Estado and the tolerance of 0.01;
the three amounts of a line are their sum; the search for client, credits and
extract gives one of the `Findings` of a line, the search for extract routes
succeeds or fails; the sheets Resumen and Listas; recreating the follow-up
workbooks by hand.  `last`, `replaced` and `blamed` are history.

### ExtractText, CreditTree

A text is the sequence of the labels and values in it, since the search for the
due day, the number of the obligation and TOTAL A PAGAR is a search for the first
value in a window after the first label of a list that has one.  A file name has
one of the four forms the code knows, or none.

A label (a folder's name, or column Credito) is reduced to the word in it, its
numbers in order, how many stand before the word, and whether there is a comma:
this is what the five rules for the number of a credit tell apart (`Digits`,
`MatchNumber`, `SegmentNumber`, `Standard`, `CreditFolders`).  A unit has its own
files and those of EXTRACTOS under it, which the endpoint of the folders creates
in each folder of a client; `tree` says where each extract lies.  Two extracts may have one
file name in different folders, never in one.  `Move` is accounting moving,
adding or deleting an extract; `MaxMoves` bounds it.

Generate chooses by the due day in the text (`ExtractPool`, `MaxDue`,
`Selection`) or, with GENERATE_EXTRACT_SELECTION_V2 off, by the pending
installment of the table and the file names (`Pending`, `StatementItem`).
Finalize finds an extract again by `RouteByFolder`, in which a failing listing of
EXTRACTOS counts as an empty one (`missed`).  A download that fails takes its
extract out of the choice (`Got`), although it is still listed: `Selection` tells
an empty pool from one of which nothing could be read.

### ReportValidation, ReportBook

A row of the report is its day and amount; the rows belong to one client.
`ScanFolder` is one listing, `MatchRow` the choice over what the listings gave,
`AnswerRow` the row's columns, from `cache` where the client and day were met
before.  `BestSubsetMatch` is the loop over the bit masks: `Masks(n)` lists the sets
of places in the order of the masks (the half without a bit, then the same sets
with it), `Improve` is the body of the loop and `SearchUpto` its state after so
many masks.  `ReportIsBest` compares the result with a definition by quantifiers.
`lost` are the extracts whose download failed: each is left out of its folder's sum
and the search goes on, so the definition speaks of the others.  In `ReportBook` the validation
looks at the columns once at its start and puts the workbook at its end, the
clearing reads and puts, the mail reads and then downloads by path; `leftOut`
is what it could not download, found too large, or was told not to attach.

### DocumentTrail

`stage` is the job in turn: the flow runs them one after the other, and `Touch`
(accounting) may come between any two calls.  A line remembers in `doc` which
extract generate has read: the sheet has its amount, day and link.  `Approve`
validates any set of lines and empties any of their cells Ruta, which the
sheet's lists permit.  `sent`, `taken`, `bundle` and `plan` are what the
notification, the merge and the dry run made of the lines.  The merge groups the
lines of a payment by credit; here it is one entry per line, since the parts of
a PDF are compared as sets.  A history of one payment is enough for this: rows
of different payments are never looked up in each other's place, since each key
has the ID Pago.

Calls that fail and that the code passes over are steps, and what they make a job
miss is history: `unread` (a download in generate, which then chooses an older
extract), `unlisted` (the listing of EXTRACTOS in finalize's search, which then
takes the folder's own extract), `unsent` (a look-up, download, size or switch in
the notification), `lost` and `leftOut` of the report.  In the merge a failing
look-up or listing skips the line and a failing download or upload the payment
(`SkipReasons`, `SkipPayment`).  A payment whose PDF is there already keeps it
(`ReusePdf`): the file may be of an earlier call (`MergeAgain`) or of another
payment of that name, so `reused` is all that is known of it.

A behaviour is either this trail or the work on the report (`Uses`), which share
the tree and nothing else.

Left out: hyperlinks with a share id (their Graph lookup is taken to fail, so
only the file name in the link is a hint), two extracts in one cell Ruta, the
remarks generate makes when the table records a later payment.  Left out as well
are calls whose failure ends the job or takes the payment into sheet Errores and
nothing else: the listings of generate, the download under its older rule, the
workbooks themselves.

## 3. Runs

| Run | Shows | Bounds and why they are enough |
|---|---|---|
| `JobBackground` | `CompletedMeansDone`; the record refines `JobContract` | one task, both stores, every store call failing, an API crash |
| `JobTakeoverLive` | `TerminalPayload`, `EventuallySettled` of a job outside `run_job_body` whose step may never be delivered | `Delay >= Takeover`, no crash: with a shorter delay or a crash it is false (below) |
| `JobWorkflow` | `TypeOK`, `CompletedMeansDone`, `SkippedMeansBegun` | two deliveries and the fallback are three concurrent executions; symmetric deliveries; ages up to 3 cover young, taken over and stale; workers killed anywhere |
| `Locks` | `TypeOK`, `MutualExclusion` (memory), `NoOrphanLock`, `NoSpuriousConflict` | one request of each kind, a duplicate, the clean-up, left-overs expired and of an older TTL; TTL equal to the step timeout and a start that may be late, so locks expire under running jobs |
| `Merge` | `TypeOK`, `ManifestHasFiles`, `NeverLeftConsolidating`, `OpenUntilMerged` | the set-up called between jobs, with no workbook or one to repair; two processes whose notifications overlap as they like, twin payments that reach the `_2` names, every call failing, kills |
| `MergeLive` | `ConsolidatedHasFiles`, `EventuallyClosed` | one process, two overlapping jobs, partial runs, `force_rebuild` both ways |
| `Amortization` | `TypeOK`, `PostedOnce`, `EntriesStay`, `ReportedIsStored` | two jobs, two asientos of one date competing for two rows, a manifest that grows, one act of accounting, every call failing, kills |
| `Review` | `TypeOK`, `AccountedFor`, `KeyedOnce`, `FollowedUp`, `FollowUpsStay`, `PublishedIsUsable`, `SupportMatches`, `ReplacementReported`, `FailsForCause` | three payments of which one cannot be read, four lines, two generates, two finalizes and one of another date, two contents of the sheet of which one does not add up in some workbooks, every call failing |
| `Trail` | `TypeOK`, `NothingOverlooked`, `ReviewedIsNewest`, `RouteIsReviewed`, `FiledIsAccepted`, `SuccessIsWhole`, `SentIsMerged`, `TableOfLine`, `ReportIsBest`, `MailedIsValidated` | two folders and the client's own, five choices of names, four extracts of which two share a file name, three rows of the report, one act of accounting or one failing call at any place, two asientos, a merge called again, both rules of generate |

In `Trail` two folders let one line's folder, number or table be taken for the
other's; the names are those on which the rules for a number disagree ("3 264",
a number before the word, a comma, no number, a bare number, another use).  Two
extracts of one name are what a stale path may be taken for, one act of accounting suffices to make
any listing or path stale, and the properties that hold with it are stated for
`moves <= 1`: two acts may put another extract of the same name in the place of
the one that was read, which nothing notices.  Those stated for `moves = 0`
(`NothingOverlooked`, `ReviewedIsNewest`, `RouteIsReviewed`, `ReportIsBest`)
compare the result with the tree itself and cannot hold if it changed since.
Failing calls share the bound `MaxMoves` with accounting (`Room`), those of the
notification and the merge without using it up; so every single failing call meets the
properties stated for `moves = 0`, and several do in the mail and the merge.
`MergeAgain` is bounded in the same way.
Three rows of two days reach the cache, a day before every extract, and two
folders that must be added up.

In `Merge` two notifications reach every overlap, since a put depends on one
read only.  In `Locks` one tick of waiting is enough for a lock to end before its
job: `MutualExclusion` is stated until then, the other invariants throughout.

In `Review` a payment of a client with two credits and one of a client with one
are enough to tell apart a case, an error and both, and to let a line change
from the incomplete payments to the advances between two finalizes; a second
generate gives the same payments new IDs, and one finalize of another date crosses
the copies of any run.  Runs differ by name only, so they are symmetric.  Deadlock is not checked there, since the flow of a date ends.

In `Amortization` one table is enough, since a job works on one at a time and
nothing but the report is shared between tables; two rows are enough for an
asiento to be planned into the second after the first was edited; `MaxEdits`
bounds edits and refiled PDFs together.

Runs that refute what a text of the repository says (each with its finding in
`PROJECT.json`):

| Run | Text | What happens |
|---|---|---|
| `JobSingleExecution` | "solo si nadie más está ejecutando" | two executions read before either claims |
| `JobStuckDispatched` | "la API toma el job si el worker no pasa a executing" | one look, before the takeover age |
| `MergeIncomplete` | "suba los archivos requeridos y ejecute de nuevo" | the partial PDF is reused |

Deadlock is checked in every run but `Review` and `Trail`, whose flows end: time, a
new job or a new request is always possible.

### Other disagreements, kept out of the runs

Found with the same modules and instances, and kept here as text:

* A completed job can go back to running: the runner's dispatched write is
  unconditional and may land last (`job_run_guard.py:55` says this is avoided).
* A worker killed inside the use case after the fallback's only look leaves the
  job `executing` for good (`vercel_workflow_fallback.py:89` says the fallback
  marks it failed).
* The lock's TTL equals the job step timeout but starts at the 202, so it
  expires under a job that waited (`job_store_settings.py:28`), and another one
  is admitted beside it: without `~overdue` TLC refutes `MutualExclusion`.
* Two requests over the Blob store may both acquire: the re-read that is to
  notice a lost race compares holders that are all `global`
  (`vercel_blob_job_store.py:290`).
* Two payments of one client with the same credits have one output name, and
  the second takes the first one's file, so "cada pago validado quedó en un
  solo PDF" (`job_status_enrichment.py:739`) is not so.
* A merge killed after CONSOLIDANDO leaves a row neither merges nor
  notifications accept; an ERROR_MERGE write after a closing put that was
  stored and raised reopens a process.
* Two notifications that both read a row without an open process both register,
  and the later put replaces the earlier one's process, which no merge has
  carried out and about which nobody is told (`merge_control_workbook_notify.py:106`
  to `:222`); one that read the row before another process was registered may
  also replace it while a merge works on it.
* An asiento adopted by the dry run is not compared with an *empty* row when it
  is applied: a row cleared in between is logged as adopted.  The verification
  reports it, but the log entry stays and later applies skip the asiento.
* Adopting compares filled columns only, so a row with nothing but the date is
  adopted as it is and the amounts are never written.
* The rate of a cut is planned with the first asiento of that cut.  If that one
  is skipped as already logged, nobody writes the rate.
* Follow-ups are registered before the uploads, although the docstring of
  `payment_followup_finalize.py` speaks of rows added after finalize: a run
  whose upload fails leaves the follow-ups of a history that is not there.
* A finalize that is repeated after a line changed from incomplete to advance
  adds it to the other workbook and leaves it in the first one; the repeated
  registration also resets columns that were filled in since.
* A review that is generated again has new IDs of its payments, so a payment
  can be followed up once per generated review; two credits of one payment whose
  labels agree share a row, since the key is (ID Pago, Crédito).
* The follow-up workbooks are shared by all process dates: finalizes of two dates
  that overlap may each put a copy read before the other's put, and rows of the
  first are lost (`payment_followup_finalize.py:127-206`).  Both report a success.
* "Pagos banco" of sheet Resumen adds cases and errors, and counts a payment
  that is both twice.
* Where the locks are disabled, which is the default, two overlapping generates
  both find the review folder empty and the second replaces the file of the
  first.
* Two overlapping finalizes may both find no history of the date; the second
  replaces that of the first and does not report it (`ReplacementReported` is
  stated for one run at a time).

Of a client's documents:

* The client's own folder has a name that may look like a credit's.  Its line then
  has that name in column Credito, and with the cell Ruta emptied finalize looks
  among the folders for it and may give the line another unit's extract:
  `RouteIsReviewed` is stated for lines whose column fits their unit's folder alone.
* Generate, finalize and the merge read the number of a credit by three rules: in
  "LEASING 3 264" generate and the merge see 3, finalize 264, so the folder is
  ASIENTOS CONTABLES CRED 264 and the merge refuses what is filed there under
  that number.  `FiledIsAccepted` excepts labels on which they disagree.
* Where two lines of a payment have one number, the index of the historical
  workbook keeps the later one, also a line that was not validated: the asiento
  of the first is planned into the other's table, or into none
  (`amortization_fill_dry_run.py:306`).
* A path in the cell Ruta is used without a look at the tree.  If the file is
  gone, the notification attaches the others and is told a success, while the
  merge skips the line.
* With the cell emptied, a line whose column Credito is not the name of its folder
  may be given the extract of another unit, or none, which fails the finalize.
  Under the older rule of generate even the right folder may give another file.
* Column Ruta and column Rutas are split at every comma, so an extract of a client
  or unit with a comma in its name is attached to no mail, and its line is
  skipped by the merge.
* EXTRACTOS of the client's own folder is overlooked by generate when other folders
  are units, and read by the report, which reads none of the units' EXTRACTOS.
* With GENERATE_EXTRACT_SELECTION_V2 off, a unit that keeps its extracts in
  EXTRACTOS only gives the folder itself as its extract; the download fails and
  takes the lines of all units of the payment into one error.
* A merge with neither outputs nor skipped lines, and an apply in which tables
  failed, are told as a success.
* The report keeps the combination found for a client and day: a later row of that
  day is compared with the first one's, although the docstring says that it is
  matched with its own Credito.  A row that pays less than the total, within the
  tolerance, is explained exactly and still NO.
* An extract moved between two listings of one row is counted twice; one whose
  name ends in no date ("Extracto 2026-03-20 CREDITO # 264") is not seen by the
  report; an unreadable one is passed over without a word.
* The validation says it stops when columns hold data, to overwrite nothing, but
  looks only at its start: a clearing or an edit meanwhile is lost, and a
  clearing that read before its put erases it.
* The mail of the report, and that of the extracts, go out with attachments missing:
  a file that is gone, too large or could not be downloaded is passed over, and one
  variable switches all of them off
  (`send_validar_extractos_notification.py:689,948,1104`,
  `send_validated_report_notification.py:156,282`).  The merge bundles these
  extracts all the same.
* A download that fails in generate is passed over with a debug line, and an
  older extract is reviewed instead of the newest (`payment_validation_generate.py:580`).
* A listing that fails in finalize's search counts as empty: an extract in EXTRACTOS
  is missed and the folder's own is published in its place
  (`payment_validation_finalize.py:681`).
* A download that fails in the validation of the report takes the extract out of its
  folder's sum, and another combination of folders may be reported as the one that
  explains the row (`validate_payment_report.py:652`).
* A merge that keeps a PDF of an earlier, partial call for one payment and writes
  another's is told as a success, although the kept one lacks the asientos filed
  since (`merge_composite_validado_pdfs.py:964`).

### Fairness

`Fairness` of `JobLifecycle` is weak fairness of every runner's step, every
store step, the fallback's steps and time: the event loop runs what is ready
and a use case under `run_with_timeout` ends.  Delivery of a workflow step is
*not* assumed.  In `MergeComposite` a merge or set-up that has begun goes on, and accounting
files the asientos; the operator begins merges again and again, also after a
set-up made it wait (strong fairness of `Begin`); kills and failing calls have no
fairness.  `PaymentLocks`, `AmortizationApply`, `ReviewFlow` and `DocumentTrail`
state no liveness: a lock is freed by time, and an apply or a finalize that fails
is repeated by hand or not.

## 4. Proofs

Every theorem is of the specification, `Spec => []P`, for every value of the
constants, hence without the bounds of the runs.  Each names the code it is about
in the comment before it.  The table lists them with the invariant they rest on.

| Module | Theorem | Property | Inductive invariant |
|---|---|---|---|
| `JobLifecycleProofs` | `TypeCorrect` | `TypeOK` | itself |
| | `CompletedIsDone` | `CompletedMeansDone` | `DoneInv` |
| | `PayloadAgrees` | `TerminalPayload` | `PayloadInv` |
| | `SkippedLeavesWork` | `SkippedMeansBegun` | `BegunInv` |
| | `BackgroundKeepsContract` | `KeepsContract` | `BackInv` |
| `LocksProofs` | `TypeCorrect`, `ScriptCorrect` | `TypeOK` | `ScriptInv` |
| | `OrphanFree` | `NoOrphanLock` | `FreshIsOwed` |
| | `ConflictsAreReal` | `NoSpuriousConflict` | `GotBy` |
| | `Exclusion` | `MutualExclusion` | `ExclusionInv` |
| `MergeProofs` | `TypeCorrect` | `TypeOK` | `IInv` |
| | `ManifestsAreFiled` | `ManifestHasFiles` | `ManifestFiles` |
| | `MarkedOrEnded` | `NeverLeftConsolidating` | `WorkedOn` |
| | `LeavesOnlyMerged` | `OpenUntilMerged` | `OrderInv` |
| | `ConsolidatedIsFiled` | `ConsolidatedHasFiles` | `ClosedHasFiles` |
| `AmortizationProofs` | `TablesTypeCorrect` | `TypeOK` | itself |
| | `AsientosPostedOnce` | `PostedOnce` | `OnceInv` |
| | `FilledRowsStay` | `EntriesStay` | `CopyInv` |
| | `ReportsAreStored` | `ReportedIsStored` | `ReportInv` |
| `ReviewFlowProofs` | `TypeCorrect` | `TypeOK` | `TypeInv` |
| | `PublishedUsable` | `PublishedIsUsable` | `Prepares` |
| | `ReplacementIsReported` | `ReplacementReported` | `Reports` |
| | `PaymentsAccountedFor` | `AccountedFor` | `CompleteInv` |
| | `FailuresHaveCauses` | `FailsForCause` | itself |
| | `SupportFollowsHistory` | `SupportMatches` | `SupportInv` |
| | `FollowUpsKeyed`, `FollowUpsAreKept` | `KeyedOnce`, `FollowUpsStay` | `SheetInv` |
| | `FollowUpsRegistered` | `FollowedUp` | `FollowInv` |
| `DocumentTrailProofs` | `TrailTypeCorrect` | `TypeOK` | `TypeInv` |
| | `NoneOverlooked` | `NothingOverlooked` | `CoverInv` |
| | `RoutesAreReviewed`, `ReviewedAreNewest` | `RouteIsReviewed`, `ReviewedIsNewest` | `ReadInv` |
| | `FiledAccepted` | `FiledIsAccepted` | itself |
| | `SuccessWhole` | `SuccessIsWhole` | `WholeInv` |
| | `SentAreMerged` | `SentIsMerged` | `SentMergedInv` |
| | `TablesOfLines` | `TableOfLine` | `TableInv` |
| | `MailedAreValidated` | `MailedIsValidated` | `PostInv` |
| | `AnswersAreBest` | `ReportIsBest` | `BestInv` |

### The arguments

**Jobs.**  A put may store a record read long before, so an invariant of the record
alone is never inductive: `DoneInv` and `PayloadInv` speak of the stored record
*and of every pending one*.  `DoneInv`: a record that is completed, or carries
a result, has the return of some use case behind it, and so has a runner at
`save` or `promote`.  `PayloadInv`: status and payload agree.  `BegunInv`: while no
use case has begun, whatever anybody reads or is about to store lets a delivery
begin.  `BackInv` follows the single task: the status of the record is known at
each of its places, so each put is a step of `JobContract` or a stutter.

**Locks.**  `ScriptInv` says that what is left in `todo` is a rest of the sequence
the handler runs, which is what tells that an acquire comes after both looks.
`FreshIsOwed`: a lock that would refuse a request belongs to a request that has
yet to release it; a clean-up or a duplicate only ever deletes.
`ExclusionInv` concerns memory while no lock is overdue: one actor is inside a call at
a time (`Alone`), what it has found still holds (`FoundBy`), and the lock of an
admitted request is there and not expired (`CoveredBy`), since nothing but time
takes it away.

**Consolidation.**  `Kept` says of each merge that every payment is still to be done,
skipped or among its outputs (`Accounted`), that its outputs were put, and, for
the type of the file names, that a name is numbered at most once per payment
begun (`Counted`).  `WorkedOn`: a row in CONSOLIDANDO belongs to a merge that will
still write it, however notifications overlap.  `Ordered` is what single merges give
as long as `trouble` has no "control" and no "race": the row is the one the merge has
read, and a notification about to put has read no open row, so that it can replace a
process only by a race, which the history then holds.

**Amortization.**  A put replaces a table by a copy made long ago, so `OnceInv` and
`CopyInv` speak of every stored table *and every job's copy*.  `Sound`: an
asiento the log does not name has no row, and none has two; since rows and log
are put together, a stale put loses both or neither.  That the row search would
find a written row again is *not* used, as rows are corrected by hand.  `Copied`:
a copy differs from what was downloaded only in rows that were empty, and its log
names nothing but what the job has done.  Since the log is asked as it was
downloaded, this also needs `Single`: a job's items name an asiento once, and of
those still to be applied the copy's log says what the downloaded one said.  `Reported`: what a job claims is
in the table, or in its copy with the put still to come, and if that raises the
claim is taken back.

**Review.**  What is put was read and checked long before, so the invariants speak
of the runs.  `Prepares`: the workbook of a run under way is accepted and the
folders it has passed exist, which are never removed.  `OverlapInv`: where
finalizes of the date may overlap they work on one and the same review, so the history
a run finds between its uploads is its own whoever put it (`SupportInv`).  A sheet
Pendientes read before the put of another run of the date lacks only rows that the run
puts itself, and one read before the put of another date's is `overtaken`
(`SheetInv`); what a run has registered therefore stays registered unless its
workbook is `crossed` (`FollowInv`).

**Documents.**  `TypeInv` also says where a value comes from: the pool is of the
unit in turn, nothing is approved before there is a sheet, a route is there once
finalize has passed.  `CoverInv`: the units before the one in turn have exactly one
line or entry, the others none; no line is lost as a duplicate, since paths lie in
their units; and the listing has left no unit out.  `ReadInv`: the path of a line
lies in its unit and, if nobody touched the tree, leads to the extract read, the
newest by its due day of those not `unread`; `FoundAgain` shows that finalize's
other rules come to the same file, of an `unlisted` line where it is the folder's
own.  `WholeInv`: a validated line has a reason in `skips` or is in
`taken` with all its asientos, and a PDF that is not `reused` holds them.  `SentInv`: with one act of accounting a route leads
to what the notification was offered, to send or to leave out, or nowhere; two acts could put another file of the name there.
`TableInv`: the asientos of a bundle are from the folder of its line.  For the
report, `KeptInv` says the same of the extracts in cache and answers, and
`LetterInv` that the mail has read a finished validation.

**The search.**  `BestInv`: while nobody touches the tree `found` has the extracts of
the places listed so far, an answer is the verdict on what the cache has for its
day, and that is what the first row of the day got, a failure or `Match` over
all the extracts but those lost.  TLC checked it on the instance of `Trail`.  The rest is about
`Match` alone.  `MasksAre`: the list of masks has every set of places, and only the
first is empty.  `SearchIs`: after m masks the search keeps the best of the sets
seen.  `BestSubsetMatchIs`: at its end, the best of all.  `SumOfParts`: the sum over
some places is the total of the extracts in their folders.  `FolderImages`: sets of
places and sets of folders match one to one, because no folder is looked at twice.
`BestExplains` puts them together.  These are inductions over data, for which the
library's theorems take an operator; `UptoInduction` and `SubsetInduction` take a
set in its place and are proved from the least element of a set of naturals, and
`SumsExist`, `MaskTableExists` and `BestTableExists` show that the recursive
functions and the fold of the sums are what their definitions say.

`CreditTreeProofs` has what these need of the operators: a path leads to at most
one extract and still does after an act of accounting (`DocIs`, `MovedDoc`),
`MaxDue` and `PickExtract` choose a file that is there (`SelectedIs`,
`PickExtractIs`), the search for a folder finds the unit (`RouteIs`).  `PickedIs`
is about the subsequences that the units, the lines without duplicates and the
folders of the search are.

### Hypotheses

Assumed are the named assumptions on the constants, which TLC evaluates on the runs:
`RecordAssumption`, `ActorAssumption`, `LocksAssumption`, `MergeAssumption`,
`ApplyAssumption`, `FlowAssumption`, `ExtractAssumption`, `TreeAssumption`,
`ReportAssumption`, `TrailAssumption`.  Some of their conjuncts are there for the
proofs alone: a process lists a payment once (the merge groups the lines by ID
Pago in a dict), a manifest an asiento once, a folder is listed once, a place has one file of a name (as
SharePoint has), there are finitely many extracts, `None` is no value of another
kind.

A theorem with a condition on the deployment says so in an ASSUME of its own:

* `PayloadAgrees`: `~Guarded`.  Under `run_job_body` the completing save leaves the
  field of the error alone, so of two executions of which the first failed the
  second ends completed with an error.
* `SkippedLeavesWork`: `"store" \notin Faults`.  A delivery whose look at the record
  raised marks the job failed and ends, and the next one is then skipped although
  nobody has begun.
* `BackgroundKeepsContract`: `InBackground`, that is `BackgroundJobRunner`, one
  task, under `run_job_body`.  With several deliveries a stale put breaks the
  contract (Other disagreements).
* `OrphanFree`, `ConflictsAreReal`: `StaleLeftovers`, what an earlier process left
  has expired or is of an older policy.  A fresh left-over does refuse
  requests until its TTL.
* `ConsolidatedIsFiled`: `Undisturbed`, one process, or merges one at a time and
  a control workbook that does not fail.  Else a merge of one process may close
  the row of another.

The conditions within the properties are those of the runs, and each stands for
something the code does and the properties would otherwise not survive (Other
disagreements): `~stale` (no table replaced by an older copy), `trouble`, `~overdue`,
`crossed`, `exclusive`, `moves = 0` or `<= 1` (accounting), and what failing calls
made a job miss: `unread`, `unlisted`, `unsent`, `leftOut`, `lost`, `reused`.
`Exclusion` needs no relation between the TTL and the timeouts.

### Only model-checked

Liveness (`EventuallySettled`, `EventuallyClosed`), which is out of the prover's
reach.  Every invariant and every action property of a run is proved.

## 5. Plan

1. `JobRecord`, `JobLifecycle`, `JobContract`: done and proved, but for `EventuallySettled`.
2. `PaymentLocks`: done and proved.
3. `MergeComposite`: done and proved, but for `EventuallyClosed`.
4. `AmortizationApply`: done and proved.
5. `ReviewFlow`: done and proved.
6. `ExtractText`, `CreditTree`, `ReportValidation`, `ReportBook`, `JobSeverity`,
   `DocumentTrail`: done and proved.
7. To do: `BlobJobStore`, result before meta, refining an atomic store, composed
   with `JobLifecycle` and `PaymentLocks`.

### Not modelled

* The arithmetic of a line: mora, the share of each credit in a payment, the
  waterfall of finalize, IBR.  It is decimal arithmetic of one function at a
  time, which a unit test reaches.
* The parser of an asiento, header and sheet search of the workbooks, number
  formats and the layout of the sheets: characters and cells, no interaction.
* The texts of the enrichment, recipients and bodies of the mails.
* `ensure_asientos_contables_folders` (posts of folders that are missing) and
  `merge_sharepoint_folder_pdfs` (a listing, then a put), the read-only endpoints
  and the set-ups of the IBR and follow-up workbooks.
* The Graph and Blob clients and the workflow service, which are external: their
  calls are gets, puts and deletes that may raise with or without effect.
* Hazards of the code outside the runs' reach: `set_job` of the queued record
  raising before the handler's `try` (the lock stays for its TTL,
  `payment_validation.py:131`) and a dispatched write failing after the start
  (the lock is freed under a running job, `vercel_workflow_job_runner.py:75`)
  need the composition of the jobs with the locks, planned under 7.

## 6. Running

    tlc -config JobWorkflow.cfg MCJobLifecycle
    tlc -config Locks.cfg MCPaymentLocks
    tlc -config Merge.cfg MCMergeComposite
    tlc -config Amortization.cfg MCAmortization
    tlc -config Review.cfg MCReviewFlow
    tlc -config Trail.cfg MCDocumentTrail
    tlapm JobLifecycleProofs.tla
    tlapm LocksProofs.tla
    tlapm MergeProofs.tla
    tlapm AmortizationProofs.tla
    tlapm ReviewFlowProofs.tla
    tlapm CreditTreeProofs.tla
    tlapm ReportBookProofs.tla
    tlapm DocumentTrailProofs.tla

The other configurations of `MCJobLifecycle` and `MCMergeComposite` are run in
the same way.
