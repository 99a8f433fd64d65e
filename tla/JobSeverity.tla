----------------------------- MODULE JobSeverity -----------------------------
(***************************************************************************)
(* What the status endpoint tells Power Automate of a finished job:        *)
(* job_status_enrichment reads the stored result and says success, warning *)
(* or error; the texts are left out.                                       *)
(***************************************************************************)
Severities == {"success", "warning", "error"}

\* outputs, skipped: some PDF was made, some line was left out; rewritten:
\* not only those of an earlier run were found.
MergeSeverity(outputs, skipped, rewritten) ==
    IF (outputs /\ ~rewritten) \/ skipped THEN "warning" ELSE "success"

\* Mutation of DryRunSeverity: the errors are not looked at.
DryRunSeverityDone(events, errors) == "success"

\* A dry run with events in error.
DryRunSeverity(events, errors) == IF events /\ errors THEN "warning" ELSE "success"

\* A finalize that put its workbooks over those of an earlier one.
FinalizeSeverity(existed) == IF existed THEN "warning" ELSE "success"
=============================================================================
