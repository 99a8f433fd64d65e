----------------------------- MODULE ReportBook -----------------------------
(***************************************************************************)
(* The workbook of the bank's report and the jobs that work on its output  *)
(* columns: the validation, the endpoint that clears them and the mail of  *)
(* the rows found valid.  Each downloads the workbook, and the first two   *)
(* put it back whole: what the other has put in between is lost.           *)
(***************************************************************************)
EXTENDS ReportValidation

VARIABLES
    book,     \* the output columns, row by row; <<>> when they are empty
    job,      \* control of each job
    letter,   \* the rows the mail has read, with their extracts
    mailed,   \* the extracts the mail has attached
    leftOut   \* history: those whose download failed or that were too large

bookVars == <<book, job, letter, mailed, leftOut>>

Empty == [x \in {} |-> None]

Jobs  == {"validate", "clear", "mail"}
Phase == {"idle", "busy", "stopped", "done"}

\* What a validation leaves in which no listing succeeded.
AllRaised == [i \in DOMAIN Rows |-> Verdict(Rows[i], Fail("raised", {}))]

InitBook ==
    /\ book \in {<<>>, AllRaised}
    /\ job = [j \in Jobs |-> "idle"]
    /\ letter = Empty
    /\ mailed = None /\ leftOut = {}

\* The path column Rutas gives an extract.
PathOf(d) == [at |-> d[1], file |-> About[d[2]].file]

Goto(j, phase) == job' = [job EXCEPT ![j] = phase]

\* Columns that hold data stop the validation; the operator clears them and
\* calls it again.
OpenReport ==
    /\ job["validate"] \in {"idle", "stopped"}
    /\ Goto("validate", IF book = <<>> THEN "busy" ELSE "stopped")
    /\ UNCHANGED <<reportVars, book, letter, mailed, leftOut>>

AnswerReport == job["validate"] = "busy" /\ ReportNext /\ UNCHANGED bookVars

PutReport ==
    /\ job["validate"] = "busy" /\ Len(answers) = Len(Rows)
    /\ book' = answers
    /\ Goto("validate", "done")
    /\ UNCHANGED <<reportVars, letter, mailed, leftOut>>

GetToClear ==
    /\ job["clear"] = "idle"
    /\ Goto("clear", "busy")
    /\ UNCHANGED <<reportVars, book, letter, mailed, leftOut>>

PutCleared ==
    /\ job["clear"] = "busy"
    /\ book' = <<>>
    /\ Goto("clear", "idle")
    /\ UNCHANGED <<reportVars, letter, mailed, leftOut>>

\* Mutation of Mailable: column Estado is not asked.
MailableByValidado(answer) == answer.validado = "SI"

Mailable(answer) == answer.validado = "SI" /\ answer.estado = "OK"

\* Without such a row nothing is sent.
GetToMail ==
    /\ job["mail"] = "idle"
    /\ \E i \in DOMAIN book : Mailable(book[i])
    /\ letter' = [i \in {x \in DOMAIN book : Mailable(book[x])} |-> book[i].rutas]
    /\ Goto("mail", "busy")
    /\ UNCHANGED <<reportVars, book, mailed, leftOut>>

\* Column Rutas is split at its commas and every part is downloaded by its
\* path; the mail is sent with what could be and is not too large, or, with
\* the attachments switched off, with nothing.
Attachable == {DocAt(p) : p \in UNION {RutaPaths(PathOf(d)) : d \in UNION Range(letter)}}

SendMail ==
    /\ job["mail"] = "busy"
    /\ \E left \in SUBSET Attachable :
         /\ left = {} \/ moves < MaxMoves
         /\ mailed' = Attachable \ left
         /\ leftOut' = left
    /\ Goto("mail", "done")
    /\ UNCHANGED <<reportVars, book, letter>>

BookNext ==
    OpenReport \/ AnswerReport \/ PutReport \/ GetToClear \/ PutCleared \/ GetToMail \/ SendMail

BookTypeOK ==
    /\ ReportTypeOK
    /\ book \in Seq(Answer)
    /\ job \in [Jobs -> Phase]
    /\ DOMAIN letter \subseteq DOMAIN Rows /\ Range(letter) \subseteq SUBSET Listed
    /\ mailed \in (SUBSET Extracts) \cup {None} /\ leftOut \subseteq Extracts

-----------------------------------------------------------------------------
\* Every extract the mail attaches was counted for a row that came on or
\* after the extract's date and covers all the extracts named next to it; and
\* while accounting leaves the tree alone none of those of such a row is
\* missing, unless a comma in a name has cut its path in two, its download
\* failed or it was too large.  After one step of accounting an extract may
\* be missing but no other takes its place.
\* (send_validated_report_notification_email: "filtra filas Validado=SI y
\* Estado=OK, descarga los PDF indicados en Rutas")
MailedIsValidated ==
    mailed # None /\ moves <= 1 =>
        LET Covered(i) == /\ answers[i].observacion = "none"
                          /\ Rows[i].amount >= Total(answers[i].rutas)
                          /\ \A d \in answers[i].rutas : Rows[i].day >= FileDate(d[2])
        IN /\ \A e \in mailed : \E i \in DOMAIN answers :
                 Covered(i) /\ \E d \in answers[i].rutas : d[2] = e
           /\ moves = 0 =>
                 \A i \in DOMAIN answers : \A d \in answers[i].rutas :
                     /\ Covered(i) /\ ~name[Client].comma /\ ~name[d[1].unit].comma
                     => d[2] \in mailed \cup leftOut
=============================================================================
