---------------------------- MODULE MergeProofs ----------------------------
(***************************************************************************)
(* Proofs about the consolidation of payment PDFs, for any processes,      *)
(* payments, merges and notifications, whatever raises or is killed.       *)
(***************************************************************************)
EXTENDS MergeComposite, FiniteSetTheorems, TLAPS

HasFile(p) == \E i \in Copies : files[<<BaseOf[p], i>>] # {}

\* The merge knows its process; it is busy with the payments.
Knows    == {"mark", "markPut", "load", "group", "exists", "upload",
             "close", "closePut", "manifest"}
Grouping == {"group", "exists", "upload"}
Closing  == {"close", "closePut", "manifest"}

Left(m) == {todo[m][i] : i \in 1 .. Len(todo[m])}

\* Every payment is still to be done, reported as skipped or among the outputs.
Accounted(m) ==
    \A p \in PaymentSet(snap[m]) :
        \/ p \in Left(m)
        \/ p \in skipped[m]
        \/ \E c \in CreditSet : <<p, c>> \in outputs[m]

\* A name is allocated at most once for each payment that has been begun.
Counted(m) ==
    \A b \in Bases :
        tallies[m][b] + Len(todo[m])
            <= Cardinality(Payments) + (IF pc[m] = "upload" THEN 1 ELSE 0)

\* What one merge keeps fits the place where it is.
Kept(m) ==
    /\ pc[m] \notin Grouping \cup Closing =>
          /\ todo[m] = <<>> /\ outputs[m] = {} /\ skipped[m] = {}
          /\ tallies[m] = [b \in Bases |-> 0]
    /\ pc[m] \in Knows => snap[m] \in Processes
    /\ pc[m] \in {"exists", "upload"} => todo[m] # <<>> /\ items[m] # {}
    /\ pc[m] = "upload" => target[m] \in Files /\ target[m][1] = BaseOf[Head(todo[m])]
    /\ pc[m] \in Closing => todo[m] = <<>>
    /\ pc[m] \in Grouping \cup Closing => Accounted(m)
    /\ pc[m] \in Grouping => Counted(m)
    /\ \A part \in outputs[m] : HasFile(part[1])

\* While the set-up is under way nobody else touches the control row, and it
\* puts back the row as it is.
SetupAlone ==
    setup # "idle" =>
        /\ \A m \in Merges : ~Live(m)
        /\ \A n \in Processes : ~Sending(n)
        /\ setup = "put" => held = row
        /\ setup = "create" <=> ~there

\* The row of a process under way is there to be updated.
RowThere ==
    /\ ~there => row = EmptyRow
    /\ \A n \in Processes : npc[n] = "put" => there
    /\ \A m \in Merges :
          /\ pc[m] \in Knows \cup {"error", "errorPut"} =>
                there /\ row.process \in Processes
          /\ pc[m] \in {"markPut", "closePut", "errorPut"} => view[m].process \in Processes

Keeps == (\A m \in Merges : Kept(m)) /\ SetupAlone /\ RowThere

-----------------------------------------------------------------------------
ManifestFiles == \A n \in Processes : \A part \in manifest[n] : HasFile(part[1])

\* A row in CONSOLIDANDO belongs to a merge that will still change it.
WorkedOn ==
    {"control", "kill"} \cap trouble = {} /\ row.estado = "CONSOLIDANDO" =>
        \E m \in Merges : pc[m] \in Working

-----------------------------------------------------------------------------
\* Merges one at a time, none of their writes to the control row raised, and no
\* notification put over what another had put since it read.
Orderly == ~Overlap /\ "control" \notin trouble /\ "race" \notin trouble

\* The merge under way works on the row's process; a notification about to put
\* has not read an open one; what the merge has read of the row is still what
\* is there.
Ordered ==
    /\ row.active => row.estado \in {"PENDIENTE_ASIENTOS", "CONSOLIDANDO",
                                     "MERGE_PARCIAL", "ERROR_MERGE"}
    /\ row.active => row.process \in Processes
    /\ \A m, o \in Merges : Live(m) /\ Live(o) => m = o
    /\ \A n \in Processes : npc[n] = "put" => ~saw[n]
    /\ \A m \in Merges :
          /\ pc[m] \in {"mark", "markPut"} \cup Working => row.active
          /\ pc[m] \in Knows \ {"manifest"} => row.process = snap[m]
          /\ pc[m] \in {"markPut", "closePut", "errorPut"} => view[m] = row

OrderInv == Orderly => Ordered

-----------------------------------------------------------------------------
\* Either the deployment has one process to merge, or merges run one at a time
\* and the control workbook does not fail.
Undisturbed ==
    \/ \A n, o \in Processes : n = o
    \/ ~Overlap /\ ~ControlFaults

NoControlTrouble == ~ControlFaults => "control" \notin trouble

ClosedHasFiles ==
    row.estado = "CONSOLIDADO"
    /\ ("race" \notin trouble \/ \A n, o \in Processes : n = o) =>
        /\ row.process \in Processes
        /\ \A p \in PaymentSet(row.process) : HasFile(p)

-----------------------------------------------------------------------------
(***************************************************************************)
(* Lemmas about the data.                                                  *)
(***************************************************************************)

(* A process has at most as many payments as there are.                    *)
LEMMA PaymentsBound ==
    ASSUME NEW n \in Processes
    PROVE  /\ PaymentsOf[n] \in Seq(Payments) /\ Len(PaymentsOf[n]) \in Nat
           /\ Cardinality(Payments) \in Nat
           /\ Len(PaymentsOf[n]) <= Cardinality(Payments)
  <1> DEFINE s == PaymentsOf[n]
             k == Len(s)
             D == 1 .. k
  <1>1. s \in Seq(Payments) /\ k \in Nat /\ s \in [D -> Payments] /\ DOMAIN s = D
    <2>1. s \in Seq(Payments)
      BY MergeAssumption
    <2> HIDE DEF s
    <2> QED
      BY <2>1
  <1>2. IsFiniteSet(Payments) /\ Cardinality(Payments) \in Nat
    BY MergeAssumption, FS_CardinalityType
  <1>3. \A i, j \in D : s[i] = s[j] => i = j
    BY <1>1, MergeAssumption
  <1> HIDE DEF s, k
  <1>4. IsFiniteSet(D) /\ Cardinality(D) = k
    <2>1. 1 \in Int /\ k \in Int /\ (1 > k <=> k = 0) /\ k - 1 + 1 = k
      BY <1>1
    <2> QED
      BY <2>1, FS_Interval
  <1>5. ~(Cardinality(Payments) < Cardinality(D))
    BY <1>1, <1>2, <1>3, <1>4, FS_PigeonHole
  <1>6. k <= Cardinality(Payments)
    BY <1>1, <1>2, <1>4, <1>5
  <1> QED
    BY <1>1, <1>2, <1>6 DEF s, k

LEMMA CopiesType ==
    /\ Cardinality(Payments) \in Nat /\ 1 \in Copies
    /\ Copies = 1 .. (Cardinality(Payments) + 1)
    /\ NoFile \in Bases \X (Copies \cup {0})
  <1>1. Cardinality(Payments) \in Nat
    BY MergeAssumption, FS_CardinalityType
  <1>2. (CHOOSE b \in Bases : TRUE) \in Bases
    BY MergeAssumption
  <1> QED
    BY <1>1, <1>2 DEF Copies, NoFile

(* The first of the payments that are left, and the others.                *)
LEMMA LeftSplits ==
    ASSUME NEW s \in Seq(Payments), s # <<>>
    PROVE  /\ Head(s) \in Payments /\ Tail(s) \in Seq(Payments)
           /\ Len(s) \in Nat /\ Len(s) > 0 /\ Len(Tail(s)) = Len(s) - 1
           /\ {s[i] : i \in 1 .. Len(s)}
                \subseteq {Head(s)} \cup {Tail(s)[i] : i \in 1 .. Len(Tail(s))}
  <1>1. /\ Head(s) \in Payments /\ Tail(s) \in Seq(Payments) /\ Head(s) = s[1]
        /\ Len(s) \in Nat /\ Len(s) > 0 /\ Len(Tail(s)) = Len(s) - 1
        /\ \A i \in 1 .. Len(Tail(s)) : Tail(s)[i] = s[i + 1]
    OBVIOUS
  <1>2. ASSUME NEW i \in 1 .. Len(s), i # 1
        PROVE  s[i] \in {Tail(s)[j] : j \in 1 .. Len(Tail(s))}
    <2> DEFINE j == i - 1
    <2>1. j \in 1 .. Len(Tail(s)) /\ j + 1 = i
      BY <1>1, <1>2
    <2>2. Tail(s)[j] = s[i]
      BY <1>1, <2>1
    <2> QED
      BY <2>1, <2>2
  <1> QED
    BY <1>1, <1>2

LEMMA RowTypes ==
    /\ EmptyRow \in Row
    /\ \A r \in Row, e \in Estados, b \in BOOLEAN :
          /\ [r EXCEPT !.estado = e] \in Row
          /\ [r EXCEPT !.estado = e, !.active = b] \in Row
    /\ \A n \in Processes :
          [estado |-> "PENDIENTE_ASIENTOS", active |-> TRUE, process |-> n] \in Row
  BY DEF EmptyRow, Row, Estados

LEMMA RowFields ==
    ASSUME NEW r \in Row, NEW e \in Estados, NEW b \in BOOLEAN
    PROVE  /\ [r EXCEPT !.estado = e].process = r.process
           /\ [r EXCEPT !.estado = e].active = r.active
           /\ [r EXCEPT !.estado = e].estado = e
           /\ [r EXCEPT !.estado = e, !.active = b].process = r.process
           /\ [r EXCEPT !.estado = e, !.active = b].active = b
           /\ [r EXCEPT !.estado = e, !.active = b].estado = e
  BY DEF Row

(* What a merge puts is a row of the process it has read.                  *)
LEMMA EditedType ==
    ASSUME NEW m \in Merges, view[m] \in Row, pc[m] \in {"markPut", "closePut", "errorPut"}
    PROVE  /\ Edited(m) \in Row
           /\ Edited(m).process = view[m].process
           /\ pc[m] = "markPut" =>
                 Edited(m).estado = "CONSOLIDANDO" /\ Edited(m).active = view[m].active
           /\ pc[m] = "errorPut" =>
                 Edited(m).estado = "ERROR_MERGE" /\ Edited(m).active = TRUE
           /\ pc[m] = "closePut" /\ Consolidated(m) =>
                 Edited(m).estado = "CONSOLIDADO" /\ Edited(m).active = FALSE
           /\ pc[m] = "closePut" /\ ~Consolidated(m) =>
                 Edited(m).estado = "MERGE_PARCIAL" /\ Edited(m).active = TRUE
  <1>0. {"CONSOLIDANDO", "ERROR_MERGE", "CONSOLIDADO", "MERGE_PARCIAL"} \subseteq Estados
        /\ TRUE \in BOOLEAN /\ FALSE \in BOOLEAN
    BY DEF Estados
  <1> DEFINE v == view[m]
             x == Edited(m)
  <1>5. v \in Row
    OBVIOUS
  <1>1. CASE pc[m] = "markPut"
    <2>1. x = [v EXCEPT !.estado = "CONSOLIDANDO"]
      BY <1>1 DEF Edited
    <2>3. x \in Row /\ x.process = v.process /\ x.estado = "CONSOLIDANDO" /\ x.active = v.active
      <3> HIDE DEF x, v
      <3> QED
        BY <1>0, <1>5, <2>1 DEF Row
    <2> QED
      BY <1>1, <2>3
  <1>2. CASE pc[m] = "errorPut"
    <2>1. pc[m] # "markPut" /\ pc[m] # "closePut"
      BY <1>2
    <2>2. x = [v EXCEPT !.estado = "ERROR_MERGE", !.active = TRUE]
      BY <1>2, <2>1, Zenon DEF Edited
    <2>3. x \in Row /\ x.process = v.process /\ x.estado = "ERROR_MERGE" /\ x.active = TRUE
      <3> HIDE DEF x, v
      <3> QED
        BY <1>0, <1>5, <2>2 DEF Row
    <2> QED
      BY <1>2, <2>3
  <1>3. CASE pc[m] = "closePut" /\ Consolidated(m)
    <2>1. pc[m] # "markPut" /\ pc[m] # "errorPut"
      BY <1>3
    <2>2. x = [v EXCEPT !.estado = "CONSOLIDADO", !.active = FALSE]
      BY <1>3, <2>1, Zenon DEF Edited
    <2>3. x \in Row /\ x.process = v.process /\ x.estado = "CONSOLIDADO" /\ x.active = FALSE
      <3> HIDE DEF x, v
      <3> QED
        BY <1>0, <1>5, <2>2 DEF Row
    <2> QED
      BY <1>3, <2>3
  <1>4. CASE pc[m] = "closePut" /\ ~Consolidated(m)
    <2>1. pc[m] # "markPut" /\ pc[m] # "errorPut"
      BY <1>4
    <2>2. x = [v EXCEPT !.estado = "MERGE_PARCIAL", !.active = TRUE]
      BY <1>4, <2>1, Zenon DEF Edited
    <2>3. x \in Row /\ x.process = v.process /\ x.estado = "MERGE_PARCIAL" /\ x.active = TRUE
      <3> HIDE DEF x, v
      <3> QED
        BY <1>0, <1>5, <2>2 DEF Row
    <2> QED
      BY <1>4, <2>3
  <1> QED
    BY <1>1, <1>2, <1>3, <1>4

-----------------------------------------------------------------------------
(***************************************************************************)
(* A step of a merge leaves the others' variables alone.                   *)
(***************************************************************************)
MergeActs(m) == Begin(m) \/ MergeStep(m) \/ MergeFault(m)

SameOwn(m) ==
    /\ pc'[m] = pc[m] /\ view'[m] = view[m] /\ snap'[m] = snap[m] /\ todo'[m] = todo[m]
    /\ items'[m] = items[m] /\ outputs'[m] = outputs[m] /\ skipped'[m] = skipped[m]
    /\ tallies'[m] = tallies[m] /\ target'[m] = target[m]

\* The types of what the merges keep.
OwnType ==
    /\ pc \in [Merges -> Before \cup Working \cup After]
    /\ view \in [Merges -> Row]
    /\ snap \in [Merges -> Processes \cup {None}]
    /\ force \in [Merges -> BOOLEAN]
    /\ todo \in [Merges -> Seq(Payments)]
    /\ items \in [Merges -> SUBSET CreditSet]
    /\ outputs \in [Merges -> SUBSET Parts]
    /\ skipped \in [Merges -> SUBSET Payments]
    /\ tallies \in [Merges -> [Bases -> Nat]]
    /\ target \in [Merges -> Bases \X (Copies \cup {0})]

LEMMA OthersOwn ==
    ASSUME OwnType, NEW m \in Merges, MergeActs(m), NEW o \in Merges, o # m
    PROVE  SameOwn(o)
  <1>1. CASE Begin(m)
    BY <1>1 DEF Begin, Goto, progress, OwnType, SameOwn
  <1>2. CASE ReadControl(m)
    BY <1>2 DEF ReadControl, Forget, Goto, progress, OwnType, SameOwn
  <1>3. CASE ControlGet(m) \/ ControlPut(m)
    BY <1>3 DEF ControlGet, ControlPut, Goto, progress, OwnType, SameOwn
  <1>4. CASE Load(m) \/ Build(m)
    BY <1>4 DEF Load, Build, Goto, OwnType, SameOwn
  <1>5. CASE Prevalidate(m) \/ Reuse(m) \/ Upload(m) \/ BuildFails(m) \/ UploadFails(m)
    BY <1>5 DEF Prevalidate, Reuse, Upload, BuildFails, UploadFails, NextPayment, WithItems,
       Goto, OwnType, SameOwn
  <1>6. CASE GroupsDone(m)
    BY <1>6 DEF GroupsDone, Escapes, Forget, Goto, mine, progress, OwnType, SameOwn
  <1>7. CASE Manifest(m) \/ Crash(m)
    BY <1>7 DEF Manifest, Crash, Forget, Goto, OwnType, SameOwn
  <1>8. CASE ControlRaises(m) \/ DocumentRaises(m)
    BY <1>8 DEF ControlRaises, DocumentRaises, Escapes, Forget, Goto, OwnType, SameOwn
  <1> QED
    BY <1>1, <1>2, <1>3, <1>4, <1>5, <1>6, <1>7, <1>8 DEF MergeActs, MergeStep, MergeFault

(* A merge that forgets what it kept starts from nothing.                  *)
LEMMA Forgotten ==
    ASSUME OwnType, NEW m \in Merges, Forget(m)
    PROVE  /\ view'[m] = EmptyRow /\ snap'[m] = None /\ todo'[m] = <<>>
           /\ outputs'[m] = {} /\ skipped'[m] = {} /\ tallies'[m] = [b \in Bases |-> 0]
  BY DEF Forget, OwnType

(* The pieces of the type invariant.                                       *)
SharedType ==
    /\ row \in Row
    /\ files \in [Files -> SUBSET Parts]
    /\ asientos \subseteq CreditSet
    /\ manifest \in [Processes -> SUBSET Parts]
    /\ npc \in [Processes -> NLabels]
    /\ saw \in [Processes -> BOOLEAN]
    /\ there \in BOOLEAN
    /\ setup \in {"idle", "get", "put", "create"}
    /\ held \in Row
    /\ trouble \subseteq {"control", "kill", "race"}

LEMMA TypeParts == TypeOK <=> OwnType /\ SharedType
  BY DEF TypeOK, OwnType, SharedType

LEMMA StepKinds ==
    ASSUME [Next]_vars
    PROVE  \/ \E m \in Merges : MergeActs(m)
           \/ \E n \in Processes : Send(n) \/ NotifyStep(n)
           \/ SetupStep
           \/ \E c \in CreditSet : FileAsiento(c)
           \/ UNCHANGED vars
  BY DEF Next, MergeActs

(* Only a merge's step changes what merges keep.                           *)
LEMMA OwnStays ==
    ASSUME \/ \E n \in Processes : Send(n) \/ NotifyStep(n)
           \/ SetupStep
           \/ \E c \in CreditSet : FileAsiento(c)
           \/ UNCHANGED vars
    PROVE  /\ UNCHANGED <<files, manifest, pc, mine>>
           /\ trouble \subseteq trouble' /\ trouble' \subseteq trouble \cup {"race"}
  BY DEF Send, NotifyStep, Export, NotifyGet, NotifyPut, SetupStep, SetupLooks, SetupGet,
     SetupPut, SetupCreate, FileAsiento, vars, store

(* The payment a merge is at, and the parts it makes of it.                *)
LEMMA CurrentPayment ==
    ASSUME OwnType, NEW m \in Merges, Kept(m), pc[m] \in {"exists", "upload"}
    PROVE  /\ todo[m] \in Seq(Payments) /\ todo[m] # <<>>
           /\ Payment(m) \in Payments /\ Base(m) \in Bases
           /\ Tail(todo[m]) \in Seq(Payments)
           /\ Done(m) \subseteq Parts /\ Done(m) # {}
           /\ \A part \in Done(m) : part[1] = Payment(m)
           /\ \E c \in CreditSet : <<Payment(m), c>> \in Done(m)
  <1>1. todo[m] \in Seq(Payments) /\ todo[m] # <<>>
    BY DEF OwnType, Kept
  <1>2. Payment(m) \in Payments /\ Tail(todo[m]) \in Seq(Payments)
    BY <1>1, LeftSplits DEF Payment
  <1>3. Base(m) \in Bases
    BY <1>2, MergeAssumption DEF Base
  <1>4. items[m] # {} /\ items[m] \subseteq CreditSet
    BY DEF OwnType, Kept
  <1>5. PICK c \in items[m] : c \in CreditSet
    BY <1>4
  <1>6. <<Payment(m), c>> \in Done(m)
    BY <1>5 DEF Done
  <1>7. \A part \in Done(m) : part[1] = Payment(m)
    BY DEF Done
  <1>8. Done(m) \subseteq Parts
    BY <1>2, <1>4 DEF Done, Parts
  <1> QED
    BY <1>1, <1>2, <1>3, <1>5, <1>6, <1>7, <1>8

(* A file that is there is never emptied.                                  *)
LEMMA FilesGrow ==
    ASSUME OwnType, SharedType, \A m \in Merges : Kept(m), [Next]_vars,
           NEW p \in Payments
    PROVE  HasFile(p) => HasFile(p)'
  <1>1. CASE UNCHANGED files
    BY <1>1 DEF HasFile
  <1>2. ASSUME NEW m \in Merges, Upload(m) \/ UploadFails(m)
        PROVE  HasFile(p) => HasFile(p)'
    <2>1. pc[m] = "upload" /\ files' \in {files, Uploaded(m)}
      BY <1>2 DEF Upload, UploadFails
    <2>2. CASE files' = Uploaded(m)
      <3>1. \A f \in Files : files[f] # {} => files'[f] # {}
        BY <2>1, <2>2, CurrentPayment DEF Uploaded, SharedType
      <3>2. \A i \in Copies : <<BaseOf[p], i>> \in Files
        BY MergeAssumption DEF Files
      <3> QED
        BY <3>1, <3>2 DEF HasFile
    <2> QED
      BY <1>1, <2>1, <2>2
  <1>3. ASSUME NEW m \in Merges, MergeActs(m), ~Upload(m), ~UploadFails(m)
        PROVE  UNCHANGED files
    BY <1>3 DEF MergeActs, MergeStep, MergeFault, Begin, ReadControl, ControlGet, ControlPut, Load,
       Prevalidate, Reuse, Build, GroupsDone, Manifest, ControlRaises, DocumentRaises,
       BuildFails, Crash, store
  <1> QED
    BY <1>1, <1>2, <1>3, StepKinds, OwnStays

-----------------------------------------------------------------------------
(***************************************************************************)
(* Each step keeps the types and what the merges keep.                     *)
(***************************************************************************)
Grows == \A p \in Payments : HasFile(p) => HasFile(p)'

(* What a merge keeps fits as long as neither it nor the files change.     *)
LEMMA KeptSame ==
    ASSUME OwnType, NEW o \in Merges, Kept(o), SameOwn(o), Grows
    PROVE  Kept(o)'
  <1>1. /\ pc'[o] = pc[o] /\ snap'[o] = snap[o] /\ todo'[o] = todo[o] /\ items'[o] = items[o]
        /\ outputs'[o] = outputs[o] /\ skipped'[o] = skipped[o]
        /\ tallies'[o] = tallies[o] /\ target'[o] = target[o]
    BY DEF SameOwn
  <1>2. Left(o)' = Left(o)
    BY <1>1 DEF Left
  <1>3. Accounted(o) => Accounted(o)'
    BY <1>1, <1>2 DEF Accounted
  <1>4. Counted(o) => Counted(o)'
    BY <1>1 DEF Counted
  <1>5. \A part \in outputs'[o] : HasFile(part[1])'
    <2>1. ASSUME NEW part \in outputs[o]
          PROVE  part[1] \in Payments /\ HasFile(part[1])
      BY <2>1 DEF OwnType, Parts, Kept
    <2> QED
      BY <1>1, <2>1 DEF Grows
  <1> QED
    BY <1>1, <1>3, <1>4, <1>5 DEF Kept

(* A merge that is not at its payments keeps nothing of them.              *)
LEMMA KeptOutside ==
    ASSUME NEW m \in Merges, pc'[m] \notin Grouping \cup Closing,
           pc'[m] \in Knows => snap'[m] \in Processes,
           todo'[m] = <<>>, outputs'[m] = {}, skipped'[m] = {},
           tallies'[m] = [b \in Bases |-> 0]
    PROVE  Kept(m)'
  BY DEF Kept, Grouping, Closing

(* A merge that forgets what it kept.                                      *)
LEMMA KeptForgotten ==
    ASSUME OwnType, NEW m \in Merges, Forget(m), NEW l,
           l \notin Knows, l \in Before \cup Working \cup After, Goto(m, l)
    PROVE  OwnType' /\ Kept(m)'
  <1>1. pc'[m] = l /\ pc' \in [Merges -> Before \cup Working \cup After]
    BY DEF Goto, OwnType
  <1>2. OwnType'
    <2>1. [b \in Bases |-> 0] \in [Bases -> Nat]
      OBVIOUS
    <2>2. tallies' \in [Merges -> [Bases -> Nat]]
      BY <2>1 DEF Forget, OwnType
    <2>3. target' \in [Merges -> Bases \X (Copies \cup {0})]
      BY CopiesType DEF Forget, OwnType
    <2>4. view' \in [Merges -> Row]
      BY RowTypes DEF Forget, OwnType
    <2>5. /\ snap' \in [Merges -> Processes \cup {None}]
          /\ force' \in [Merges -> BOOLEAN]
          /\ todo' \in [Merges -> Seq(Payments)]
          /\ items' \in [Merges -> SUBSET CreditSet]
          /\ outputs' \in [Merges -> SUBSET Parts]
          /\ skipped' \in [Merges -> SUBSET Payments]
      BY DEF Forget, OwnType
    <2> QED
      BY <1>1, <2>2, <2>3, <2>4, <2>5 DEF OwnType
  <1> QED
    BY <1>1, <1>2, Forgotten, KeptOutside DEF Knows, Grouping, Closing

LEMMA RowProcess ==
    ASSUME NEW r \in Row
    PROVE  /\ r.process \in Processes \cup {None}
           /\ r.active \in BOOLEAN /\ r.estado \in Estados
  BY DEF Row

LEMMA Where ==
    ASSUME OwnType, NEW m \in Merges, NEW l, Goto(m, l), l \in Before \cup Working \cup After
    PROVE  pc'[m] = l /\ pc' \in [Merges -> Before \cup Working \cup After]
  BY DEF Goto, OwnType

(* The merge begins, reads the control row, updates it.                    *)
LEMMA KeptControl ==
    ASSUME TypeOK, NEW m \in Merges, Kept(m), Grows,
           Begin(m) \/ ReadControl(m) \/ ControlGet(m) \/ ControlPut(m)
    PROVE  OwnType' /\ Kept(m)'
  <1>0. OwnType /\ SharedType
    BY TypeParts
  <1>1. CASE Begin(m)
    <2>1. pc'[m] = "read" /\ OwnType'
      BY <1>0, <1>1, MergeAssumption DEF Begin, Goto, OwnType, progress, Before
    <2>3. pc[m] \notin Grouping \cup Closing
      BY <1>1 DEF Begin, Grouping, Closing
    <2> QED
      BY <2>1, <2>3, <1>1, KeptOutside DEF Begin, progress, Kept, Grouping, Closing, Knows
  <1>2. CASE ReadControl(m)
    <2>1. CASE there /\ MayMerge(row)
      <3>1. row.process \in Processes
        BY <1>0, <2>1, RowProcess DEF MayMerge, SharedType
      <3>2. pc'[m] = "mark" /\ snap'[m] = row.process /\ OwnType'
        BY <1>0, <1>2, <2>1, <3>1 DEF ReadControl, Goto, OwnType, progress, Before
      <3> QED
        BY <3>1, <3>2, <1>2, <2>1, KeptOutside
           DEF ReadControl, progress, Kept, Grouping, Closing, Knows
    <2>2. CASE ~(there /\ MayMerge(row))
      BY <1>0, <1>2, <2>2, KeptForgotten DEF ReadControl, Knows, After
    <2> QED
      BY <2>1, <2>2
  <1>3. CASE ControlGet(m)
    <2>1. PICK l \in {"markPut", "closePut", "errorPut"} :
             /\ Goto(m, l)
             /\ l = "markPut" <=> pc[m] = "mark"
             /\ l = "closePut" <=> pc[m] = "close"
             /\ l = "errorPut" <=> pc[m] = "error"
             /\ pc[m] \in {"mark", "close", "error"}
      BY <1>3 DEF ControlGet, ControlLabels
    <2>2. pc'[m] = l /\ pc' \in [Merges -> Before \cup Working \cup After]
      BY <1>0, <2>1, Where DEF Before, Working
    <2>3. OwnType'
      BY <1>0, <1>3, <2>2 DEF ControlGet, OwnType, SharedType, progress
    <2>4. UNCHANGED <<snap, progress, files>>
      BY <1>3 DEF ControlGet, store
    <2>5. Accounted(m)' = Accounted(m) /\ (\A p : HasFile(p)' = HasFile(p))
      BY <2>4 DEF Accounted, Left, HasFile, progress
    <2>6. Kept(m)'
      BY <2>1, <2>2, <2>4, <2>5 DEF progress, Kept, Grouping, Closing, Knows
    <2> QED
      BY <2>3, <2>6
  <1>4. CASE ControlPut(m)
    <2>1. PICK l \in {"load", "manifest", "failed"} :
             /\ Goto(m, l)
             /\ l = "load" <=> pc[m] = "markPut"
             /\ l = "manifest" <=> pc[m] = "closePut"
             /\ l = "failed" <=> pc[m] = "errorPut"
             /\ pc[m] \in {"markPut", "closePut", "errorPut"}
      BY <1>4 DEF ControlPut
    <2>2. pc'[m] = l /\ pc' \in [Merges -> Before \cup Working \cup After]
      BY <1>0, <2>1, Where DEF Working, After
    <2>3. OwnType'
      BY <1>0, <1>4, <2>2, RowTypes DEF ControlPut, OwnType, SharedType, progress
    <2>4. UNCHANGED <<snap, progress, files>>
      BY <1>4 DEF ControlPut
    <2>5. Accounted(m)' = Accounted(m) /\ (\A p : HasFile(p)' = HasFile(p))
      BY <2>4 DEF Accounted, Left, HasFile, progress
    <2>6. Kept(m)'
      BY <2>1, <2>2, <2>4, <2>5 DEF progress, Kept, Grouping, Closing, Knows
    <2> QED
      BY <2>3, <2>6
  <1> QED
    BY <1>1, <1>2, <1>3, <1>4

(* A merge that goes on to the next payment has accounted for this one.    *)
LEMMA KeptNext ==
    ASSUME OwnType, NEW m \in Merges, Kept(m), pc[m] \in Grouping, todo[m] # <<>>,
           NextPayment(m), snap'[m] = snap[m], tallies'[m] = tallies[m],
           outputs[m] \subseteq outputs'[m], skipped[m] \subseteq skipped'[m],
           Payment(m) \in skipped'[m] \/ \E c \in CreditSet : <<Payment(m), c>> \in outputs'[m],
           \A part \in outputs'[m] : HasFile(part[1])'
    PROVE  /\ Kept(m)'
           /\ pc' \in [Merges -> Before \cup Working \cup After]
           /\ todo' \in [Merges -> Seq(Payments)]
           /\ items' \in [Merges -> SUBSET CreditSet]
           /\ target' \in [Merges -> Bases \X (Copies \cup {0})]
  <1> DEFINE s == todo[m]
  <1>1. s \in Seq(Payments) /\ s # <<>>
    BY DEF OwnType
  <1>2. /\ Tail(s) \in Seq(Payments) /\ Len(s) \in Nat /\ Len(Tail(s)) = Len(s) - 1
        /\ Left(m) \subseteq {Head(s)} \cup {Tail(s)[i] : i \in 1 .. Len(Tail(s))}
    <2>1. /\ Tail(s) \in Seq(Payments) /\ Len(s) \in Nat /\ Len(Tail(s)) = Len(s) - 1
          /\ {s[i] : i \in 1 .. Len(s)}
                \subseteq {Head(s)} \cup {Tail(s)[i] : i \in 1 .. Len(Tail(s))}
      <3> HIDE DEF s
      <3> QED
        BY <1>1, LeftSplits
    <2> QED
      BY <2>1 DEF Left
  <1>3. /\ pc'[m] = "group"
        /\ pc' \in [Merges -> Before \cup Working \cup After]
    BY Where DEF NextPayment, Working
  <1>4. todo'[m] = Tail(s) /\ todo' \in [Merges -> Seq(Payments)]
    BY <1>2 DEF NextPayment, OwnType
  <1>5. items' \in [Merges -> SUBSET CreditSet] /\ target' \in [Merges -> Bases \X (Copies \cup {0})]
    BY CopiesType DEF NextPayment, OwnType
  <1>6. Accounted(m)'
    <2>1. Accounted(m)
      BY DEF Kept
    <2>2. Left(m)' = {Tail(s)[i] : i \in 1 .. Len(Tail(s))}
      BY <1>4 DEF Left
    <2>3. PaymentSet(snap[m])' = PaymentSet(snap[m]) /\ PaymentSet(snap'[m]) = PaymentSet(snap[m])
      BY DEF PaymentSet
    <2>4. ASSUME NEW p \in PaymentSet(snap[m])
          PROVE  \/ p \in Left(m)'
                 \/ p \in skipped'[m]
                 \/ \E c \in CreditSet : <<p, c>> \in outputs'[m]
      <3>1. CASE p = Head(s)
        BY <3>1 DEF Payment
      <3>2. CASE p # Head(s)
        BY <2>1, <2>2, <2>4, <3>2, <1>2 DEF Accounted
      <3> QED
        BY <3>1, <3>2
    <2> QED
      BY <2>3, <2>4 DEF Accounted
  <1>7. Counted(m)'
    <2>1. Counted(m)
      BY DEF Kept
    <2>2. \A b \in Bases : tallies[m][b] \in Nat
      BY DEF OwnType
    <2>3. Len(todo[m]) \in Nat /\ Len(todo'[m]) = Len(todo[m]) - 1
      BY <1>2, <1>4
    <2>4. Cardinality(Payments) \in Nat
      BY CopiesType
    <2> QED
      BY <2>1, <2>2, <2>3, <2>4, <1>3 DEF Counted
  <1> QED
    BY <1>3, <1>4, <1>5, <1>6, <1>7 DEF Kept, Knows, Grouping, Closing

(* The merge reads its documents.                                          *)
LEMMA KeptLoad ==
    ASSUME OwnType, NEW m \in Merges, Kept(m), Load(m)
    PROVE  OwnType' /\ Kept(m)'
  <1>1. pc[m] = "load" /\ snap[m] \in Processes
    BY DEF Load, Kept, Knows
  <1>2. /\ pc'[m] = "group" /\ pc' \in [Merges -> Before \cup Working \cup After]
    BY Where DEF Load, Working
  <1>3. todo'[m] = PaymentsOf[snap[m]] /\ todo' \in [Merges -> Seq(Payments)]
    BY <1>1, MergeAssumption DEF Load, OwnType
  <1>4. OwnType'
    BY <1>2, <1>3 DEF Load, OwnType
  <1>5. /\ outputs'[m] = {} /\ skipped'[m] = {} /\ tallies'[m] = [b \in Bases |-> 0]
        /\ snap'[m] = snap[m]
    BY <1>1 DEF Load, Kept, Grouping, Closing
  <1>6. Accounted(m)'
    <2> DEFINE s == PaymentsOf[snap[m]]
    <2>1. PaymentSet(snap'[m]) \subseteq {s[i] : i \in 1 .. Len(s)}
      <3>1. s \in Seq(Payments)
        BY <1>1, MergeAssumption
      <3>2. DOMAIN s = 1 .. Len(s)
        <4> HIDE DEF s
        <4> QED
          BY <3>1
      <3> QED
        BY <3>2, <1>5 DEF PaymentSet
    <2>2. Left(m)' = {s[i] : i \in 1 .. Len(s)}
      BY <1>3 DEF Left
    <2> QED
      BY <2>1, <2>2 DEF Accounted
  <1>7. Counted(m)'
    <2>1. /\ Len(todo'[m]) \in Nat /\ Cardinality(Payments) \in Nat
          /\ Len(todo'[m]) <= Cardinality(Payments)
      BY <1>1, <1>3, PaymentsBound
    <2>2. \A b \in Bases : tallies'[m][b] = 0
      BY <1>5
    <2> QED
      BY <2>1, <2>2, <1>2 DEF Counted
  <1> QED
    BY <1>1, <1>2, <1>4, <1>5, <1>6, <1>7 DEF Kept, Knows, Grouping, Closing

(* The merge finds the asientos of a payment, or goes on without it.       *)
LEMMA KeptPrevalidate ==
    ASSUME OwnType, NEW m \in Merges, Kept(m), Grows, Prevalidate(m)
    PROVE  OwnType' /\ Kept(m)'
  <1> DEFINE p == Payment(m)
             found == CreditsOf[p] \cap asientos
  <1>1. /\ pc[m] = "group" /\ todo[m] # <<>> /\ todo[m] \in Seq(Payments)
        /\ p \in Payments /\ found \subseteq CreditSet
    <2>1. pc[m] = "group" /\ todo[m] # <<>> /\ todo[m] \in Seq(Payments)
      BY DEF Prevalidate, OwnType
    <2>2. p \in Payments
      BY <2>1, LeftSplits DEF Payment
    <2> QED
      BY <2>1, <2>2, MergeAssumption
  <1>2. /\ skipped'[m] = IF found = {} \/ found # CreditsOf[p] THEN skipped[m] \cup {p}
                          ELSE skipped[m]
        /\ skipped' \in [Merges -> SUBSET Payments]
    BY <1>1 DEF Prevalidate, OwnType
  <1>3. UNCHANGED <<view, snap, force, outputs, tallies>>
    BY DEF Prevalidate
  <1>4. \A part \in outputs'[m] : HasFile(part[1])'
    <2>1. ASSUME NEW part \in outputs[m]
          PROVE  part[1] \in Payments /\ HasFile(part[1])
      BY <2>1 DEF OwnType, Parts, Kept
    <2> QED
      BY <1>3, <2>1 DEF Grows
  <1>5. CASE found = {}
    <2>1. NextPayment(m)
      BY <1>5 DEF Prevalidate
    <2>2. p \in skipped'[m] /\ skipped[m] \subseteq skipped'[m]
      BY <1>2, <1>5
    <2>3. /\ Kept(m)'
          /\ pc' \in [Merges -> Before \cup Working \cup After]
          /\ todo' \in [Merges -> Seq(Payments)]
          /\ items' \in [Merges -> SUBSET CreditSet]
          /\ target' \in [Merges -> Bases \X (Copies \cup {0})]
      BY <1>1, <1>3, <1>4, <2>1, <2>2, KeptNext DEF Grouping
    <2> QED
      BY <1>2, <1>3, <2>3 DEF OwnType
  <1>6. CASE found # {}
    <2>1. WithItems(m, found)
      BY <1>6 DEF Prevalidate
    <2>2. /\ pc'[m] = "exists" /\ pc' \in [Merges -> Before \cup Working \cup After]
      BY <2>1, Where DEF WithItems, Working
    <2>3. items'[m] = found /\ items' \in [Merges -> SUBSET CreditSet]
      BY <2>1, <1>1 DEF WithItems, OwnType
    <2>4. UNCHANGED <<todo, target>>
      BY <2>1 DEF WithItems
    <2>5. OwnType'
      BY <1>2, <1>3, <2>2, <2>3, <2>4 DEF OwnType
    <2>6. Accounted(m)'
      <3>1. Accounted(m)
        BY <1>1 DEF Kept, Grouping
      <3>2. Left(m)' = Left(m)
        BY <2>4 DEF Left
      <3>3. skipped[m] \subseteq skipped'[m]
        BY <1>2
      <3> QED
        BY <1>3, <3>1, <3>2, <3>3 DEF Accounted
    <2>7. Counted(m)'
      BY <1>1, <1>3, <2>2, <2>4 DEF Kept, Grouping, Counted
    <2> QED
      BY <1>1, <1>3, <1>4, <1>6, <2>2, <2>3, <2>4, <2>5, <2>6, <2>7
         DEF Kept, Knows, Grouping, Closing
  <1> QED
    BY <1>5, <1>6

(* The merge finds an output, or builds one.                               *)
LEMMA KeptBuild ==
    ASSUME OwnType, NEW m \in Merges, Kept(m), Build(m)
    PROVE  OwnType' /\ Kept(m)'
  <1>1. /\ pc[m] = "exists" /\ todo[m] # <<>> /\ items[m] # {} /\ todo[m] \in Seq(Payments)
        /\ Base(m) \in Bases /\ Base(m) = BaseOf[Head(todo[m])]
    <2>1. pc[m] = "exists" /\ todo[m] # <<>> /\ items[m] # {}
      BY DEF Build, Kept
    <2>2. todo[m] \in Seq(Payments) /\ Base(m) \in Bases
      BY <2>1, CurrentPayment
    <2> QED
      BY <2>1, <2>2 DEF Base, Payment
  <1>2. /\ pc'[m] = "upload" /\ pc' \in [Merges -> Before \cup Working \cup After]
    BY Where DEF Build, Working
  <1>3. UNCHANGED <<view, snap, force, todo, items, outputs, skipped, files>>
    BY DEF Build, store
  <1>4. /\ tallies' \in [Merges -> [Bases -> Nat]]
        /\ \A b \in Bases : tallies'[m][b] =
              IF b = Base(m) THEN tallies[m][b] + 1 ELSE tallies[m][b]
        /\ \A b \in Bases : tallies[m][b] \in Nat
    BY <1>1 DEF Build, OwnType
  <1>5. Len(todo[m]) \in Nat /\ Len(todo[m]) > 0
    BY <1>1, LeftSplits
  <1>6. \A b \in Bases : tallies[m][b] + Len(todo[m]) <= Cardinality(Payments)
    BY <1>1, <1>4, <1>5, CopiesType DEF Kept, Grouping, Counted
  <1>7. tallies'[m][Base(m)] \in Copies
    <2>1. tallies'[m][Base(m)] = tallies[m][Base(m)] + 1 /\ tallies[m][Base(m)] \in Nat
      BY <1>1, <1>4
    <2>2. tallies[m][Base(m)] + Len(todo[m]) <= Cardinality(Payments)
      BY <1>1, <1>6
    <2> QED
      BY <2>1, <2>2, <1>5, CopiesType
  <1>8. /\ target'[m] \in Files /\ target'[m][1] = Base(m)
        /\ target' \in [Merges -> Bases \X (Copies \cup {0})]
    <2>1. PICK i \in Copies : target' = [target EXCEPT ![m] = <<Base(m), i>>]
      BY <1>7, CopiesType DEF Build
    <2> QED
      BY <1>1, <2>1 DEF OwnType, Files
  <1>9. OwnType'
    BY <1>2, <1>3, <1>4, <1>8 DEF OwnType
  <1>10. Accounted(m)' /\ Counted(m)'
    <2>1. Accounted(m)'
      BY <1>1, <1>3 DEF Kept, Grouping, Accounted, Left
    <2>2. Counted(m)'
      <3>1. ASSUME NEW b \in Bases
            PROVE  tallies'[m][b] + Len(todo[m]) <= Cardinality(Payments) + 1
        <4>1. /\ tallies[m][b] \in Nat
              /\ tallies[m][b] + Len(todo[m]) <= Cardinality(Payments)
              /\ tallies'[m][b] = tallies[m][b] \/ tallies'[m][b] = tallies[m][b] + 1
          BY <1>4, <1>6
        <4> QED
          BY <4>1, <1>5, CopiesType
      <3>2. Len(todo'[m]) = Len(todo[m])
        BY <1>3
      <3> QED
        BY <1>2, <3>1, <3>2 DEF Counted
    <2> QED
      BY <2>1, <2>2
  <1>11. \A part \in outputs'[m] : HasFile(part[1])'
    BY <1>3 DEF Kept, HasFile
  <1> QED
    BY <1>1, <1>2, <1>3, <1>8, <1>9, <1>10, <1>11 DEF Kept, Knows, Grouping, Closing

(* The payments of a merge: what is filed or not, each ends accounted for. *)
LEMMA KeptPayment ==
    ASSUME OwnType, SharedType, NEW m \in Merges, Kept(m), Grows,
           Reuse(m) \/ Upload(m) \/ BuildFails(m) \/ UploadFails(m)
    PROVE  OwnType' /\ Kept(m)'
  <1>1. pc[m] \in {"exists", "upload"} /\ NextPayment(m) /\ UNCHANGED <<view, snap, force, tallies>>
    BY DEF Reuse, Upload, BuildFails, UploadFails
  <1>0. PICK p : p = Payment(m)
    OBVIOUS
  <1>2. /\ todo[m] \in Seq(Payments) /\ todo[m] # <<>>
        /\ p \in Payments /\ Base(m) \in Bases
        /\ Done(m) \subseteq Parts /\ Done(m) # {}
        /\ \A part \in Done(m) : part[1] = p
        /\ \E c \in CreditSet : <<p, c>> \in Done(m)
    BY <1>0, <1>1, CurrentPayment
  <1>3. \A part \in outputs[m] : HasFile(part[1])'
    <2>1. ASSUME NEW part \in outputs[m]
          PROVE  part[1] \in Payments /\ HasFile(part[1])
      BY <2>1 DEF OwnType, Parts, Kept
    <2> QED
      BY <2>1 DEF Grows
  <1>4. ASSUME outputs' = [outputs EXCEPT ![m] = @ \cup Done(m)], UNCHANGED skipped, HasFile(p)'
        PROVE  OwnType' /\ Kept(m)'
    <2>1. outputs'[m] = outputs[m] \cup Done(m) /\ outputs' \in [Merges -> SUBSET Parts]
      BY <1>2, <1>4 DEF OwnType
    <2>2. \A part \in outputs'[m] : HasFile(part[1])'
      BY <1>2, <1>3, <1>4, <2>1
    <2>3. /\ Kept(m)'
          /\ pc' \in [Merges -> Before \cup Working \cup After]
          /\ todo' \in [Merges -> Seq(Payments)]
          /\ items' \in [Merges -> SUBSET CreditSet]
          /\ target' \in [Merges -> Bases \X (Copies \cup {0})]
      BY <1>0, <1>1, <1>2, <1>4, <2>1, <2>2, KeptNext DEF Grouping
    <2> QED
      BY <1>1, <1>4, <2>1, <2>3 DEF OwnType
  <1>5. ASSUME skipped' = [skipped EXCEPT ![m] = @ \cup {p}], UNCHANGED outputs
        PROVE  OwnType' /\ Kept(m)'
    <2>1. skipped'[m] = skipped[m] \cup {p} /\ skipped' \in [Merges -> SUBSET Payments]
      BY <1>2, <1>5 DEF OwnType
    <2>2. \A part \in outputs'[m] : HasFile(part[1])'
      BY <1>3, <1>5
    <2>3. /\ Kept(m)'
          /\ pc' \in [Merges -> Before \cup Working \cup After]
          /\ todo' \in [Merges -> Seq(Payments)]
          /\ items' \in [Merges -> SUBSET CreditSet]
          /\ target' \in [Merges -> Bases \X (Copies \cup {0})]
      BY <1>0, <1>1, <1>2, <1>5, <2>1, <2>2, KeptNext DEF Grouping
    <2> QED
      BY <1>1, <1>5, <2>1, <2>3 DEF OwnType
  <1>6. CASE Reuse(m)
    <2>1. HasFile(p)
      <3>1. files[<<BaseOf[p], 1>>] # {}
        BY <1>0, <1>6 DEF Reuse, Exists, Base
      <3> QED
        BY <3>1, CopiesType DEF HasFile
    <2>2. HasFile(p)'
      BY <2>1, <1>2 DEF Grows
    <2> QED
      BY <1>4, <1>6, <2>2 DEF Reuse
  <1>7. CASE Upload(m)
    <2>1. target[m] \in Files /\ target[m][1] = BaseOf[p]
      BY <1>0, <1>7 DEF Upload, Kept, Payment
    <2>2. PICK i \in Copies : target[m] = <<BaseOf[p], i>>
      BY <2>1 DEF Files
    <2>3. files'[target[m]] = Done(m)
      BY <1>7, <2>1 DEF Upload, Uploaded, SharedType
    <2>4. HasFile(p)'
      BY <1>2, <2>2, <2>3 DEF HasFile
    <2> QED
      BY <1>4, <1>7, <2>4 DEF Upload
  <1>8. CASE BuildFails(m) \/ UploadFails(m)
    BY <1>0, <1>5, <1>8 DEF BuildFails, UploadFails
  <1> QED
    BY <1>1, <1>6, <1>7, <1>8

(* The merge comes to an end, or something raises.                         *)
LEMMA KeptEnds ==
    ASSUME OwnType, NEW m \in Merges, Kept(m), Grows,
           \/ GroupsDone(m) \/ Manifest(m)
           \/ ControlRaises(m) \/ DocumentRaises(m) \/ Crash(m)
    PROVE  OwnType' /\ Kept(m)'
  <1>1. ASSUME Escapes(m)
        PROVE  OwnType' /\ Kept(m)'
    <2>1. PICK l \in {"error", "failed"} : Goto(m, l)
      BY <1>1 DEF Escapes
    <2> QED
      BY <1>1, <2>1, KeptForgotten DEF Escapes, Knows, Working, After
  <1>2. CASE GroupsDone(m) /\ ~(outputs[m] = {} /\ skipped[m] = {})
    <2>1. UNCHANGED mine /\ pc[m] = "group" /\ todo[m] = <<>>
      BY <1>2 DEF GroupsDone
    <2>2. pc'[m] = "close" /\ pc' \in [Merges -> Before \cup Working \cup After]
      BY <1>2, Where DEF GroupsDone, Working
    <2>3. OwnType'
      BY <2>1, <2>2 DEF OwnType, mine, progress
    <2>4. Accounted(m)'
      BY <2>1 DEF Accounted, Left, Kept, Grouping, mine, progress
    <2>5. \A part \in outputs'[m] : HasFile(part[1])'
      <3>1. ASSUME NEW part \in outputs[m]
            PROVE  part[1] \in Payments /\ HasFile(part[1])
        BY <3>1 DEF OwnType, Parts, Kept
      <3> QED
        BY <2>1, <3>1 DEF Grows, mine, progress
    <2> QED
      BY <2>1, <2>2, <2>3, <2>4, <2>5 DEF Kept, Knows, Grouping, Closing, mine, progress
  <1>3. CASE GroupsDone(m) /\ outputs[m] = {} /\ skipped[m] = {}
    BY <1>1, <1>3 DEF GroupsDone
  <1>4. CASE Manifest(m)
    BY <1>4, KeptForgotten DEF Manifest, Knows, After
  <1>5. CASE ControlRaises(m) \/ DocumentRaises(m)
    BY <1>1, <1>5 DEF ControlRaises, DocumentRaises
  <1>6. CASE Crash(m)
    BY <1>6, KeptForgotten DEF Crash, Knows, After
  <1> QED
    BY <1>2, <1>3, <1>4, <1>5, <1>6

(* Every step keeps what the merges keep.                                  *)
LEMMA KeptStep ==
    ASSUME TypeOK, \A m \in Merges : Kept(m), [Next]_vars
    PROVE  OwnType' /\ Grows /\ \A m \in Merges : Kept(m)'
  <1>0. OwnType /\ SharedType
    BY TypeParts
  <1>1. Grows
    BY <1>0, FilesGrow DEF Grows
  <1>2. ASSUME NEW m \in Merges, MergeActs(m)
        PROVE  OwnType' /\ \A o \in Merges : Kept(o)'
    <2>1. OwnType' /\ Kept(m)'
      BY <1>0, <1>1, <1>2, KeptControl, KeptLoad, KeptPrevalidate, KeptBuild, KeptPayment, KeptEnds
         DEF MergeActs, MergeStep, MergeFault
    <2>2. ASSUME NEW o \in Merges, o # m
          PROVE  Kept(o)'
      BY <1>0, <1>1, <1>2, <2>2, OthersOwn, KeptSame
    <2> QED
      BY <2>1, <2>2
  <1>3. ASSUME UNCHANGED <<files, manifest, pc, mine>>
        PROVE  OwnType' /\ \A o \in Merges : Kept(o)'
    <2>1. OwnType'
      BY <1>0, <1>3 DEF OwnType, mine, progress
    <2>2. ASSUME NEW o \in Merges
          PROVE  Kept(o)'
      BY <1>0, <1>1, <1>3, KeptSame DEF SameOwn, mine, progress
    <2> QED
      BY <2>1, <2>2
  <1> QED
    BY <1>1, <1>2, <1>3, StepKinds, OwnStays

-----------------------------------------------------------------------------
(***************************************************************************)
(* The moves of a merge, as far as the control row is concerned.           *)
(***************************************************************************)
Putting == {"markPut", "closePut", "errorPut"}

\* It starts on the process the row names.
Reads(m) ==
    /\ pc[m] = "read" /\ pc'[m] = "mark"
    /\ there /\ MayMerge(row)
    /\ snap'[m] = row.process
    /\ UNCHANGED <<row, view, trouble, noteVars, setupVars>>

\* It is busy with the payments.
Works(m) ==
    /\ pc[m] \in Grouping \cup {"load"} /\ pc'[m] \in Grouping \cup {"close"}
    /\ UNCHANGED <<row, view, snap, trouble, noteVars, setupVars>>

\* It ends, or gives up: a write to the row that raised may be stored.
Ends(m) ==
    /\ Live(m)
    /\ Forget(m)
    /\ pc'[m] \in {"error", "failed", "completed", "dead"}
    /\ pc'[m] = "error" => pc[m] \in Working
    /\ pc[m] \in Working => pc'[m] = "error" \/ {"control", "kill"} \cap trouble' # {}
    /\ \/ row' = row
       \/ pc[m] \in Putting /\ row' = Edited(m) /\ ControlFaults /\ "control" \in trouble'
    /\ trouble \subseteq trouble'
    /\ "control" \in trouble' => "control" \in trouble \/ ControlFaults
    /\ UNCHANGED <<noteVars, setupVars>>

LEMMA Moves ==
    ASSUME OwnType, NEW m \in Merges, MergeActs(m)
    PROVE  Begin(m) \/ Reads(m) \/ ControlGet(m) \/ ControlPut(m) \/ Works(m) \/ Ends(m)
  <1>1. ASSUME NEW l \in Before \cup Working \cup After, Goto(m, l)
        PROVE  pc'[m] = l
    BY <1>1, Where
  <1>2. CASE ReadControl(m)
    <2>1. CASE there /\ MayMerge(row)
      <3>1. Goto(m, "mark") /\ snap'[m] = row.process
        BY <1>2, <2>1 DEF ReadControl, OwnType
      <3> QED
        BY <1>1, <1>2, <2>1, <3>1 DEF ReadControl, Reads, Before, store
    <2>2. CASE ~(there /\ MayMerge(row))
      <3>1. pc'[m] = "failed"
        BY <1>1, <1>2, <2>2 DEF ReadControl, After
      <3> QED
        BY <1>2, <2>2, <3>1 DEF ReadControl, Ends, Live, Working, store
    <2> QED
      BY <2>1, <2>2
  <1>3. CASE Load(m) \/ Prevalidate(m) \/ Reuse(m) \/ Build(m) \/ Upload(m)
             \/ BuildFails(m) \/ UploadFails(m)
    <2>1. pc[m] \in Grouping \cup {"load"} /\ \E l \in Grouping : Goto(m, l)
      BY <1>3 DEF Load, Prevalidate, Reuse, Build, Upload, BuildFails, UploadFails, NextPayment,
         WithItems, Grouping
    <2>2. pc'[m] \in Grouping
      BY <1>1, <2>1 DEF Working, Grouping
    <2>3. UNCHANGED <<row, view, snap, trouble, noteVars, setupVars>>
      BY <1>3 DEF Load, Prevalidate, Reuse, Build, Upload, BuildFails, UploadFails, NextPayment,
         WithItems, store
    <2> QED
      BY <2>1, <2>2, <2>3 DEF Works
  <1>4. ASSUME Escapes(m), Live(m)
        PROVE  /\ Forget(m) /\ pc'[m] \in {"error", "failed"}
               /\ pc'[m] = "error" => pc[m] \in Working
               /\ pc[m] \in Working \ {"error", "errorPut"} => pc'[m] = "error"
    BY <1>1, <1>4 DEF Escapes, Working, After
  <1>5. CASE GroupsDone(m)
    <2>1. pc[m] = "group" /\ UNCHANGED <<row, trouble, noteVars, setupVars>>
      BY <1>5 DEF GroupsDone, store
    <2>2. CASE outputs[m] = {} /\ skipped[m] = {}
      BY <1>4, <1>5, <2>1, <2>2 DEF GroupsDone, Ends, Live, Working
    <2>3. CASE ~(outputs[m] = {} /\ skipped[m] = {})
      BY <1>1, <1>5, <2>1, <2>3 DEF GroupsDone, Works, Working, Grouping, mine
    <2> QED
      BY <2>2, <2>3
  <1>6. CASE Manifest(m)
    <2>1. pc'[m] = "completed"
      BY <1>1, <1>6 DEF Manifest, After
    <2> QED
      BY <1>6, <2>1 DEF Manifest, Ends, Live, Working
  <1>7. CASE DocumentRaises(m)
    BY <1>4, <1>7 DEF DocumentRaises, Ends, Live, Working, store
  <1>8. CASE ControlRaises(m)
    <2>1. Live(m) /\ Escapes(m) /\ ControlFaults /\ trouble' = trouble \cup {"control"}
          /\ UNCHANGED <<noteVars, setupVars>>
      BY <1>8 DEF ControlRaises, Live
    <2>2. row' = row \/ (pc[m] \in Putting /\ row' = Edited(m))
      BY <1>8 DEF ControlRaises, Putting
    <2>3. /\ Forget(m) /\ pc'[m] \in {"error", "failed"}
          /\ pc'[m] = "error" => pc[m] \in Working
      BY <1>4, <2>1
    <2>4. {"control", "kill"} \cap trouble' # {} /\ trouble \subseteq trouble' /\ "control" \in trouble'
      BY <2>1
    <2> QED
      BY <2>1, <2>2, <2>3, <2>4 DEF Ends
  <1>9. CASE Crash(m)
    <2>1. pc'[m] = "dead"
      BY <1>1, <1>9 DEF Crash, After
    <2> QED
      BY <1>9, <2>1 DEF Crash, Ends, store
  <1> QED
    BY <1>2, <1>3, <1>5, <1>6, <1>7, <1>8, <1>9 DEF MergeActs, MergeStep, MergeFault

(* What the control row becomes.                                           *)
LEMMA RowChanges ==
    ASSUME TypeOK, SetupAlone, RowThere, [Next]_vars
    PROVE  \/ row' = row
           \/ \E n \in Processes : NotifyPut(n) /\
                row' = [estado |-> "PENDIENTE_ASIENTOS", active |-> TRUE, process |-> n]
           \/ \E m \in Merges : ControlPut(m) /\ row' = Edited(m)
           \/ \E m \in Merges : /\ Ends(m) /\ pc[m] \in Putting /\ row' = Edited(m)
                                /\ ControlFaults /\ "control" \in trouble'
  <1>0. OwnType /\ SharedType
    BY TypeParts
  <1>1. ASSUME NEW m \in Merges, MergeActs(m)
        PROVE  \/ row' = row
               \/ ControlPut(m) /\ row' = Edited(m)
               \/ /\ Ends(m) /\ pc[m] \in Putting /\ row' = Edited(m)
                  /\ ControlFaults /\ "control" \in trouble'
    <2>1. Begin(m) \/ Reads(m) \/ ControlGet(m) \/ ControlPut(m) \/ Works(m) \/ Ends(m)
      BY <1>0, <1>1, Moves
    <2>2. CASE Begin(m) \/ Reads(m) \/ ControlGet(m) \/ Works(m)
      BY <2>2 DEF Begin, Reads, ControlGet, Works, store
    <2>3. ControlPut(m) => row' = Edited(m)
      BY DEF ControlPut
    <2>4. CASE Ends(m)
      <3>1. \/ row' = row
            \/ pc[m] \in Putting /\ row' = Edited(m) /\ ControlFaults /\ "control" \in trouble'
        BY <2>4 DEF Ends
      <3> QED
        BY <2>4, <3>1
    <2> QED
      BY <2>1, <2>2, <2>3, <2>4
  <1>2. ASSUME SetupStep
        PROVE  row' = row
    <2>1. CASE SetupLooks \/ SetupGet
      BY <2>1 DEF SetupLooks, SetupGet, store
    <2>2. CASE SetupPut
      BY <2>2 DEF SetupPut, SetupAlone
    <2>3. CASE SetupCreate
      BY <2>3 DEF SetupCreate, SetupAlone, RowThere
    <2> QED
      BY <1>2, <2>1, <2>2, <2>3 DEF SetupStep
  <1>3. ASSUME NEW n \in Processes, Send(n) \/ NotifyStep(n)
        PROVE  \/ row' = row
               \/ NotifyPut(n) /\
                    row' = [estado |-> "PENDIENTE_ASIENTOS", active |-> TRUE, process |-> n]
    BY <1>3 DEF Send, NotifyStep, Export, NotifyGet, NotifyPut, store
  <1>4. ASSUME NEW c \in CreditSet, FileAsiento(c)
        PROVE  row' = row
    BY <1>4 DEF FileAsiento
  <1>5. ASSUME UNCHANGED vars
        PROVE  row' = row
    BY <1>5 DEF vars, store
  <1> QED
    BY <1>1, <1>2, <1>3, <1>4, <1>5, StepKinds

(* A process under way: its notification, or the merge that knows it.      *)
LEMMA PutsTyped ==
    ASSUME TypeOK, RowThere, NEW m \in Merges, pc[m] \in Putting
    PROVE  /\ Edited(m) \in Row /\ Edited(m).process = view[m].process
           /\ Edited(m).process \in Processes /\ there
  <1>1. view[m] \in Row
    BY DEF TypeOK
  <1>2. view[m].process \in Processes /\ there
    BY DEF RowThere, Putting, Knows
  <1> QED
    BY <1>1, <1>2, EditedType DEF Putting

LEMMA SharedStep ==
    ASSUME TypeOK, \A m \in Merges : Kept(m), SetupAlone, RowThere, [Next]_vars
    PROVE  SharedType'
  <1>0. OwnType /\ SharedType
    BY TypeParts
  <1>1. row' \in Row
    <2>1. ASSUME NEW m \in Merges, ControlPut(m) \/ (Ends(m) /\ pc[m] \in Putting)
          PROVE  Edited(m) \in Row
      BY <2>1, PutsTyped DEF ControlPut, Putting
    <2> QED
      BY <1>0, <2>1, RowChanges, RowTypes DEF SharedType
  <1>2. ASSUME NEW m \in Merges, MergeActs(m)
        PROVE  SharedType'
    <2>1. files' \in [Files -> SUBSET Parts]
      <3>1. CASE Upload(m) \/ UploadFails(m)
        <4>1. Done(m) \subseteq Parts /\ files' \in {files, Uploaded(m)}
          BY <1>0, <3>1, CurrentPayment DEF Upload, UploadFails
        <4> QED
          BY <1>0, <4>1 DEF SharedType, Uploaded
      <3>2. CASE ~(Upload(m) \/ UploadFails(m))
        <4>1. UNCHANGED files
          BY <1>2, <3>2 DEF MergeActs, MergeStep, MergeFault, Begin, ReadControl, ControlGet, ControlPut,
             Load, Prevalidate, Reuse, Build, GroupsDone, Manifest, ControlRaises, DocumentRaises,
             BuildFails, Crash, store
        <4> QED
          BY <1>0, <4>1 DEF SharedType
      <3> QED
        BY <3>1, <3>2
    <2>2. manifest' \in [Processes -> SUBSET Parts]
      <3>1. CASE Manifest(m)
        <4>1. outputs[m] \in SUBSET Parts
          BY <1>0 DEF OwnType
        <4>2. manifest' = [manifest EXCEPT ![snap[m]] = outputs[m]] \/ manifest' = manifest
          BY <3>1 DEF Manifest
        <4> QED
          BY <1>0, <4>1, <4>2 DEF SharedType
      <3>2. CASE ~Manifest(m)
        <4>1. UNCHANGED manifest
          BY <1>2, <3>2 DEF MergeActs, MergeStep, MergeFault, Begin, ReadControl, ControlGet, ControlPut,
             Load, Prevalidate, Reuse, Build, Upload, GroupsDone, ControlRaises, DocumentRaises,
             BuildFails, UploadFails, Crash, store
        <4> QED
          BY <1>0, <4>1 DEF SharedType
      <3> QED
        BY <3>1, <3>2
    <2>3. UNCHANGED <<asientos, noteVars, setupVars>>
          /\ trouble' \subseteq trouble \cup {"control", "kill"}
      BY <1>2 DEF MergeActs, MergeStep, MergeFault, Begin, ReadControl, ControlGet, ControlPut,
         Load, Prevalidate, Reuse, Build, Upload, GroupsDone, Manifest, ControlRaises, DocumentRaises,
         BuildFails, UploadFails, Crash, store
    <2> QED
      BY <1>0, <1>1, <2>1, <2>2, <2>3 DEF SharedType, setupVars, noteVars
  <1>3. ASSUME NEW n \in Processes, Send(n) \/ NotifyStep(n)
        PROVE  SharedType'
    <2>1. UNCHANGED <<files, asientos, manifest, there, setup, held>>
          /\ trouble' \subseteq trouble \cup {"race"}
      BY <1>3 DEF Send, NotifyStep, Export, NotifyGet, NotifyPut, store, setupVars
    <2>2. \E l \in NLabels : npc' = [npc EXCEPT ![n] = l]
      BY <1>3 DEF Send, NotifyStep, Export, NotifyGet, NotifyPut, NGoto, NLabels
    <2>3. saw' \in [Processes -> BOOLEAN]
      <3>1. \A b : Open(b) \in BOOLEAN
        BY DEF Open
      <3>2. \E b \in BOOLEAN : saw' = saw \/ saw' = [saw EXCEPT ![n] = b]
        BY <1>3, <3>1 DEF Send, NotifyStep, Export, NotifyGet, NotifyPut
      <3> QED
        BY <1>0, <3>2 DEF SharedType
    <2> QED
      BY <1>0, <1>1, <2>1, <2>2, <2>3 DEF SharedType
  <1>4. ASSUME SetupStep
        PROVE  SharedType'
    <2>1. UNCHANGED <<files, asientos, manifest, noteVars, trouble>>
      BY <1>4 DEF SetupStep, SetupLooks, SetupGet, SetupPut, SetupCreate, store
    <2>2. there' \in BOOLEAN /\ setup' \in {"idle", "get", "put", "create"} /\ held' \in Row
      BY <1>0, <1>4, RowTypes DEF SetupStep, SetupLooks, SetupGet, SetupPut, SetupCreate, store,
         SharedType
    <2> QED
      BY <1>0, <1>1, <2>1, <2>2 DEF SharedType, noteVars
  <1>5. ASSUME NEW c \in CreditSet, FileAsiento(c)
        PROVE  SharedType'
    BY <1>0, <1>1, <1>5 DEF FileAsiento, SharedType, setupVars, noteVars
  <1>6. ASSUME UNCHANGED vars
        PROVE  SharedType'
    BY <1>0, <1>1, <1>6 DEF vars, store, SharedType, setupVars, noteVars
  <1> QED
    BY <1>2, <1>3, <1>4, <1>5, <1>6, StepKinds

LEMMA SetupStays ==
    ASSUME TypeOK, SetupAlone, RowThere, [Next]_vars
    PROVE  SetupAlone'
  <1>0. OwnType /\ SharedType
    BY TypeParts
  <1>1. ASSUME NEW m \in Merges, MergeActs(m)
        PROVE  SetupAlone'
    <2>1. setup = "idle"
      <3>1. CASE Begin(m)
        BY <3>1 DEF Begin
      <3>2. CASE ~Begin(m)
        <4>1. Live(m)
          <5>1. Reads(m) \/ ControlGet(m) \/ ControlPut(m) \/ Works(m) \/ Ends(m)
            BY <1>0, <1>1, <3>2, Moves
          <5> QED
            BY <5>1 DEF Reads, ControlGet, ControlLabels, ControlPut, Works, Ends, Grouping, Live
        <4> QED
          BY <4>1 DEF SetupAlone
      <3> QED
        BY <3>1, <3>2
    <2>2. UNCHANGED setup
      <3>1. Begin(m) \/ Reads(m) \/ ControlGet(m) \/ ControlPut(m) \/ Works(m) \/ Ends(m)
        BY <1>0, <1>1, Moves
      <3> QED
        BY <3>1 DEF Begin, Reads, ControlGet, ControlPut, Works, Ends, setupVars
    <2> QED
      BY <2>1, <2>2 DEF SetupAlone
  <1>2. ASSUME NEW n \in Processes, Send(n) \/ NotifyStep(n)
        PROVE  SetupAlone'
    <2>1. UNCHANGED setup
      BY <1>2 DEF Send, NotifyStep, Export, NotifyGet, NotifyPut, setupVars
    <2>2. setup = "idle" \/ Sending(n)
      BY <1>2 DEF Send, NotifyStep, Export, NotifyGet, NotifyPut, Sending
    <2> QED
      BY <2>1, <2>2 DEF SetupAlone
  <1>3. ASSUME SetupStep
        PROVE  SetupAlone'
    <2>1. UNCHANGED <<pc, npc>>
      BY <1>3 DEF SetupStep, SetupLooks, SetupGet, SetupPut, SetupCreate, noteVars
    <2>2. (\A o \in Merges : Live(o)' = Live(o)) /\ (\A o \in Processes : Sending(o)' = Sending(o))
      BY <2>1 DEF Live, Sending
    <2>3. CASE SetupLooks
      BY <1>0, <2>2, <2>3 DEF SetupLooks, SetupAlone, SharedType
    <2>4. CASE SetupGet
      BY <1>0, <2>2, <2>4 DEF SetupGet, SetupAlone, SharedType, store
    <2>5. CASE SetupPut \/ SetupCreate
      BY <2>5 DEF SetupPut, SetupCreate, SetupAlone
    <2> QED
      BY <1>3, <2>3, <2>4, <2>5 DEF SetupStep
  <1>4. ASSUME UNCHANGED <<pc, npc, row, setupVars>>
        PROVE  SetupAlone'
    BY <1>4 DEF SetupAlone, Live, Sending, setupVars
  <1>5. ASSUME NEW c \in CreditSet, FileAsiento(c)
        PROVE  SetupAlone'
    BY <1>4, <1>5 DEF FileAsiento, noteVars
  <1>6. ASSUME UNCHANGED vars
        PROVE  SetupAlone'
    BY <1>4, <1>6 DEF vars, store, noteVars
  <1> QED
    BY <1>1, <1>2, <1>3, <1>5, <1>6, StepKinds

\* Where a merge is after a step of its own.
LEMMA PcAfter ==
    ASSUME OwnType, NEW m \in Merges
    PROVE  /\ Begin(m) => pc'[m] = "read"
           /\ ControlGet(m) => /\ pc[m] \in {"mark", "close", "error"}
                               /\ pc'[m] \in Putting /\ view'[m] = row
                               /\ pc'[m] = "markPut" <=> pc[m] = "mark"
                               /\ pc'[m] = "closePut" <=> pc[m] = "close"
           /\ ControlPut(m) => /\ pc[m] \in Putting
                               /\ pc'[m] \in {"load", "manifest", "failed"}
                               /\ pc'[m] = "load" <=> pc[m] = "markPut"
                               /\ pc'[m] = "manifest" <=> pc[m] = "closePut"
  <1>1. ASSUME Begin(m)
        PROVE  pc'[m] = "read"
    BY <1>1, Where DEF Begin, Before
  <1>2. ASSUME ControlGet(m)
        PROVE  /\ pc[m] \in {"mark", "close", "error"}
               /\ pc'[m] \in Putting /\ view'[m] = row
               /\ pc'[m] = "markPut" <=> pc[m] = "mark"
               /\ pc'[m] = "closePut" <=> pc[m] = "close"
    <2>1. pc[m] \in {"mark", "close", "error"}
      BY <1>2 DEF ControlGet, ControlLabels
    <2>2. PICK l \in Putting : /\ Goto(m, l)
                               /\ l = "markPut" <=> pc[m] = "mark"
                               /\ l = "closePut" <=> pc[m] = "close"
      BY <1>2 DEF ControlGet, ControlLabels, Putting
    <2>3. pc'[m] = l
      BY <2>2, Where DEF Putting, Before, Working
    <2>4. view'[m] = row
      BY <1>2 DEF ControlGet, OwnType
    <2> QED
      BY <2>1, <2>2, <2>3, <2>4
  <1>3. ASSUME ControlPut(m)
        PROVE  /\ pc[m] \in Putting
               /\ pc'[m] \in {"load", "manifest", "failed"}
               /\ pc'[m] = "load" <=> pc[m] = "markPut"
               /\ pc'[m] = "manifest" <=> pc[m] = "closePut"
    <2>1. pc[m] \in Putting
      BY <1>3 DEF ControlPut, Putting
    <2>2. PICK l \in {"load", "manifest", "failed"} :
             /\ Goto(m, l)
             /\ l = "load" <=> pc[m] = "markPut"
             /\ l = "manifest" <=> pc[m] = "closePut"
      BY <1>3 DEF ControlPut
    <2>3. pc'[m] = l
      BY <2>2, Where DEF Working, After
    <2> QED
      BY <2>1, <2>2, <2>3
  <1> QED
    BY <1>1, <1>2, <1>3

LEMMA RowStays ==
    ASSUME TypeOK, SetupAlone, RowThere, [Next]_vars
    PROVE  RowThere'
  <1>0. OwnType /\ SharedType
    BY TypeParts
  <1>1. ASSUME NEW m \in Merges, MergeActs(m)
        PROVE  RowThere'
    <2>1. Begin(m) \/ Reads(m) \/ ControlGet(m) \/ ControlPut(m) \/ Works(m) \/ Ends(m)
      BY <1>0, <1>1, Moves
    <2>2. UNCHANGED <<npc, there>>
      BY <2>1 DEF Begin, Reads, ControlGet, ControlPut, Works, Ends, setupVars, noteVars
    <2>3. row' = row \/ (there /\ row'.process \in Processes)
      <3>1. CASE Begin(m) \/ Reads(m) \/ ControlGet(m) \/ Works(m)
        BY <3>1 DEF Begin, Reads, ControlGet, Works, store
      <3>2. CASE ControlPut(m)
        BY <3>2, PutsTyped DEF ControlPut, Putting
      <3>3. CASE Ends(m)
        BY <3>3, PutsTyped DEF Ends
      <3> QED
        BY <2>1, <3>1, <3>2, <3>3
    <2>4. ASSUME NEW o \in Merges, o # m
          PROVE  pc'[o] = pc[o] /\ view'[o] = view[o]
      BY <1>0, <1>1, <2>4, OthersOwn DEF SameOwn
    <2>5. pc'[m] \in Knows \cup {"error", "errorPut"} => there /\ row'.process \in Processes
      <3>1. CASE Reads(m)
        BY <1>0, <3>1, RowProcess DEF Reads, MayMerge, SharedType
      <3>2. CASE ~Reads(m)
        <4>1. pc'[m] \in Knows \cup {"error", "errorPut"} => pc[m] \in Knows \cup {"error", "errorPut"}
          BY <1>0, <2>1, <3>2, PcAfter DEF Works, Ends, Knows, Putting, Working, Grouping
        <4> QED
          BY <4>1, <2>3 DEF RowThere
      <3> QED
        BY <3>1, <3>2
    <2>6. pc'[m] \in Putting => view'[m].process \in Processes
      <3>1. CASE ControlGet(m)
        BY <1>0, <3>1, PcAfter DEF RowThere, Knows
      <3>2. CASE ~ControlGet(m)
        <4>1. pc'[m] \notin Putting
          BY <1>0, <2>1, <3>2, PcAfter DEF Reads, Works, Ends, Putting, Grouping
        <4> QED
          BY <4>1
      <3> QED
        BY <3>1, <3>2
    <2>7. ~there' => row' = EmptyRow
      BY <2>2, <2>3 DEF RowThere
    <2> QED
      BY <2>2, <2>3, <2>4, <2>5, <2>6, <2>7 DEF RowThere, Putting
  <1>2. ASSUME NEW n \in Processes, Send(n) \/ NotifyStep(n)
        PROVE  RowThere'
    <2>1. UNCHANGED <<pc, view, there>>
      BY <1>2 DEF Send, NotifyStep, Export, NotifyGet, NotifyPut, mine, setupVars
    <2>2. \A o \in Processes : npc'[o] = "put" => there
      <3>1. npc \in [Processes -> NLabels]
        BY <1>0 DEF SharedType
      <3> QED
        BY <3>1, <1>2 DEF RowThere, Send, NotifyStep, Export, NotifyGet, NotifyPut, NGoto
    <2>3. row' = row \/ (there /\ row'.process \in Processes)
      BY <1>2 DEF RowThere, Send, NotifyStep, Export, NotifyGet, NotifyPut, store
    <2> QED
      BY <2>1, <2>2, <2>3 DEF RowThere
  <1>3. ASSUME SetupStep
        PROVE  RowThere'
    <2>1. UNCHANGED <<pc, npc, view>>
      BY <1>3 DEF SetupStep, SetupLooks, SetupGet, SetupPut, SetupCreate, mine, noteVars
    <2>2. CASE SetupLooks \/ SetupGet
      BY <2>1, <2>2 DEF SetupLooks, SetupGet, RowThere, store
    <2>3. CASE SetupPut
      BY <2>1, <2>3 DEF SetupPut, SetupAlone, RowThere
    <2>4. CASE SetupCreate
      <3>1. ~there /\ row = EmptyRow /\ row' = row
        BY <2>4 DEF SetupCreate, SetupAlone, RowThere
      <3>2. /\ \A n \in Processes : npc[n] # "put"
            /\ \A m \in Merges : pc[m] \notin Knows \cup {"error", "errorPut"}
        BY <3>1 DEF RowThere
      <3> QED
        BY <2>1, <3>1, <3>2 DEF RowThere, Knows
    <2> QED
      BY <1>3, <2>2, <2>3, <2>4 DEF SetupStep
  <1>4. ASSUME UNCHANGED <<row, there, npc, pc, view>>
        PROVE  RowThere'
    BY <1>4 DEF RowThere
  <1>5. ASSUME NEW c \in CreditSet, FileAsiento(c)
        PROVE  RowThere'
    BY <1>4, <1>5 DEF FileAsiento, mine, setupVars, noteVars
  <1>6. ASSUME UNCHANGED vars
        PROVE  RowThere'
    BY <1>4, <1>6 DEF vars, store, mine, setupVars, noteVars
  <1> QED
    BY <1>1, <1>2, <1>3, <1>5, <1>6, StepKinds

-----------------------------------------------------------------------------
(***************************************************************************)
(* The invariants.                                                         *)
(***************************************************************************)
IInv == TypeOK /\ Keeps

LEMMA InitKeeps == Init => IInv
  <1> SUFFICES ASSUME Init
               PROVE  IInv
    OBVIOUS
  <1>1. OwnType
    <2>1. [b \in Bases |-> 0] \in [Bases -> Nat]
      OBVIOUS
    <2>2. /\ pc \in [Merges -> Before \cup Working \cup After]
          /\ view \in [Merges -> Row]
          /\ snap \in [Merges -> Processes \cup {None}]
          /\ force \in [Merges -> BOOLEAN]
      BY RowTypes DEF Init, Before
    <2>3. /\ todo \in [Merges -> Seq(Payments)]
          /\ items \in [Merges -> SUBSET CreditSet]
          /\ outputs \in [Merges -> SUBSET Parts]
          /\ skipped \in [Merges -> SUBSET Payments]
      BY DEF Init
    <2>4. tallies \in [Merges -> [Bases -> Nat]]
      BY <2>1 DEF Init
    <2>5. target \in [Merges -> Bases \X (Copies \cup {0})]
      BY CopiesType DEF Init
    <2> QED
      BY <2>2, <2>3, <2>4, <2>5 DEF OwnType
  <1>2. SharedType
    BY RowTypes DEF Init, SharedType, NLabels
  <1>3. ASSUME NEW m \in Merges
        PROVE  Kept(m)
    BY DEF Init, Kept, Knows, Grouping, Closing
  <1>4. SetupAlone /\ RowThere
    BY DEF Init, SetupAlone, RowThere, Knows
  <1> QED
    BY <1>1, <1>2, <1>3, <1>4, TypeParts DEF IInv, Keeps

LEMMA NextKeeps == IInv /\ [Next]_vars => IInv'
  <1> SUFFICES ASSUME IInv, [Next]_vars
               PROVE  IInv'
    OBVIOUS
  <1>1. TypeOK /\ (\A m \in Merges : Kept(m)) /\ SetupAlone /\ RowThere
    BY DEF IInv, Keeps
  <1>2. OwnType' /\ (\A m \in Merges : Kept(m)')
    BY <1>1, KeptStep
  <1>3. SharedType'
    BY <1>1, SharedStep
  <1>4. TypeOK'
    BY <1>2, <1>3 DEF TypeOK, OwnType, SharedType
  <1>5. SetupAlone' /\ RowThere'
    BY <1>1, SetupStays, RowStays
  <1> QED
    BY <1>2, <1>4, <1>5 DEF IInv, Keeps

LEMMA AlwaysKeeps == Spec => []IInv
  <1> QED
    BY InitKeeps, NextKeeps, PTL DEF Spec

(* Every state of the consolidation is well typed: a merge never counts    *)
(* more copies of a name than there are payments (_allocate_duplicate_pdf_ *)
(* name), whatever runs beside it.                                         *)
THEOREM TypeCorrect == Spec => []TypeOK
  <1>1. IInv => TypeOK
    BY DEF IInv
  <1> QED
    BY <1>1, AlwaysKeeps, PTL

(* Every output a manifest lists is a file in SharePoint, whatever raises, *)
(* is killed or runs at the same time: a merge lists only what it has put  *)
(* or found, and no put leaves a file empty.                               *)
THEOREM ManifestsAreFiled == Spec => []ManifestHasFiles
  <1>1. Init => ManifestFiles
    BY DEF Init, ManifestFiles
  <1>2. IInv /\ ManifestFiles /\ [Next]_vars => ManifestFiles'
    <2> SUFFICES ASSUME IInv, ManifestFiles, [Next]_vars
                 PROVE  ManifestFiles'
      OBVIOUS
    <2>0. TypeOK /\ OwnType /\ SharedType /\ \A m \in Merges : Kept(m)
      BY TypeParts DEF IInv, Keeps
    <2>1. Grows
      BY <2>0, KeptStep
    <2>2. ASSUME NEW n \in Processes, NEW part \in manifest[n]
          PROVE  HasFile(part[1])'
      <3>1. part[1] \in Payments
        BY <2>0, <2>2 DEF SharedType, Parts
      <3> QED
        BY <2>1, <2>2, <3>1 DEF Grows, ManifestFiles
    <2>3. CASE UNCHANGED manifest
      BY <2>2, <2>3 DEF ManifestFiles
    <2>4. ASSUME NEW m \in Merges, Manifest(m), ~UNCHANGED manifest
          PROVE  ManifestFiles'
      <3>1. \A part \in outputs[m] : part[1] \in Payments /\ HasFile(part[1])
        BY <2>0 DEF OwnType, Parts, Kept
      <3>2. manifest' = [manifest EXCEPT ![snap[m]] = outputs[m]]
        BY <2>4 DEF Manifest
      <3>3. \A n \in Processes : manifest'[n] = manifest[n] \/ manifest'[n] = outputs[m]
        BY <2>0, <3>2 DEF SharedType
      <3> QED
        BY <2>1, <2>2, <3>1, <3>3 DEF Grows, ManifestFiles
    <2>5. ASSUME NEW m \in Merges, MergeActs(m), ~Manifest(m)
          PROVE  UNCHANGED manifest
      BY <2>5 DEF MergeActs, MergeStep, MergeFault, Begin, ReadControl, ControlGet, ControlPut,
         Load, Prevalidate, Reuse, Build, Upload, GroupsDone, ControlRaises, DocumentRaises,
         BuildFails, UploadFails, Crash, store
    <2> QED
      BY <2>3, <2>4, <2>5, StepKinds, OwnStays
  <1>3. ManifestFiles <=> ManifestHasFiles
    BY DEF ManifestFiles, ManifestHasFiles, HasFile
  <1> QED
    BY <1>1, <1>2, <1>3, AlwaysKeeps, PTL DEF Spec

(* When no merge runs the control row is never left in CONSOLIDANDO: a     *)
(* merge that raised has marked it ERROR_MERGE (merge_composite's outer    *)
(* handler), unless it was killed or the control workbook itself failed.   *)
THEOREM MarkedOrEnded == Spec => []NeverLeftConsolidating
  <1>1. Init => WorkedOn
    BY DEF Init, WorkedOn, EmptyRow
  <1>2. IInv /\ WorkedOn /\ [Next]_vars => WorkedOn'
    <2> SUFFICES ASSUME IInv, WorkedOn, [Next]_vars,
                        {"control", "kill"} \cap trouble' = {}, row'.estado = "CONSOLIDANDO"
                 PROVE  \E m \in Merges : pc'[m] \in Working
      BY DEF WorkedOn
    <2>0. TypeOK /\ OwnType /\ SharedType /\ SetupAlone /\ RowThere
      BY TypeParts DEF IInv, Keeps
    <2>1. \/ row' = row
          \/ \E n \in Processes : NotifyPut(n) /\
               row' = [estado |-> "PENDIENTE_ASIENTOS", active |-> TRUE, process |-> n]
          \/ \E m \in Merges : ControlPut(m) /\ row' = Edited(m)
          \/ \E m \in Merges : /\ Ends(m) /\ pc[m] \in Putting /\ row' = Edited(m)
                               /\ ControlFaults /\ "control" \in trouble'
      BY <2>0, RowChanges
    <2>2. CASE \E m \in Merges : ControlPut(m) /\ row' = Edited(m)
      <3>1. PICK m \in Merges : ControlPut(m) /\ row' = Edited(m)
        BY <2>2
      <3>2. pc[m] \in Putting /\ view[m] \in Row
        BY <2>0, <3>1, PcAfter DEF OwnType
      <3>3. pc[m] = "markPut"
        BY <3>1, <3>2, EditedType DEF Putting
      <3>4. pc'[m] = "load"
        BY <2>0, <3>1, <3>3, PcAfter
      <3> QED
        BY <3>4 DEF Working
    <2>3. CASE row' = row
      <3>1. {"control", "kill"} \cap trouble = {}
        <4>1. trouble \subseteq trouble'
          BY StepKinds, OwnStays, <2>0, Moves
             DEF Begin, Reads, ControlGet, ControlPut, Works, Ends
        <4> QED
          BY <4>1
      <3>2. PICK o \in Merges : pc[o] \in Working
        BY <2>3, <3>1 DEF WorkedOn
      <3>3. CASE UNCHANGED pc
        BY <3>2, <3>3
      <3>4. ASSUME NEW m \in Merges, MergeActs(m)
            PROVE  pc'[o] \in Working \/ (pc[o] \in {"closePut", "errorPut"} /\ ControlPut(o))
        <4>1. CASE o # m
          BY <2>0, <3>2, <3>4, <4>1, OthersOwn DEF SameOwn
        <4>2. CASE o = m
          BY <2>0, <3>2, <3>4, <4>2, Moves, PcAfter
             DEF Begin, Reads, ControlPut, Works, Ends, Working, Putting, Grouping
        <4> QED
          BY <4>1, <4>2
      <3>5. ASSUME pc[o] \in {"closePut", "errorPut"}, ControlPut(o)
            PROVE  FALSE
        <4>1. view[o] \in Row /\ row' = Edited(o)
          BY <2>0, <3>5 DEF OwnType, ControlPut
        <4> QED
          BY <3>5, <4>1, EditedType
      <3> QED
        BY <3>3, <3>4, <3>5, StepKinds, OwnStays
    <2> QED
      BY <2>1, <2>2, <2>3
  <1>3. WorkedOn => NeverLeftConsolidating
    BY DEF WorkedOn, NeverLeftConsolidating, Live, Working
  <1> QED
    BY <1>1, <1>2, <1>3, AlwaysKeeps, PTL DEF Spec

-----------------------------------------------------------------------------
(***************************************************************************)
(* Merges one at a time.                                                   *)
(***************************************************************************)
LEMMA TroubleStays ==
    ASSUME TypeOK, [Next]_vars
    PROVE  trouble \subseteq trouble' /\ (NoControlTrouble => NoControlTrouble')
  <1>0. OwnType
    BY TypeParts
  <1>1. ASSUME NEW m \in Merges, MergeActs(m)
        PROVE  /\ trouble \subseteq trouble'
               /\ "control" \in trouble' => "control" \in trouble \/ ControlFaults
    <2>1. Begin(m) \/ Reads(m) \/ ControlGet(m) \/ ControlPut(m) \/ Works(m) \/ Ends(m)
      BY <1>0, <1>1, Moves
    <2>2. CASE UNCHANGED trouble
      BY <2>2
    <2>3. CASE Ends(m)
      BY <2>3 DEF Ends
    <2> QED
      BY <2>1, <2>2, <2>3 DEF Begin, Reads, ControlGet, ControlPut, Works
  <1> QED
    BY <1>1, StepKinds, OwnStays DEF NoControlTrouble

(* Only a merge that puts its row, or a notification, changes the row, and *)
(* a notification never one that is open.                                  *)
LEMMA OrderlyRow ==
    ASSUME IInv, Ordered, [Next]_vars, Orderly'
    PROVE  \/ row' = row
           \/ \E n \in Processes : /\ NotifyPut(n) /\ ~row.active
                /\ row' = [estado |-> "PENDIENTE_ASIENTOS", active |-> TRUE, process |-> n]
           \/ \E m \in Merges :
                /\ ControlPut(m) /\ row' = Edited(m) /\ pc[m] \in Putting
                /\ view[m] = row /\ row \in Row /\ row.active
                /\ row'.process = row.process
                /\ pc[m] = "closePut" /\ Consolidated(m) =>
                      row'.estado = "CONSOLIDADO" /\ row'.active = FALSE
                /\ ~(pc[m] = "closePut" /\ Consolidated(m)) =>
                      row'.active /\ row'.estado \in {"CONSOLIDANDO", "MERGE_PARCIAL", "ERROR_MERGE"}
  <1>0. TypeOK /\ OwnType /\ SharedType /\ SetupAlone /\ RowThere
    BY TypeParts DEF IInv, Keeps
  <1>1. "control" \notin trouble'
    BY DEF Orderly
  <1>2. ASSUME NEW n \in Processes, NotifyPut(n), row' # row
        PROVE  ~row.active
    <2>1. ~saw[n] /\ (row.active => Open(row))
      BY <1>2 DEF NotifyPut, Ordered, Open
    <2>2. "race" \notin trouble'
      BY DEF Orderly
    <2> QED
      BY <1>2, <2>1, <2>2 DEF NotifyPut
  <1>3. ASSUME NEW m \in Merges, ControlPut(m), row' = Edited(m)
        PROVE  /\ pc[m] \in Putting
               /\ view[m] = row /\ row \in Row /\ row.active
               /\ row'.process = row.process
               /\ pc[m] = "closePut" /\ Consolidated(m) =>
                     row'.estado = "CONSOLIDADO" /\ row'.active = FALSE
               /\ ~(pc[m] = "closePut" /\ Consolidated(m)) =>
                     row'.active /\ row'.estado \in {"CONSOLIDANDO", "MERGE_PARCIAL", "ERROR_MERGE"}
    <2>1. pc[m] \in Putting
      BY <1>0, <1>3, PcAfter
    <2>2. view[m] = row /\ row.active /\ row \in Row
      BY <1>0, <2>1 DEF Ordered, Putting, Working, SharedType
    <2> QED
      BY <1>3, <2>1, <2>2, EditedType DEF Putting
  <1> QED
    BY <1>0, <1>1, <1>2, <1>3, RowChanges

LEMMA OrderSteps == IInv /\ OrderInv /\ [Next]_vars => OrderInv'
  <1> SUFFICES ASSUME IInv, OrderInv, [Next]_vars, Orderly'
               PROVE  Ordered'
    BY DEF OrderInv
  <1>0. TypeOK /\ OwnType /\ SharedType /\ SetupAlone /\ RowThere
    BY TypeParts DEF IInv, Keeps
  <1>1. Orderly /\ Ordered /\ ~Overlap
    BY <1>0, TroubleStays DEF OrderInv, Orderly
  <1>2. /\ row'.active => row'.estado \in {"PENDIENTE_ASIENTOS", "CONSOLIDANDO",
                                        "MERGE_PARCIAL", "ERROR_MERGE"}
        /\ row'.active => row'.process \in Processes
    <2>1. CASE row' = row
      BY <1>1, <2>1 DEF Ordered
    <2>2. ASSUME NEW n \in Processes,
                 row' = [estado |-> "PENDIENTE_ASIENTOS", active |-> TRUE, process |-> n]
          PROVE  row'.estado = "PENDIENTE_ASIENTOS" /\ row'.process \in Processes
      BY <2>2
    <2>3. ASSUME NEW m \in Merges, row.active, row'.process = row.process,
                 \/ row'.active = FALSE
                 \/ row'.estado \in {"CONSOLIDANDO", "MERGE_PARCIAL", "ERROR_MERGE"}
          PROVE  /\ row'.active => row'.estado \in {"CONSOLIDANDO", "MERGE_PARCIAL", "ERROR_MERGE"}
                 /\ row'.process \in Processes
      BY <1>1, <2>3 DEF Ordered
    <2> QED
      BY <1>1, <2>1, <2>2, <2>3, OrderlyRow
  <1>3. ASSUME NEW m \in Merges, MergeActs(m)
        PROVE  Ordered'
    <2>1. Begin(m) \/ Reads(m) \/ ControlGet(m) \/ ControlPut(m) \/ Works(m) \/ Ends(m)
      BY <1>0, <1>3, Moves
    <2>2. UNCHANGED <<npc, saw>>
      BY <2>1 DEF Begin, Reads, ControlGet, ControlPut, Works, Ends, noteVars
    <2>3. ASSUME NEW o \in Merges, o # m
          PROVE  pc'[o] = pc[o] /\ view'[o] = view[o] /\ snap'[o] = snap[o]
      BY <1>0, <1>3, <2>3, OthersOwn DEF SameOwn
    <2>4. \A o \in Merges : o # m => ~Live(o) /\ ~Live(o)'
      <3>1. CASE Begin(m)
        BY <1>1, <2>3, <3>1 DEF Begin, Live
      <3>2. CASE ~Begin(m)
        <4>1. Live(m)
          BY <1>0, <2>1, <3>2, PcAfter DEF Reads, Works, Ends, Grouping, Putting, Live
        <4> QED
          BY <1>1, <2>3, <4>1 DEF Ordered, Live
      <3> QED
        BY <3>1, <3>2
    <2>7. /\ pc'[m] \in {"mark", "markPut"} \cup Working => row'.active
          /\ pc'[m] \in Knows \ {"manifest"} => row'.process = snap'[m]
          /\ pc'[m] \in Putting => view'[m] = row'
      <3>1. CASE Begin(m)
        BY <1>0, <3>1, PcAfter DEF Working, Knows, Putting
      <3>2. CASE Reads(m)
        BY <3>2 DEF Reads, MayMerge, Working, Putting
      <3>3. CASE ControlGet(m)
        <4>1. pc[m] \in {"mark", "close", "error"} /\ pc'[m] \in Putting /\ view'[m] = row
              /\ (pc'[m] = "markPut" <=> pc[m] = "mark")
              /\ (pc'[m] = "closePut" <=> pc[m] = "close")
          BY <1>0, <3>3, PcAfter
        <4>2. UNCHANGED <<row, snap>>
          BY <3>3 DEF ControlGet, store
        <4>3. row.active /\ (pc[m] # "error" => row.process = snap[m])
          BY <1>1, <4>1 DEF Ordered, Working, Knows
        <4> QED
          BY <4>1, <4>2, <4>3 DEF Putting, Knows
      <3>4. CASE ControlPut(m)
        <4>1. /\ pc[m] \in Putting /\ pc'[m] \in {"load", "manifest", "failed"}
              /\ (pc'[m] = "load" <=> pc[m] = "markPut")
          BY <1>0, <3>4, PcAfter
        <4>2. row' = Edited(m) /\ UNCHANGED snap
          BY <3>4 DEF ControlPut
        <4>3. row \in Row /\ view[m] = row /\ row.active
          BY <1>0, <1>1, <4>1 DEF Ordered, Putting, Working, SharedType
        <4>4. CASE pc[m] = "markPut"
          <5>1. row'.active = row.active /\ row'.process = row.process
            BY <4>2, <4>3, <4>4, EditedType
          <5>2. row.process = snap[m]
            BY <1>1, <4>4 DEF Ordered, Knows
          <5> QED
            BY <4>1, <4>2, <4>3, <4>4, <5>1, <5>2 DEF Putting
        <4>5. CASE pc[m] # "markPut"
          BY <4>1, <4>5 DEF Putting, Working, Knows
        <4> QED
          BY <4>4, <4>5
      <3>5. CASE Works(m)
        <4>1. row.active /\ row.process = snap[m] /\ UNCHANGED <<row, snap>>
          BY <1>1, <3>5 DEF Works, Ordered, Working, Knows, Grouping
        <4> QED
          BY <3>5, <4>1 DEF Works, Putting, Grouping
      <3>6. CASE Ends(m)
        <4>1. row' = row
          BY <3>6 DEF Ends, Orderly
        <4>2. pc'[m] = "error" => row.active
          BY <1>1, <3>6 DEF Ends, Ordered
        <4> QED
          BY <3>6, <4>1, <4>2 DEF Ends, Working, Knows, Putting
      <3> QED
        BY <2>1, <3>1, <3>2, <3>3, <3>4, <3>5, <3>6
    <2>8. ASSUME NEW o \in Merges, o # m
          PROVE  pc'[o] \notin {"mark", "markPut"} \cup Working \cup Knows \cup Putting
      BY <2>4, <2>8 DEF Live, Working, Knows, Putting
    <2>9. \A a, b \in Merges : Live(a)' /\ Live(b)' => a = b
      BY <2>4
    <2>10. \A n \in Processes : npc'[n] = "put" => ~saw'[n]
      BY <1>1, <2>2 DEF Ordered
    <2> QED
      BY <1>2, <2>7, <2>8, <2>9, <2>10 DEF Ordered, Putting
  <1>4. ASSUME UNCHANGED <<pc, view, snap>>,
               row' = row \/ ~row.active,
               \A n \in Processes : npc'[n] = "put" => ~saw'[n]
        PROVE  Ordered'
    <2>1. \A a, b \in Merges : Live(a)' /\ Live(b)' => a = b
      BY <1>1, <1>4 DEF Ordered, Live
    <2>2. ASSUME NEW m \in Merges
          PROVE  /\ pc'[m] \in {"mark", "markPut"} \cup Working => row'.active
                 /\ pc'[m] \in Knows \ {"manifest"} => row'.process = snap'[m]
                 /\ pc'[m] \in {"markPut", "closePut", "errorPut"} => view'[m] = row'
      BY <1>1, <1>4 DEF Ordered, Working, Knows
    <2> QED
      BY <1>2, <1>4, <2>1, <2>2 DEF Ordered
  <1>5. ASSUME NEW n \in Processes, Send(n) \/ NotifyStep(n)
        PROVE  Ordered'
    <2>1. UNCHANGED <<pc, view, snap>>
      BY <1>5 DEF Send, NotifyStep, Export, NotifyGet, NotifyPut, mine
    <2>2. row' = row \/ ~row.active
      <3>1. CASE NotifyPut(n)
        <4>1. "race" \notin trouble' /\ ~saw[n] /\ (row.active => Open(row))
          BY <1>1, <3>1 DEF NotifyPut, Ordered, Orderly, Open
        <4> QED
          BY <3>1, <4>1 DEF NotifyPut
      <3>2. CASE ~NotifyPut(n)
        BY <1>5, <3>2 DEF Send, NotifyStep, Export, NotifyGet, store
      <3> QED
        BY <3>1, <3>2
    <2>3. ASSUME NEW o \in Processes, npc'[o] = "put"
          PROVE  ~saw'[o]
      <3>1. CASE o # n
        <4>1. npc'[o] = npc[o] /\ saw'[o] = saw[o]
          BY <1>0, <1>5, <3>1
             DEF Send, NotifyStep, Export, NotifyGet, NotifyPut, NGoto, SharedType
        <4> QED
          BY <1>1, <2>3, <4>1 DEF Ordered
      <3>2. CASE o = n
        <4>1. NotifyGet(n) /\ ~Blocks(row) /\ saw' = [saw EXCEPT ![n] = Open(row)]
          BY <1>0, <1>5, <2>3, <3>2
             DEF Send, NotifyStep, Export, NotifyGet, NotifyPut, NGoto, SharedType
        <4>2. ~Open(row)
          BY <1>1, <4>1 DEF Blocks, Ordered, Open
        <4> QED
          BY <1>0, <3>2, <4>1, <4>2 DEF SharedType
      <3> QED
        BY <3>1, <3>2
    <2> QED
      BY <1>4, <2>1, <2>2, <2>3
  <1>6. ASSUME UNCHANGED <<pc, view, snap, noteVars, row>>
        PROVE  Ordered'
    BY <1>1, <1>4, <1>6 DEF Ordered, noteVars
  <1>7. ASSUME SetupStep
        PROVE  Ordered'
    <2>1. UNCHANGED <<pc, view, snap, noteVars>>
      BY <1>7 DEF SetupStep, SetupLooks, SetupGet, SetupPut, SetupCreate, mine
    <2>2. row' = row
      BY <1>0, <1>7 DEF SetupStep, SetupLooks, SetupGet, SetupPut, SetupCreate, SetupAlone, RowThere,
         store
    <2> QED
      BY <1>6, <2>1, <2>2
  <1>8. ASSUME NEW c \in CreditSet, FileAsiento(c)
        PROVE  Ordered'
    BY <1>6, <1>8 DEF FileAsiento, mine
  <1>9. ASSUME UNCHANGED vars
        PROVE  Ordered'
    BY <1>6, <1>9 DEF vars, store, mine
  <1> QED
    BY <1>3, <1>5, <1>7, <1>8, <1>9, StepKinds

(* A merge that closes its process has an output for each payment of it.   *)
LEMMA ClosingIsComplete ==
    ASSUME IInv, NEW m \in Merges, pc[m] = "closePut", Consolidated(m)
    PROVE  \A p \in PaymentSet(snap[m]) :
              /\ \E c \in CreditSet : <<p, c>> \in outputs[m]
              /\ HasFile(p)
  <1>1. Accounted(m) /\ todo[m] = <<>> /\ \A part \in outputs[m] : HasFile(part[1])
    BY DEF IInv, Keeps, Kept, Closing
  <1>2. Left(m) = {}
    BY <1>1 DEF Left
  <1>3. skipped[m] = {}
    BY DEF Consolidated
  <1>4. ASSUME NEW p \in PaymentSet(snap[m])
        PROVE  (\E c \in CreditSet : <<p, c>> \in outputs[m]) /\ HasFile(p)
    <2>1. PICK c \in CreditSet : <<p, c>> \in outputs[m]
      BY <1>1, <1>2, <1>3, <1>4 DEF Accounted
    <2>2. HasFile(<<p, c>>[1])
      BY <1>1, <2>1
    <2> QED
      BY <2>1, <2>2
  <1> QED
    BY <1>4

LEMMA OrderHolds == Spec => []OrderInv
  <1>1. Init => OrderInv
    BY DEF Init, OrderInv, Ordered, EmptyRow, Live, Working, Knows
  <1> QED
    BY <1>1, OrderSteps, AlwaysKeeps, PTL DEF Spec

(* A registered process leaves the control row only through a merge of     *)
(* that process with an output for each of its payments, as long as merges *)
(* run one at a time, no write to the control workbook raised and no       *)
(* notification put over what another had put since it read: however       *)
(* notifications overlap, _should_block_overwrite and                      *)
(* merge_control_parse_row2_validate_for_merge fit together, for any       *)
(* number of processes, merges and payments.                               *)
THEOREM LeavesOnlyMerged == Spec => OpenUntilMerged
  <1>1. ASSUME IInv, OrderInv, [Next]_vars, ~Overlap, {"control", "race"} \cap trouble' = {}, Open(row),
               ~row'.active \/ row'.process # row.process
        PROVE  \E m \in Merges :
                  /\ snap[m] = row.process
                  /\ \A p \in PaymentSet(row.process) :
                        \E c \in CreditSet : <<p, c>> \in outputs[m]
    <2>0. TypeOK
      BY <1>1 DEF IInv
    <2>1. Orderly' /\ Ordered
      BY <1>1, <2>0, TroubleStays DEF Orderly, OrderInv
    <2>2. row.active
      BY <1>1 DEF Open
    <2>3. PICK m \in Merges : pc[m] = "closePut" /\ Consolidated(m)
      BY <1>1, <2>1, <2>2, OrderlyRow
    <2>4. snap[m] = row.process
      BY <2>1, <2>3 DEF Ordered, Knows
    <2> QED
      BY <1>1, <2>3, <2>4, ClosingIsComplete
  <1>2. IInv /\ OrderInv /\ [Next]_vars =>
           [~Overlap /\ {"control", "race"} \cap trouble' = {}
              /\ Open(row) /\ (~row'.active \/ row'.process # row.process)
              => \E m \in Merges :
                   /\ snap[m] = row.process
                   /\ \A p \in PaymentSet(row.process) :
                         \E c \in CreditSet : <<p, c>> \in outputs[m]]_vars
    BY <1>1
  <1> QED
    BY <1>2, AlwaysKeeps, OrderHolds, PTL DEF Spec, OpenUntilMerged

(* A process reported CONSOLIDADO has a consolidated PDF in SharePoint for *)
(* each of its payments: with one process whatever merges overlap, fail or *)
(* are killed, and with several when merges run one at a time, the control *)
(* workbook does not fail and no notification put over another's.          *)
THEOREM ConsolidatedIsFiled ==
    ASSUME Undisturbed
    PROVE  Spec => []ConsolidatedHasFiles
  <1>1. Init => ClosedHasFiles /\ NoControlTrouble
    BY DEF Init, ClosedHasFiles, NoControlTrouble, EmptyRow
  <1>2. IInv /\ OrderInv /\ NoControlTrouble /\ ClosedHasFiles /\ [Next]_vars
           => (ClosedHasFiles /\ NoControlTrouble)'
    <2> SUFFICES ASSUME IInv, OrderInv, NoControlTrouble, ClosedHasFiles, [Next]_vars
                 PROVE  ClosedHasFiles' /\ NoControlTrouble'
      OBVIOUS
    <2>0. /\ TypeOK /\ OwnType /\ SharedType /\ SetupAlone /\ RowThere
          /\ \A m \in Merges : Kept(m)
      BY TypeParts DEF IInv, Keeps
    <2>1. NoControlTrouble' /\ trouble \subseteq trouble'
      BY <2>0, TroubleStays
    <2>2. Grows
      BY <2>0, KeptStep
    <2>3. ASSUME NEW n \in Processes, NEW p \in PaymentSet(n)
          PROVE  p \in Payments
      <3>1. PaymentsOf[n] \in Seq(Payments)
        BY MergeAssumption
      <3> QED
        BY <2>3, <3>1 DEF PaymentSet
    <2>4. CASE row' = row
      <3> SUFFICES ASSUME row.estado = "CONSOLIDADO",
                          "race" \notin trouble \/ \A n, o \in Processes : n = o
                   PROVE  /\ row.process \in Processes
                          /\ \A p \in PaymentSet(row.process) : HasFile(p)'
        BY <2>1, <2>4 DEF ClosedHasFiles, PaymentSet
      <3> QED
        BY <2>2, <2>3 DEF ClosedHasFiles, Grows
    <2>5. ASSUME NEW m \in Merges, row' = Edited(m), pc[m] \in Putting,
                 row'.estado = "CONSOLIDADO",
                 "race" \notin trouble \/ \A n, o \in Processes : n = o
          PROVE  ClosedHasFiles'
      <3>1. view[m] \in Row
        BY <2>0 DEF OwnType
      <3>2. pc[m] = "closePut" /\ Consolidated(m)
        BY <2>5, <3>1, EditedType DEF Putting
      <3>3. row'.process \in Processes /\ row'.process = view[m].process
        BY <2>0, <2>5, PutsTyped
      <3>4. row'.process = snap[m]
        <4>1. snap[m] \in Processes
          BY <2>0, <3>2 DEF Kept, Knows
        <4>2. CASE \A n, o \in Processes : n = o
          BY <3>3, <4>1, <4>2
        <4>3. CASE ~Overlap /\ ~ControlFaults /\ "race" \notin trouble
          <5>1. Ordered
            BY <4>3 DEF OrderInv, Orderly, NoControlTrouble
          <5> QED
            BY <5>1, <3>2, <3>3 DEF Ordered, Knows
        <4> QED
          BY <2>5, <4>2, <4>3 DEF Undisturbed
      <3>5. \A p \in PaymentSet(snap[m]) : HasFile(p)
        BY <3>2, ClosingIsComplete
      <3>6. ASSUME NEW p \in PaymentSet(row'.process)
            PROVE  HasFile(p)'
        BY <2>2, <2>3, <3>3, <3>4, <3>5, <3>6 DEF Grows
      <3> QED
        BY <3>3, <3>6 DEF ClosedHasFiles, PaymentSet
    <2>6. CASE row'.estado # "CONSOLIDADO"
               \/ ~("race" \notin trouble' \/ \A n, o \in Processes : n = o)
      BY <2>1, <2>6 DEF ClosedHasFiles
    <2>7. CASE /\ row'.estado = "CONSOLIDADO"
               /\ "race" \notin trouble' \/ \A n, o \in Processes : n = o
      <3>1. \A n \in Processes :
               row' # [estado |-> "PENDIENTE_ASIENTOS", active |-> TRUE, process |-> n]
        BY <2>7
      <3>2. \/ row' = row
            \/ \E m \in Merges : pc[m] \in Putting /\ row' = Edited(m)
        BY <2>0, <3>1, RowChanges, PcAfter
      <3>3. row' # row => ClosedHasFiles'
        BY <2>1, <2>5, <2>7, <3>2
      <3> QED
        BY <2>1, <2>4, <3>3
    <2> QED
      BY <2>6, <2>7
  <1>3. ClosedHasFiles => ConsolidatedHasFiles
    BY DEF ClosedHasFiles, ConsolidatedHasFiles, HasFile
  <1> QED
    BY <1>1, <1>2, <1>3, AlwaysKeeps, OrderHolds, PTL DEF Spec
=============================================================================
