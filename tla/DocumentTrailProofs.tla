------------------------ MODULE DocumentTrailProofs ------------------------
(***************************************************************************)
(* Proofs about the way of a client's documents, for every tree, every     *)
(* choice of names, whatever the secretary approves and whatever           *)
(* accounting moves or files.                                              *)
(***************************************************************************)
EXTENDS DocumentTrail, ReportBookProofs

\* What the merge has taken, once it has looked: a validated line without a
\* reason to be skipped is there with every asiento filed for it.
TakenOrSkipped ==
    stage = "build" =>
        \A i \in valid :
            \/ \E r \in Reasons : <<i, r>> \in skips
            \/ /\ i \in DOMAIN taken
               /\ taken[i].asientos = InFolder(i)
               /\ InFolder(i) # {}

\* Nobody is told of a merge before it has ended.
ToldAtTheEnd ==
    /\ told \in [{"merge", "dryrun"} -> Severities \cup {None}]
    /\ told["merge"] = "success" => stage \in {"merged", "planned"}

WholeInv == TakenOrSkipped /\ ToldAtTheEnd /\ SuccessIsWhole

\* The variables in which the two properties are stated.
ledger == <<name, lines, valid, filed, taken, skips, bundle, reused, told>>

-----------------------------------------------------------------------------
(***************************************************************************)
(* The steps that leave the merge's state alone.                           *)
(***************************************************************************)
LEMMA FolderStays ==
    ASSUME UNCHANGED <<name, lines, filed>>, NEW i
    PROVE  InFolder(i)' = InFolder(i) /\ FolderOf(lines[i])' = FolderOf(lines[i])
  BY DEF InFolder, FolderOf, FolderLabel

\* What happens before the merge keeps the invariant whatever it does to the
\* lines: nothing is told yet.
LEMMA BeforeMerge ==
    ASSUME WholeInv, stage \notin {"build", "merged", "planned"}, stage' # "build",
           UNCHANGED told
    PROVE  WholeInv'
  <1>1. told["merge"] # "success"
    BY DEF WholeInv, ToldAtTheEnd
  <1> QED
    BY <1>1 DEF WholeInv, TakenOrSkipped, ToldAtTheEnd, SuccessIsWhole

LEMMA AlongMerge ==
    ASSUME WholeInv, UNCHANGED <<stage, ledger>>
    PROVE  WholeInv'
  <1>1. \A i : InFolder(i)' = InFolder(i)
    BY FolderStays DEF ledger
  <1> QED
    BY <1>1 DEF WholeInv, TakenOrSkipped, ToldAtTheEnd, SuccessIsWhole, ledger

-----------------------------------------------------------------------------
LEMMA WholeInit == Init => WholeInv
  BY TrailAssumption
  DEF Init, WholeInv, TakenOrSkipped, ToldAtTheEnd, SuccessIsWhole, Severities

\* A line whose skip reasons are empty has its asientos, all with its number.
LEMMA NoReasonIsWhole ==
    ASSUME NEW i, NEW call, SkipReasons(i, call) = {}
    PROVE  Whole(i, call) /\ Accepted(i) = InFolder(i) /\ InFolder(i) # {}
  BY DEF SkipReasons, Whole

LEMMA ReasonsTyped ==
    ASSUME NEW i, NEW call
    PROVE  SkipReasons(i, call) \subseteq Reasons
  BY DEF SkipReasons, Reasons

LEMMA PrevalidateStep == WholeInv /\ PrevalidatePayment => WholeInv'
  <1> SUFFICES ASSUME WholeInv, PrevalidatePayment PROVE WholeInv'
    OBVIOUS
  <1>1. \A i : InFolder(i)' = InFolder(i)
    BY FolderStays DEF PrevalidatePayment, treeVars, sheetVars
  <1>2. told["merge"] # "success" /\ told' = told
    BY DEF WholeInv, ToldAtTheEnd, PrevalidatePayment
  <1>3. TakenOrSkipped'
    <2> SUFFICES ASSUME NEW i \in valid
                 PROVE  \/ \E r \in Reasons : <<i, r>> \in skips'
                        \/ /\ i \in DOMAIN taken'
                           /\ taken'[i].asientos = InFolder(i)
                           /\ InFolder(i) # {}
      BY <1>1 DEF TakenOrSkipped, PrevalidatePayment, sheetVars
    <2>0. PICK call \in [valid -> Calls] :
             /\ taken' = [j \in {k \in valid : Whole(k, call[k])} |->
                            [number |-> RowNumber(lines[j].credit, lines[j].ruta),
                             asientos |-> Accepted(j)]]
             /\ skips' = UNION {{j} \X SkipReasons(j, call[j]) : j \in valid}
      BY DEF PrevalidatePayment
    <2>1. CASE SkipReasons(i, call[i]) = {}
      BY <2>0, <2>1, NoReasonIsWhole
    <2>2. CASE SkipReasons(i, call[i]) # {}
      <3>1. PICK r \in SkipReasons(i, call[i]) : TRUE
        BY <2>2
      <3>2. <<i, r>> \in skips'
        BY <2>0, <3>1
      <3> QED
        BY <3>1, <3>2, ReasonsTyped
    <2> QED
      BY <2>1, <2>2
  <1> QED
    BY <1>2, <1>3 DEF WholeInv, ToldAtTheEnd, SuccessIsWhole

\* A merge is told as a success only if it skipped nothing.
LEMMA SuccessSkipsNothing ==
    ASSUME NEW output, Tell(output), told \in [{"merge", "dryrun"} -> Severities \cup {None}]
    PROVE  /\ told' \in [{"merge", "dryrun"} -> Severities \cup {None}]
           /\ told'["merge"] = "success" => skips' = {}
           /\ told'["dryrun"] = told["dryrun"]
  <1>1. PICK others \in BOOLEAN :
           told' = [told EXCEPT !["merge"] =
                      MergeSeverity(output, skips' # {}, ~reused' \/ others)]
    BY DEF Tell
  <1>2. \A a, b, c : /\ MergeSeverity(a, b, c) \in {"success", "warning"}
                     /\ MergeSeverity(a, b, c) = "success" => ~b
    BY DEF MergeSeverity
  <1>3. told'["merge"] = MergeSeverity(output, skips' # {}, ~reused' \/ others)
    BY <1>1
  <1> QED
    BY <1>1, <1>2, <1>3 DEF Severities

LEMMA BuildStep == WholeInv /\ BuildParts => WholeInv'
  <1> SUFFICES ASSUME WholeInv, BuildParts PROVE WholeInv'
    OBVIOUS
  <1>1. \A i : InFolder(i)' = InFolder(i)
    BY FolderStays DEF BuildParts, treeVars, sheetVars
  <1>2. stage = "build" /\ stage' = "merged" /\ UNCHANGED <<valid, taken>>
    BY DEF BuildParts, sheetVars
  <1>3. PICK output : Tell(output)
    BY DEF BuildParts, SkipPayment, ReusePdf, WritePdf
  <1>4. /\ told' \in [{"merge", "dryrun"} -> Severities \cup {None}]
        /\ told'["merge"] = "success" => skips' = {}
    BY <1>3, SuccessSkipsNothing DEF WholeInv, ToldAtTheEnd
  <1>5. ToldAtTheEnd'
    BY <1>2, <1>4 DEF ToldAtTheEnd
  <1>6. SuccessIsWhole'
    <2> SUFFICES ASSUME told'["merge"] = "success", NEW i \in valid
                 PROVE  /\ i \in DOMAIN taken
                        /\ taken[i].asientos # {}
                        /\ \A a \in InFolder(i) : a \in taken[i].asientos
                        /\ ~reused' => /\ i \in DOMAIN bundle'
                                       /\ bundle'[i].asientos = taken[i].asientos
      BY <1>1, <1>2 DEF SuccessIsWhole
    <2>1. skips' = {} /\ skips \subseteq skips'
      BY <1>4 DEF BuildParts, SkipPayment, ReusePdf, WritePdf
    <2>2. /\ i \in DOMAIN taken
          /\ taken[i].asientos = InFolder(i) /\ InFolder(i) # {}
      BY <1>2, <2>1 DEF WholeInv, TakenOrSkipped
    <2>3. ASSUME ~reused' PROVE bundle' = Merged
      <3>1. ~SkipPayment
        BY <2>1, <2>2 DEF SkipPayment
      <3> QED
        BY <2>3, <3>1 DEF BuildParts, ReusePdf, WritePdf
    <2>4. i \in DOMAIN Merged /\ Merged[i].asientos = taken[i].asientos
      BY <2>2 DEF Merged
    <2> QED
      BY <2>2, <2>3, <2>4
  <1> QED
    BY <1>2, <1>5, <1>6 DEF WholeInv, TakenOrSkipped

LEMMA AgainStep == WholeInv /\ MergeAgain => WholeInv'
  <1> SUFFICES ASSUME WholeInv, MergeAgain PROVE WholeInv'
    OBVIOUS
  <1>1. stage' = "final" /\ told' = [told EXCEPT !["merge"] = None]
    BY DEF MergeAgain
  <1>2. ToldAtTheEnd' /\ told'["merge"] # "success"
    BY <1>1, TrailAssumption DEF WholeInv, ToldAtTheEnd, Severities
  <1> QED
    BY <1>1, <1>2 DEF WholeInv, TakenOrSkipped, SuccessIsWhole

LEMMA PlanStep == WholeInv /\ PlanEvents => WholeInv'
  <1> SUFFICES ASSUME WholeInv, PlanEvents PROVE WholeInv'
    OBVIOUS
  <1>1. \A i : InFolder(i)' = InFolder(i)
    BY FolderStays DEF PlanEvents, treeVars, sheetVars
  <1>2. /\ stage = "merged" /\ stage' = "planned"
        /\ UNCHANGED <<valid, taken, bundle, reused>>
        /\ \E b \in {"warning", "success"} : told' = [told EXCEPT !["dryrun"] = b]
    BY DEF PlanEvents, sheetVars, mergeVars, DryRunSeverity
  <1>3. ToldAtTheEnd' /\ told'["merge"] = told["merge"]
    BY <1>2 DEF WholeInv, ToldAtTheEnd, Severities
  <1> QED
    BY <1>1, <1>2, <1>3 DEF WholeInv, TakenOrSkipped, SuccessIsWhole

\* Every step of Next keeps the invariant.
LEMMA WholeStep == WholeInv /\ [Next]_vars => WholeInv'
  <1> SUFFICES ASSUME WholeInv, [Next]_vars PROVE WholeInv'
    OBVIOUS
  <1>1. CASE ListClient
    BY <1>1, BeforeMerge DEF ListClient
  <1>2. CASE ListFolder
    BY <1>2, BeforeMerge DEF ListFolder
  <1>3. CASE UnitsKnown
    BY <1>3, BeforeMerge DEF UnitsKnown
  <1>4. CASE OpenUnit
    BY <1>4, BeforeMerge DEF OpenUnit
  <1>5. CASE ReadUnit
    BY <1>5, BeforeMerge DEF ReadUnit
  <1>6. CASE LegacyUnit
    BY <1>6, BeforeMerge DEF LegacyUnit
  <1>7. CASE GenerateEnds
    BY <1>7, BeforeMerge DEF GenerateEnds
  <1>8. CASE Approve
    BY <1>8, BeforeMerge DEF Approve
  <1>9. CASE Finalize
    BY <1>9, BeforeMerge DEF Finalize
  <1>10. CASE MissingExtractRoute
    BY <1>10, BeforeMerge DEF MissingExtractRoute
  <1>11. CASE Notify
    BY <1>11, BeforeMerge DEF Notify
  <1>12. CASE File
    BY <1>12, BeforeMerge DEF File
  <1>13. CASE PrevalidatePayment
    BY <1>13, PrevalidateStep
  <1>14. CASE BuildParts
    BY <1>14, BuildStep
  <1>15. CASE PlanEvents
    BY <1>15, PlanStep
  <1>16. CASE Touch
    BY <1>16, AlongMerge DEF Touch, Move, trailVars, sheetVars, mergeVars, ledger
  <1>17. CASE Report
    BY <1>17, AlongMerge DEF Report, treeVars, trailVars, sheetVars, mergeVars, ledger
  <1>18. CASE UNCHANGED vars
    BY <1>18, AlongMerge DEF vars, treeVars, trailVars, sheetVars, mergeVars, ledger
  <1>19. CASE MergeAgain
    BY <1>19, AgainStep
  <1> QED
    BY <1>1, <1>2, <1>3, <1>4, <1>5, <1>6, <1>7, <1>8, <1>9, <1>10, <1>11, <1>12,
       <1>13, <1>14, <1>15, <1>16, <1>17, <1>18, <1>19 DEF Next, TrailNext

\* A merge told as a success has every validated line in its manifest with
\* every asiento in its folder, and a PDF it has written itself holds the same:
\* whatever accounting moved, whichever calls failed and however often the
\* merge was called before.  (_merge_completed_enrichment)
THEOREM SuccessWhole == Spec => []SuccessIsWhole
  <1>1. WholeInv => SuccessIsWhole
    BY DEF WholeInv
  <1> QED
    BY WholeInit, WholeStep, <1>1, PTL DEF Spec

-----------------------------------------------------------------------------
(***************************************************************************)
(* What accounting files is taken.                                         *)
(***************************************************************************)
LEMMA NumberInjective ==
    ASSUME NEW a, NEW b, Number(a) = Number(b)
    PROVE  a = b
  <1>1. Number(a).numbers[1] = a /\ Number(b).numbers[1] = b
    BY DEF Number
  <1> QED
    BY <1>1

\* Where the two rules agree on column Credito, the folder bears the number
\* the merge expects in the names of the asientos.
LEMMA FolderHasRowNumber ==
    ASSUME NEW l, NEW path, NEW n,
           Digits(l.credit) = MatchNumber(l.credit), Digits(l.credit) # None,
           Number(n) = FolderLabel(l)
    PROVE  n = RowNumber(l.credit, path)
  <1>1. FolderLabel(l) = Number(Digits(l.credit))
    BY DEF FolderLabel, FirstOf
  <1>2. RowNumber(l.credit, path) = Digits(l.credit)
    BY DEF RowNumber, FirstOf
  <1> QED
    BY <1>1, <1>2, NumberInjective

LEMMA FiledPrevalidate == PrevalidatePayment => FiledIsAccepted'
  <1> SUFFICES ASSUME PrevalidatePayment PROVE FiledIsAccepted'
    OBVIOUS
  <1>1. \A i : FolderOf(lines[i])' = FolderOf(lines[i]) /\ FolderLabel(lines[i])' = FolderLabel(lines[i])
    BY DEF PrevalidatePayment, treeVars, sheetVars, FolderOf, FolderLabel
  <1>2. UNCHANGED <<lines, valid, filed>>
    BY DEF PrevalidatePayment, sheetVars
  <1> SUFFICES ASSUME NEW i \in valid, NEW a \in filed,
                      a.folder = FolderOf(lines[i]),
                      Number(a.number) = FolderLabel(lines[i]),
                      Digits(lines[i].credit) = MatchNumber(lines[i].credit),
                      Digits(lines[i].credit) # None,
                      <<i, "extract_routes_missing">> \notin skips',
                      <<i, "asiento_folder_list_failed">> \notin skips'
               PROVE  i \in DOMAIN taken' /\ a \in taken'[i].asientos
    BY <1>1, <1>2 DEF FiledIsAccepted
  <1>3. a \in Accepted(i)
    BY FolderHasRowNumber DEF Accepted, InFolder
  <1>4. RowNumber(lines[i].credit, lines[i].ruta) # None
    BY DEF RowNumber, FirstOf
  <1>5. PICK call \in [valid -> Calls] :
           /\ taken' = [j \in {k \in valid : Whole(k, call[k])} |->
                          [number |-> RowNumber(lines[j].credit, lines[j].ruta),
                           asientos |-> Accepted(j)]]
           /\ skips' = UNION {{j} \X SkipReasons(j, call[j]) : j \in valid}
    BY DEF PrevalidatePayment
  <1>6. /\ "extract_routes_missing" \notin SkipReasons(i, call[i])
        /\ "asiento_folder_list_failed" \notin SkipReasons(i, call[i])
    BY <1>5
  <1>7. Whole(i, call[i])
    BY <1>3, <1>4, <1>6 DEF Whole, SkipReasons
  <1> QED
    BY <1>3, <1>5, <1>7

\* After the merge has looked nothing changes but the skips, which grow.
LEMMA FiledStays ==
    ASSUME FiledIsAccepted, UNCHANGED <<name, lines, valid, filed, taken>>,
           skips \subseteq skips',
           stage \in {"build", "merged", "planned"} \/ stage' \notin {"build", "merged", "planned"}
    PROVE  FiledIsAccepted'
  <1>1. \A i : FolderOf(lines[i])' = FolderOf(lines[i]) /\ FolderLabel(lines[i])' = FolderLabel(lines[i])
    BY DEF FolderOf, FolderLabel
  <1> QED
    BY <1>1 DEF FiledIsAccepted

LEMMA FiledStep == FiledIsAccepted /\ [Next]_vars => FiledIsAccepted'
  <1> SUFFICES ASSUME FiledIsAccepted, [Next]_vars PROVE FiledIsAccepted'
    OBVIOUS
  <1>1. CASE stage' \notin {"build", "merged", "planned"}
    BY <1>1 DEF FiledIsAccepted
  <1>2. CASE PrevalidatePayment
    BY <1>2, FiledPrevalidate
  <1>3. CASE BuildParts
    <2>1. skips \subseteq skips'
      BY <1>3 DEF BuildParts, SkipPayment, ReusePdf, WritePdf
    <2> QED
      BY <1>3, <2>1, FiledStays DEF BuildParts, treeVars, sheetVars
  <1>4. CASE PlanEvents
    BY <1>4, FiledStays DEF PlanEvents, treeVars, sheetVars, mergeVars
  <1>5. CASE Touch
    BY <1>1, <1>5, FiledStays DEF Touch, Move, trailVars, sheetVars, mergeVars
  <1>6. CASE Report
    BY <1>1, <1>6, FiledStays DEF Report, treeVars, trailVars, sheetVars, mergeVars
  <1>7. CASE UNCHANGED vars
    BY <1>1, <1>7, FiledStays DEF vars, treeVars, trailVars, sheetVars, mergeVars
  <1>8. ASSUME TrailNext, ~PrevalidatePayment, ~BuildParts, ~PlanEvents
        PROVE  stage' \notin {"build", "merged", "planned"}
    BY <1>8 DEF TrailNext, ListClient, ListFolder, UnitsKnown, OpenUnit, ReadUnit, LegacyUnit,
                GenerateEnds, Approve, Finalize, MissingExtractRoute, Notify, File, MergeAgain
  <1> QED
    BY <1>1, <1>2, <1>3, <1>4, <1>5, <1>6, <1>7, <1>8 DEF Next

\* An asiento that bears the number of the folder finalize made for its line is
\* taken by the merge, for every label on which the rules of finalize and the
\* merge agree and wherever accounting moves the extracts.
\* (_asientos_folder_name_for_credit, _normalize_credito_excel_value)
THEOREM FiledAccepted == Spec => []FiledIsAccepted
  <1>1. Init => FiledIsAccepted
    BY DEF Init, FiledIsAccepted
  <1> QED
    BY <1>1, FiledStep, PTL DEF Spec

-----------------------------------------------------------------------------
(***************************************************************************)
(* The units in their order.                                               *)
(***************************************************************************)
\* Of the folders those that were listed as units, each once.
LEMMA OperatingIs ==
    ASSUME listed \in [Units -> (SUBSET Nat) \cup {None}]
    PROVE  /\ Operating \in Seq(Range(Folders)) /\ Len(Operating) <= Len(Folders)
           /\ \A k \in DOMAIN Operating : listed[Operating[k]] # None
           /\ \A k, m \in DOMAIN Operating : Operating[k] = Operating[m] => k = m
           /\ \A f \in Range(Folders) :
                 listed[f] # None => \E k \in DOMAIN Operating : Operating[k] = f
  <1> DEFINE I == {i \in DOMAIN Folders : listed[Folders[i]] # None}
             n == Cardinality(I)
  <1>1. Folders \in Seq(Range(Folders)) /\ I \in SUBSET DOMAIN Folders
    BY TreeAssumption
  <1>2. Operating = Picked(Folders, I)
    BY DEF Operating
  <1>3. \A i \in I : listed[Folders[i]] # None
    OBVIOUS
  <1>4. \A f \in Range(Folders) : listed[f] # None => \E i \in I : Folders[i] = f
    BY DEF Range
  <1> HIDE DEF I
  <1>5. /\ n <= Len(Folders) /\ Operating \in Seq(Range(Folders)) /\ Len(Operating) = n
        /\ DOMAIN Operating = 1 .. n
    <2>1. Operating \in Seq(Range(Folders)) /\ Len(Operating) = n /\ n <= Len(Folders)
      BY <1>1, <1>2, PickedIs
    <2> QED
      BY <2>1
  <1>6. PICK r \in [1 .. n -> I] :
           /\ \A k \in 1 .. n : Operating[k] = Folders[r[k]]
           /\ \A k, m \in 1 .. n : r[k] = r[m] => k = m
           /\ \A i \in I : \E k \in 1 .. n : r[k] = i
    BY <1>1, <1>2, PickedIs
  <1>7. \A i, j \in I : Folders[i] = Folders[j] => i = j
    BY <1>1, TreeAssumption DEF IsInjective
  <1> HIDE DEF n
  <1>8. \A k \in 1 .. n : r[k] \in I /\ Operating[k] = Folders[r[k]]
    BY <1>6
  <1>9. \A k, m \in 1 .. n : Operating[k] = Operating[m] => k = m
    BY <1>6, <1>7, <1>8
  <1>10. \A f \in Range(Folders) : listed[f] # None => \E k \in 1 .. n : Operating[k] = f
    BY <1>4, <1>6, <1>8
  <1>11. \A k \in 1 .. n : listed[Operating[k]] # None
    BY <1>3, <1>8
  <1> QED
    BY <1>5, <1>9, <1>10, <1>11

\* The units in turn: the folders that are units, then the client's own one,
\* which is alone when no folder is a unit.
LEMMA UnitOrderIs ==
    ASSUME listed \in [Units -> (SUBSET Nat) \cup {None}]
    PROVE  /\ UnitOrder \in Seq(Units) /\ Len(UnitOrder) \in Nat
           /\ Len(UnitOrder) <= Len(Folders) + 1
           /\ \A k \in DOMAIN UnitOrder :
                 \/ UnitOrder[k] \in Range(Folders) /\ listed[UnitOrder[k]] # None /\ ~Flat
                 \/ UnitOrder[k] = Client /\ (Flat \/ listed[Client] # {})
           /\ \A k, m \in DOMAIN UnitOrder : UnitOrder[k] = UnitOrder[m] => k = m
           /\ \A f \in Range(Folders) :
                 listed[f] # None => \E k \in DOMAIN UnitOrder : UnitOrder[k] = f
           /\ Flat \/ listed[Client] # {} => \E k \in DOMAIN UnitOrder : UnitOrder[k] = Client
  <1> DEFINE n == Len(Operating)
  <1>1. /\ Operating \in Seq(Range(Folders)) /\ n \in Nat /\ n <= Len(Folders)
        /\ DOMAIN Operating = 1 .. n
        /\ \A k \in 1 .. n : Operating[k] \in Range(Folders) /\ listed[Operating[k]] # None
        /\ \A k, m \in 1 .. n : Operating[k] = Operating[m] => k = m
        /\ \A f \in Range(Folders) : listed[f] # None => \E k \in 1 .. n : Operating[k] = f
    BY OperatingIs
  <1>2. Client \notin Range(Folders) /\ Len(Folders) \in Nat
    BY TreeAssumption
  <1>3. Flat <=> n = 0
    BY <1>1 DEF Flat
  <1>4. CASE Flat
    <2>1. UnitOrder = <<Client>> /\ DOMAIN UnitOrder = {1} /\ UnitOrder[1] = Client
      BY <1>4 DEF UnitOrder
    <2>2. \A f \in Range(Folders) : listed[f] = None
      BY <1>1, <1>3, <1>4
    <2> QED
      BY <1>2, <1>4, <2>1, <2>2 DEF Units
  <1>5. CASE ~Flat /\ listed[Client] # {}
    <2>1. UnitOrder = Append(Operating, Client)
      BY <1>5 DEF UnitOrder
    <2>2. /\ Len(UnitOrder) = n + 1 /\ DOMAIN UnitOrder = 1 .. n + 1
          /\ UnitOrder[n + 1] = Client
          /\ \A k \in 1 .. n : UnitOrder[k] = Operating[k]
          /\ UnitOrder \in Seq(Units)
      <3>1. Operating \in Seq(Units)
        BY <1>1 DEF Units
      <3> QED
        BY <2>1, <3>1 DEF Units
    <2> HIDE DEF n
    <2>3. \A k \in 1 .. n + 1 : k = n + 1 \/ k \in 1 .. n
      BY <1>1
    <2>4. \A k \in 1 .. n : UnitOrder[k] \in Range(Folders) /\ UnitOrder[k] # Client
      BY <1>1, <1>2, <2>2
    <2>5. \A k, m \in 1 .. n + 1 : UnitOrder[k] = UnitOrder[m] => k = m
      BY <1>1, <2>2, <2>3, <2>4
    <2> QED
      BY <1>1, <1>2, <1>5, <2>2, <2>3, <2>4, <2>5
  <1>6. CASE ~Flat /\ listed[Client] = {}
    <2>1. UnitOrder = Operating
      BY <1>6 DEF UnitOrder
    <2>2. UnitOrder \in Seq(Units)
      BY <1>1, <2>1 DEF Units
    <2> QED
      BY <1>1, <1>2, <1>6, <2>1, <2>2
  <1> QED
    BY <1>4, <1>5, <1>6

-----------------------------------------------------------------------------
(***************************************************************************)
(* Types.  Where a step takes a value from is part of them: the pool of    *)
(* the unit being read, the listing of the client's folder, and that       *)
(* nothing is approved before the sheet is.                                *)
(***************************************************************************)
Unapproved == {"report", "start", "list", "unit", "read", "review", "nothing"}
Routed     == {"final", "build", "merged", "planned"}

ScanInv ==
    /\ rule \in Rules /\ stage \in Stages
    /\ at \in 1 .. Len(Folders) + 2
    /\ listed \in [Units -> (SUBSET Nat) \cup {None}]
    /\ stage \notin {"report", "start"} => listed[Client] \in SUBSET Nat
    /\ pool \in [at : Places, files : SUBSET Nat] \cup {None}
    /\ stage = "read" => /\ pool \in [at : Places, files : SUBSET Nat]
                         /\ at \in DOMAIN UnitOrder

SheetInv ==
    /\ lines \in Seq(Line)
    /\ issues \subseteq Units \X Codes
    /\ valid \subseteq DOMAIN lines /\ cleared \subseteq valid
    /\ stage \in Unapproved => valid = {}
    /\ stage \in Routed => \A i \in valid : lines[i].ruta # None

MergeInv ==
    /\ filed \subseteq Asiento
    /\ sent \in (SUBSET Extracts) \cup {None}
    /\ DOMAIN taken \subseteq valid /\ \A i \in DOMAIN taken : taken[i] \in Taken
    /\ skips \subseteq valid \X Reasons
    /\ DOMAIN bundle \subseteq valid /\ \A i \in DOMAIN bundle : bundle[i] \in Bundled
    /\ plan \subseteq Event
    /\ told \in [{"merge", "dryrun"} -> Severities \cup {None}]
    /\ reused \in BOOLEAN

TypeInv == TreeInv /\ ScanInv /\ SheetInv /\ MergeInv /\ BookInv

LostInv ==
    /\ unread \subseteq Extracts /\ unlisted \subseteq cleared /\ unsent \subseteq Extracts
    /\ stage \notin Routed => unlisted = {}

LEMMA TypeInvTypes == TypeInv /\ LostInv => TypeOK
  BY DEF TypeInv, LostInv, TypeOK, TreeInv, ScanInv, SheetInv, MergeInv, BookInv

\* The parts no step of an action touches stay as they are.
LEMMA TreeStays == TreeInv /\ UNCHANGED treeVars => TreeInv'
  BY DEF TreeInv, OneEach, treeVars

LEMMA UnitOrderStays ==
    UNCHANGED listed => UNCHANGED <<UnitOrder, Flat, Operating>>
  BY DEF UnitOrder, Flat, Operating, Picked

LEMMA ScanStays == ScanInv /\ UNCHANGED <<rule, stage, at, listed, pool>> => ScanInv'
  BY UnitOrderStays DEF ScanInv

LEMMA SheetStays ==
    ASSUME SheetInv, UNCHANGED sheetVars,
           stage' = stage \/ stage' \notin Unapproved \cup Routed \/ valid = {}
             \/ (stage' \in Routed /\ stage \in Routed)
    PROVE  SheetInv'
  BY DEF SheetInv, sheetVars, Unapproved, Routed

LEMMA MergeStays ==
    ASSUME MergeInv, UNCHANGED <<filed, sent, mergeVars, plan, told>>,
           valid' = valid \/ valid = {}
    PROVE  MergeInv'
  BY DEF MergeInv, mergeVars

-----------------------------------------------------------------------------
(***************************************************************************)
(* Generate.                                                               *)
(***************************************************************************)
LEMMA UnitPlaces == \A u \in Units : Own(u) \in Places /\ Inner(u) \in Places
  BY DEF Own, Inner, Places

LEMMA Unitary == Client \in Units /\ Range(Folders) \subseteq Units
  BY DEF Units

\* The pool of a unit is of its own place or EXTRACTOS in it.
LEMMA PoolOfType ==
    ASSUME ScanInv, listed[Client] \in SUBSET Nat, NEW k \in DOMAIN UnitOrder,
           NEW u, u = UnitOrder[k]
    PROVE  u \in Units /\ listed[u] \in SUBSET Nat
           /\ PoolOf(u) \in [at : Places, files : SUBSET Nat]
  <1>1. (u \in Range(Folders) /\ listed[u] # None) \/ u = Client
    BY UnitOrderIs DEF ScanInv
  <1>2. u \in Units
    BY <1>1, Unitary
  <1>3. listed[u] \in SUBSET Nat
    <2>1. listed \in [Units -> (SUBSET Nat) \cup {None}]
      BY DEF ScanInv
    <2>2. CASE listed[u] # None
      BY <1>2, <2>1, <2>2
    <2>3. CASE u = Client
      BY <2>3
    <2> QED
      BY <1>1, <2>2, <2>3
  <1>4. Own(u) \in Places /\ Inner(u) \in Places /\ Own(Client) \in Places
    BY <1>2, Unitary, UnitPlaces
  <1>5. FilesAt(Inner(u)) \in SUBSET Nat
    BY FilesFinite
  <1> QED
    BY <1>2, <1>3, <1>4, <1>5 DEF PoolOf, ExtractPool

LEMMA CandidateType ==
    ASSUME TreeInv, NEW u \in Units, NEW path \in Paths, Has(path)
    PROVE  Candidate(u, path) \in Line /\ LegacyCandidate(u, path) \in Line
  <1>1. DocAt(path) \in Extracts
    BY DocIs DEF Paths
  <1>2. CreditId(u, DocAt(path)) \in Label /\ name[u] \in Label
    BY <1>1, CreditIdType
  <1>3. Candidate(u, path) \in Line
    BY <1>1, <1>2, LabelTypes DEF Candidate, Line, HasTable
  <1>4. StatementCredit(About[DocAt(path)].name) \in NatOrNone
    BY <1>1, FactTypes, NameTypes
  <1> DEFINE credit == IF StatementCredit(About[DocAt(path)].name) # None
                       THEN Number(StatementCredit(About[DocAt(path)].name)) ELSE name[u]
  <1>5. credit \in Label
    BY <1>2, <1>4, NumberType DEF NatOrNone
  <1>6. LegacyCandidate(u, path) =
          [Candidate(u, path) EXCEPT !.credit = credit, !.key = CreditKey(credit)]
    BY DEF LegacyCandidate
  <1> HIDE DEF credit
  <1>7. CreditKey(credit) \in Label
    BY <1>5, LabelTypes
  <1> QED
    BY <1>3, <1>5, <1>6, <1>7 DEF Line

\* What is not a step of the trail leaves the tree or the report alone.
LEMMA TrailFrame ==
    ASSUME TypeInv, UNCHANGED <<treeVars, bankVars>>
    PROVE  TreeInv' /\ BookInv'
  BY TreeStays, BookStays DEF TypeInv, bankVars

LEMMA ListClientType == TypeInv /\ ListClient => TypeInv'
  <1> SUFFICES ASSUME TypeInv, ListClient PROVE TypeInv'
    OBVIOUS
  <1>1. ScanInv /\ SheetInv /\ MergeInv
    BY DEF TypeInv
  <1>2. TreeInv' /\ BookInv'
    BY TrailFrame DEF ListClient
  <1>3. ScanInv'
    <2>1. FilesAt(Own(Client)) \in SUBSET Nat /\ Client \in Units
      BY FilesFinite, Unitary
    <2> QED
      BY <1>1, <2>1 DEF ListClient, ScanInv, bankVars, Stages
  <1>4. SheetInv'
    BY <1>1, SheetStays DEF ListClient, SheetInv, Unapproved
  <1>5. MergeInv'
    BY <1>1, MergeStays DEF ListClient, sheetVars
  <1> QED
    BY <1>2, <1>3, <1>4, <1>5 DEF TypeInv

LEMMA ListFolderType == TypeInv /\ ListFolder => TypeInv'
  <1> SUFFICES ASSUME TypeInv, ListFolder PROVE TypeInv'
    OBVIOUS
  <1>1. ScanInv /\ SheetInv /\ MergeInv
    BY DEF TypeInv
  <1>2. TreeInv' /\ BookInv'
    BY TrailFrame DEF ListFolder
  <1>3. ScanInv'
    <2>1. FilesAt(Own(Folders[at])) \in SUBSET Nat
      BY FilesFinite
    <2>2. Folders[at] \in Range(Folders) /\ Folders[at] # Client /\ Len(Folders) \in Nat
      <3>1. Len(Folders) \in Nat /\ DOMAIN Folders = 1 .. Len(Folders)
        BY TreeAssumption
      <3>2. at \in DOMAIN Folders
        BY <1>1, <3>1 DEF ListFolder, ScanInv
      <3> QED
        BY <3>1, <3>2, TreeAssumption DEF Range
    <2>3. /\ listed' \in [Units -> (SUBSET Nat) \cup {None}]
          /\ listed'[Client] = listed[Client]
      <3>1. PICK v \in (SUBSET Nat) \cup {None} : listed' = [listed EXCEPT ![Folders[at]] = v]
        BY <2>1 DEF ListFolder
      <3>2. listed \in [Units -> (SUBSET Nat) \cup {None}] /\ Folders[at] \in Units
        BY <1>1, <2>2, Unitary DEF ScanInv
      <3> QED
        BY <2>2, <3>1, <3>2
    <2>4. at' \in 1 .. Len(Folders) + 2
      BY <1>1, <2>2 DEF ListFolder, ScanInv
    <2> QED
      BY <1>1, <2>3, <2>4 DEF ListFolder, ScanInv, bankVars, Stages
  <1>4. SheetInv'
    BY <1>1, SheetStays DEF ListFolder, SheetInv, Unapproved
  <1>5. MergeInv'
    BY <1>1, MergeStays DEF ListFolder, sheetVars
  <1> QED
    BY <1>2, <1>3, <1>4, <1>5 DEF TypeInv

LEMMA UnitsKnownType == TypeInv /\ UnitsKnown => TypeInv'
  <1> SUFFICES ASSUME TypeInv, UnitsKnown PROVE TypeInv'
    OBVIOUS
  <1>1. ScanInv /\ SheetInv /\ MergeInv
    BY DEF TypeInv
  <1>2. TreeInv' /\ BookInv'
    BY TrailFrame DEF UnitsKnown
  <1>3. ScanInv'
    <2>1. Len(Folders) \in Nat
      BY TreeAssumption
    <2> QED
      BY <1>1, <2>1 DEF UnitsKnown, ScanInv, bankVars, Stages
  <1>4. SheetInv'
    BY <1>1, SheetStays DEF UnitsKnown, SheetInv, Unapproved
  <1>5. MergeInv'
    BY <1>1, MergeStays DEF UnitsKnown, sheetVars
  <1> QED
    BY <1>2, <1>3, <1>4, <1>5 DEF TypeInv

LEMMA OpenUnitType == TypeInv /\ OpenUnit => TypeInv'
  <1> SUFFICES ASSUME TypeInv, OpenUnit PROVE TypeInv'
    OBVIOUS
  <1>1. ScanInv /\ SheetInv /\ MergeInv
    BY DEF TypeInv
  <1>2. TreeInv' /\ BookInv'
    BY TrailFrame DEF OpenUnit
  <1>3. ScanInv'
    <2>1. at \in DOMAIN UnitOrder /\ UnitOrder' = UnitOrder
      <3>1. at \in Nat /\ at >= 1
        BY <1>1, TreeAssumption DEF ScanInv
      <3> QED
        BY <1>1, <3>1, UnitOrderIs, UnitOrderStays DEF OpenUnit, ScanInv
    <2>2. pool' \in [at : Places, files : SUBSET Nat]
      BY <1>1, <2>1, PoolOfType DEF OpenUnit, ScanInv
    <2> QED
      BY <1>1, <2>1, <2>2 DEF OpenUnit, ScanInv, bankVars, Stages
  <1>4. SheetInv'
    BY <1>1, SheetStays DEF OpenUnit, SheetInv, Unapproved
  <1>5. MergeInv'
    BY <1>1, MergeStays DEF OpenUnit, sheetVars
  <1> QED
    BY <1>2, <1>3, <1>4, <1>5 DEF TypeInv

\* The next unit, or the end of them.
LEMMA NextUnit ==
    ASSUME ScanInv, at \in DOMAIN UnitOrder
    PROVE  at + 1 \in 1 .. Len(Folders) + 2
  <1>1. Len(Folders) \in Nat
    BY TreeAssumption
  <1> QED
    BY <1>1, UnitOrderIs DEF ScanInv

\* What is selected of a pool is in the tree, and of the files that were not
\* lost the one that falls due last.
LEMMA NewestIs ==
    ASSUME TreeInv, pool \in [at : Places, files : SUBSET Nat], NEW lost,
           Selection(pool, lost) = "selected",
           NEW path, path = Newest(Got(pool, lost))
    PROVE  /\ path \in Paths /\ path.at = pool.at /\ Has(path) /\ Due(path) # None
           /\ \A g \in pool.files \ (lost \cup {path.file}) :
                 Due(PathIn(pool, g)) # None => Due(PathIn(pool, g)) < Due(path)
  <1> DEFINE got == Got(pool, lost)
             f   == CHOOSE g \in MaxDue(got) : TRUE
  <1>1. got.at = pool.at /\ got.files = pool.files \ lost /\ pool.at \in Places
    BY DEF Got
  <1>2. Readable(got) # {} /\ ~(Cardinality(MaxDue(got)) > 1)
    BY DEF Selection
  <1>3. path = PathIn(got, f) /\ \A g : PathIn(got, g) = PathIn(pool, g)
    BY <1>1 DEF Newest, PathIn
  <1> HIDE DEF got
  <1>4. /\ f \in got.files /\ Has(PathIn(got, f)) /\ Due(PathIn(got, f)) # None
        /\ \A g \in got.files \ {f} :
              Due(PathIn(got, g)) # None => Due(PathIn(got, g)) < Due(PathIn(got, f))
    BY <1>1, <1>2, SelectedIs
  <1> HIDE DEF f
  <1>5. path.at = pool.at /\ path.file = f /\ path \in Paths
    BY <1>1, <1>3, <1>4 DEF PathIn, Paths
  <1> QED
    BY <1>1, <1>3, <1>4, <1>5

LEMMA ReadUnitType == TypeInv /\ ReadUnit => TypeInv'
  <1> SUFFICES ASSUME TypeInv, ReadUnit PROVE TypeInv'
    OBVIOUS
  <1>1. ScanInv /\ SheetInv /\ MergeInv /\ TreeInv /\ stage = "read"
    BY DEF TypeInv, ReadUnit
  <1>2. TreeInv' /\ BookInv'
    BY TrailFrame DEF ReadUnit
  <1>3. ScanInv'
    <2>1. at + 1 \in 1 .. Len(Folders) + 2
      BY <1>1, NextUnit DEF ScanInv
    <2> QED
      BY <1>1, <2>1 DEF ReadUnit, ScanInv, bankVars, Stages
  <1> DEFINE u == UnitOrder[at]
  <1>4. u \in Units /\ pool.at \in Places
    BY <1>1, PoolOfType DEF ScanInv
  <1>5. valid = {} /\ valid' = valid /\ cleared' = cleared
    BY <1>1 DEF ReadUnit, SheetInv, Unapproved
  <1>8. PICK lost :
           IF Selection(pool, lost) = "selected"
           THEN /\ lines' = Append(lines, Candidate(u, Newest(Got(pool, lost))))
                /\ UNCHANGED issues
           ELSE /\ issues' = issues \cup {<<u, Selection(pool, lost)>>}
                /\ UNCHANGED lines
    BY DEF ReadUnit
  <1>6. CASE Selection(pool, lost) = "selected"
    <2> DEFINE path == Newest(Got(pool, lost))
    <2>1. path \in Paths /\ Has(path)
      BY <1>1, <1>4, <1>6, NewestIs DEF ScanInv
    <2>2. Candidate(u, path) \in Line
      BY <1>1, <1>4, <2>1, CandidateType
    <2>3. lines' = Append(lines, Candidate(u, path)) /\ issues' = issues
      BY <1>6, <1>8
    <2> HIDE DEF u, path
    <2>4. lines' \in Seq(Line)
      BY <1>1, <2>2, <2>3 DEF SheetInv
    <2> QED
      BY <1>1, <1>2, <1>3, <1>5, <2>3, <2>4, MergeStays
      DEF TypeInv, SheetInv, ReadUnit, Unapproved, Routed
  <1>7. CASE Selection(pool, lost) # "selected"
    <2>1. Selection(pool, lost) \in Codes
      BY <1>7 DEF Selection, Codes
    <2>2. lines' = lines /\ issues' = issues \cup {<<u, Selection(pool, lost)>>}
      BY <1>7, <1>8
    <2> QED
      BY <1>1, <1>2, <1>3, <1>4, <1>5, <2>1, <2>2, MergeStays
      DEF TypeInv, SheetInv, ReadUnit, Unapproved, Routed
  <1> QED
    BY <1>6, <1>7

LEMMA LegacyUnitType == TypeInv /\ LegacyUnit => TypeInv'
  <1> SUFFICES ASSUME TypeInv, LegacyUnit PROVE TypeInv'
    OBVIOUS
  <1>1. ScanInv /\ SheetInv /\ MergeInv /\ TreeInv /\ stage = "unit"
    BY DEF TypeInv, LegacyUnit
  <1>2. TreeInv' /\ BookInv'
    BY TrailFrame DEF LegacyUnit
  <1>3. valid = {} /\ valid' = valid /\ cleared' = cleared
    BY <1>1 DEF LegacyUnit, SheetInv, Unapproved
  <1>4. MergeInv'
    BY <1>1, <1>3, MergeStays DEF LegacyUnit
  <1> DEFINE u    == UnitOrder[at]
             path == [at |-> Own(u), file |-> StatementItem(u, listed[u])]
  <1>5. at \in DOMAIN UnitOrder
    <2>1. at \in Nat /\ at >= 1
      BY <1>1, TreeAssumption DEF ScanInv
    <2> QED
      BY <1>1, <2>1, UnitOrderIs DEF LegacyUnit, ScanInv
  <1>6. u \in Units
    BY <1>1, <1>5, PoolOfType DEF ScanInv
  <1>7. at + 1 \in 1 .. Len(Folders) + 2 /\ 1 \in 1 .. Len(Folders) + 2
    <2>1. Len(Folders) \in Nat
      BY TreeAssumption
    <2> QED
      BY <1>1, <1>5, <2>1, NextUnit
  <1>8. \/ /\ \E code \in Codes : issues' = issues \cup {<<u, code>>}
           /\ at' = at + 1 /\ stage' = stage /\ lines' = lines
        \/ stage' = "nothing" /\ lines' = <<>> /\ issues' = {} /\ at' = 1
        \/ /\ Has(path) /\ lines' = Append(lines, LegacyCandidate(u, path))
           /\ at' = at + 1 /\ stage' = stage /\ issues' = issues
    <2>1. LegacyIssue(u) # None => LegacyIssue(u) \in Codes
      BY DEF LegacyIssue, Codes
    <2>2. {"extract_not_found", "extract_amount_not_found"} \subseteq Codes
      BY DEF Codes
    <2> QED
      BY <2>1, <2>2 DEF LegacyUnit
  <1>9. ScanInv'
    BY <1>1, <1>7, <1>8 DEF LegacyUnit, ScanInv, bankVars, Stages
  <1>10. SheetInv'
    <2>1. CASE \E code \in Codes : issues' = issues \cup {<<u, code>>} /\ lines' = lines
      BY <1>1, <1>3, <1>6, <1>8, <2>1 DEF SheetInv, Unapproved, Routed
    <2>2. CASE stage' = "nothing" /\ lines' = <<>> /\ issues' = {}
      BY <1>1, <1>3, <2>2 DEF SheetInv, Unapproved, Routed
    <2>3. CASE Has(path) /\ lines' = Append(lines, LegacyCandidate(u, path))
               /\ stage' = stage /\ issues' = issues
      <3>1. path.at \in Places /\ path.at = Own(u)
        BY <1>6, UnitPlaces
      <3>2. path.file \in Nat
        <4> HIDE DEF path
        <4> QED
          BY <1>1, <2>3, <3>1, DocIs
      <3>3. path \in Paths
        BY <3>1, <3>2 DEF Paths
      <3> HIDE DEF path, u
      <3>4. LegacyCandidate(u, path) \in Line
        BY <1>1, <1>6, <2>3, <3>3, CandidateType
      <3>5. lines' \in Seq(Line)
        BY <1>1, <2>3, <3>4 DEF SheetInv
      <3> QED
        BY <1>1, <1>3, <2>3, <3>5 DEF SheetInv, Unapproved, Routed
    <2> QED
      BY <1>8, <2>1, <2>2, <2>3
  <1> QED
    BY <1>2, <1>4, <1>9, <1>10 DEF TypeInv

LEMMA DedupeType ==
    ASSUME lines \in Seq(Line)
    PROVE  Dedupe(lines) \in Seq(Line)
  <1> DEFINE I == {i \in DOMAIN lines : \A j \in 1 .. i - 1 : lines[j].ruta # lines[i].ruta}
  <1>1. I \in SUBSET DOMAIN lines /\ Dedupe(lines) = Picked(lines, I)
    BY DEF Dedupe
  <1> HIDE DEF I
  <1> QED
    BY <1>1, PickedIs

LEMMA GenerateEndsType == TypeInv /\ GenerateEnds => TypeInv'
  <1> SUFFICES ASSUME TypeInv, GenerateEnds PROVE TypeInv'
    OBVIOUS
  <1>1. ScanInv /\ SheetInv /\ MergeInv /\ stage = "unit"
    BY DEF TypeInv, GenerateEnds
  <1>2. TreeInv' /\ BookInv'
    BY TrailFrame DEF GenerateEnds
  <1>3. ScanInv'
    <2>1. Len(Folders) \in Nat
      BY TreeAssumption
    <2> QED
      BY <1>1, <2>1 DEF GenerateEnds, ScanInv, bankVars, Stages
  <1>4. valid = {} /\ valid' = valid /\ cleared' = cleared
    BY <1>1 DEF GenerateEnds, SheetInv, Unapproved
  <1>5. lines' \in Seq(Line)
    BY <1>1, DedupeType DEF GenerateEnds, SheetInv
  <1>6. SheetInv'
    BY <1>1, <1>4, <1>5 DEF GenerateEnds, SheetInv, Unapproved, Routed
  <1>7. MergeInv'
    BY <1>1, <1>4, MergeStays DEF GenerateEnds
  <1> QED
    BY <1>2, <1>3, <1>6, <1>7 DEF TypeInv

-----------------------------------------------------------------------------
(***************************************************************************)
(* The secretary and finalize.                                             *)
(***************************************************************************)
\* A validated line's types, with its path where it has one.
LEMMA LineTypes ==
    ASSUME SheetInv, NEW i \in valid
    PROVE  /\ i \in DOMAIN lines /\ i \in Nat /\ lines[i] \in Line
           /\ lines[i].unit \in Units /\ lines[i].credit \in Label /\ lines[i].link \in Paths
           /\ lines[i].ruta # None => lines[i].ruta \in Paths /\ lines[i].ruta.at \in Places
  <1>1. lines \in Seq(Line) /\ i \in DOMAIN lines
    BY DEF SheetInv
  <1>2. i \in Nat /\ lines[i] \in Line
    BY <1>1
  <1> QED
    BY <1>1, <1>2 DEF Line, Paths

LEMMA ApproveType == TypeInv /\ Approve => TypeInv'
  <1> SUFFICES ASSUME TypeInv, Approve PROVE TypeInv'
    OBVIOUS
  <1>1. ScanInv /\ SheetInv /\ MergeInv /\ lines \in Seq(Line)
    BY DEF TypeInv, SheetInv
  <1>2. TreeInv' /\ BookInv'
    BY TrailFrame DEF Approve
  <1>3. ScanInv'
    BY <1>1 DEF Approve, ScanInv, bankVars, scanVars, Stages
  <1>4. PICK v \in SUBSET DOMAIN lines, c \in SUBSET DOMAIN lines :
          /\ c \subseteq v /\ valid' = v /\ cleared' = c
          /\ lines' = [i \in DOMAIN lines |->
                         IF i \in c THEN [lines[i] EXCEPT !.ruta = None] ELSE lines[i]]
    BY DEF Approve
  <1>5. \A i \in DOMAIN lines : lines[i] \in Line /\ [lines[i] EXCEPT !.ruta = None] \in Line
    <2>1. \A l \in Line : [l EXCEPT !.ruta = None] \in Line
      BY DEF Line
    <2> QED
      BY <1>1, <2>1
  <1>6. lines' \in Seq(Line) /\ DOMAIN lines' = DOMAIN lines
    BY <1>1, <1>4, <1>5
  <1>7. SheetInv'
    BY <1>1, <1>4, <1>6 DEF Approve, SheetInv, Unapproved, Routed
  <1>8. MergeInv'
    BY <1>1, MergeStays DEF Approve, SheetInv, Unapproved
  <1> QED
    BY <1>2, <1>3, <1>7, <1>8 DEF TypeInv

\* A route of finalize is a path.
LEMMA RouteType ==
    ASSUME TreeInv, SheetInv, NEW i \in valid, NEW missed \in BOOLEAN,
           ExtractRoute(lines[i], missed) # None
    PROVE  ExtractRoute(lines[i], missed) \in Paths
  <1>1. CASE lines[i].ruta # None
    BY <1>1, LineTypes DEF ExtractRoute
  <1>2. CASE lines[i].ruta = None
    <2>1. ExtractRoute(lines[i], missed) =
            RouteByFolder(lines[i].credit, BankDay, lines[i].link.file, missed)
      BY <1>2 DEF ExtractRoute
    <2> QED
      BY <2>1, RouteIs, TrailAssumption
  <1> QED
    BY <1>1, <1>2

LEMMA FinalizeType == TypeInv /\ Finalize => TypeInv'
  <1> SUFFICES ASSUME TypeInv, Finalize PROVE TypeInv'
    OBVIOUS
  <1>1. TreeInv /\ ScanInv /\ SheetInv /\ MergeInv /\ lines \in Seq(Line)
    BY DEF TypeInv, SheetInv
  <1>2. TreeInv' /\ BookInv'
    BY TrailFrame DEF Finalize
  <1>3. ScanInv'
    BY <1>1 DEF Finalize, ScanInv, bankVars, scanVars, Stages
  <1>0. PICK missed \in SUBSET cleared :
           /\ \A i \in valid : ExtractRoute(lines[i], i \in missed) # None
           /\ lines' = [i \in DOMAIN lines |->
                          IF i \in valid
                          THEN [lines[i] EXCEPT !.ruta = ExtractRoute(lines[i], i \in missed)]
                          ELSE lines[i]]
    BY DEF Finalize
  <1> DEFINE Route(i) == ExtractRoute(lines[i], i \in missed)
  <1>4. ASSUME NEW i \in valid PROVE Route(i) \in Paths /\ Route(i) # None
    <2> DEFINE miss == i \in missed
    <2>1. ExtractRoute(lines[i], miss) # None /\ miss \in BOOLEAN
      BY <1>0, <1>4
    <2> HIDE DEF miss
    <2>2. ExtractRoute(lines[i], miss) \in Paths
      BY <1>1, <1>4, <2>1, RouteType
    <2> QED
      BY <2>1, <2>2 DEF miss
  <1>5. \A i \in DOMAIN lines : lines[i] \in Line
    BY <1>1
  <1>6. \A l \in Line, r \in Paths : /\ [l EXCEPT !.ruta = r] \in Line
                                    /\ [l EXCEPT !.ruta = r].ruta = r
    BY DEF Line
  <1>7. lines' = [i \in DOMAIN lines |->
                    IF i \in valid THEN [lines[i] EXCEPT !.ruta = Route(i)]
                    ELSE lines[i]]
    BY <1>0
  <1> HIDE DEF Route
  <1>8. lines' \in Seq(Line) /\ DOMAIN lines' = DOMAIN lines
    BY <1>1, <1>4, <1>5, <1>6, <1>7
  <1>9. \A i \in valid : lines'[i].ruta # None
    BY <1>1, <1>4, <1>5, <1>6, <1>7 DEF SheetInv
  <1>10. SheetInv'
    BY <1>1, <1>8, <1>9 DEF Finalize, SheetInv, Unapproved, Routed
  <1>11. MergeInv'
    BY <1>1, MergeStays DEF Finalize
  <1> QED
    BY <1>2, <1>3, <1>10, <1>11 DEF TypeInv

LEMMA MissingRouteType == TypeInv /\ MissingExtractRoute => TypeInv'
  <1> SUFFICES ASSUME TypeInv, MissingExtractRoute PROVE TypeInv'
    OBVIOUS
  <1>1. ScanInv /\ SheetInv /\ MergeInv
    BY DEF TypeInv
  <1>2. TreeInv' /\ BookInv'
    BY TrailFrame DEF MissingExtractRoute
  <1>3. ScanInv'
    BY <1>1 DEF MissingExtractRoute, ScanInv, bankVars, scanVars, Stages
  <1>4. SheetInv'
    BY <1>1, SheetStays DEF MissingExtractRoute, SheetInv, Unapproved, Routed
  <1>5. MergeInv'
    BY <1>1, MergeStays DEF MissingExtractRoute, sheetVars
  <1> QED
    BY <1>2, <1>3, <1>4, <1>5 DEF TypeInv

-----------------------------------------------------------------------------
(***************************************************************************)
(* The notification, accounting, the merge and the dry run.                *)
(***************************************************************************)
\* A route that counts is the line's path, and leads to an extract.
LEMMA RoutesAre ==
    ASSUME TreeInv, SheetInv, NEW i \in valid, NEW p \in Routes(i)
    PROVE  /\ p = lines[i].ruta /\ lines[i].ruta # None /\ p \in Paths /\ p.at \in Places
           /\ Has(p) /\ DocAt(p) \in Extracts
  <1>1. p = lines[i].ruta /\ lines[i].ruta # None /\ Has(p)
    BY DEF Routes, RutaPaths
  <1>2. p \in Paths /\ p.at \in Places
    BY <1>1, LineTypes
  <1> QED
    BY <1>1, <1>2, DocIs

LEMMA NotifyType == TypeInv /\ Notify => TypeInv'
  <1> SUFFICES ASSUME TypeInv, Notify PROVE TypeInv'
    OBVIOUS
  <1>1. TreeInv /\ ScanInv /\ SheetInv /\ MergeInv
    BY DEF TypeInv
  <1>2. TreeInv' /\ BookInv'
    BY TrailFrame DEF Notify
  <1>3. ScanInv'
    BY <1>1, ScanStays DEF Notify, bankVars, scanVars
  <1>4. SheetInv'
    BY <1>1, SheetStays DEF Notify
  <1>5. sent' \in SUBSET Extracts
    BY <1>1, RoutesAre DEF Notify, Attached
  <1>6. MergeInv'
    BY <1>1, <1>5 DEF Notify, MergeInv, mergeVars, sheetVars
  <1> QED
    BY <1>2, <1>3, <1>4, <1>6 DEF TypeInv

\* The folder of asientos of a line bears a label.
LEMMA FolderType ==
    ASSUME TreeInv, SheetInv, NEW i \in valid
    PROVE  FolderOf(lines[i]) \in AsientoFolder
  <1>1. /\ lines[i].unit \in Units /\ lines[i].credit \in Label
        /\ name[lines[i].unit] \in Label
    BY LineTypes, TreeAssumption DEF TreeInv
  <1>2. FolderLabel(lines[i]) \in Label
    BY <1>1, LabelTypes, NumberType DEF FolderLabel, FirstOf, NatOrNone
  <1> QED
    BY <1>1, <1>2 DEF FolderOf, AsientoFolder

LEMMA FileType == TypeInv /\ File => TypeInv'
  <1> SUFFICES ASSUME TypeInv, File PROVE TypeInv'
    OBVIOUS
  <1>1. TreeInv /\ ScanInv /\ SheetInv /\ MergeInv
    BY DEF TypeInv
  <1>2. TreeInv' /\ BookInv'
    BY TrailFrame DEF File
  <1>3. ScanInv'
    BY <1>1, ScanStays DEF File, bankVars, scanVars
  <1>4. SheetInv'
    BY <1>1, SheetStays DEF File
  <1>5. PICK i \in valid, n \in Numbered :
          filed' = filed \cup {[folder |-> FolderOf(lines[i]), number |-> n]}
    BY DEF File
  <1>6. [folder |-> FolderOf(lines[i]), number |-> n] \in Asiento
    BY <1>1, FolderType, TrailAssumption DEF Asiento
  <1>7. MergeInv'
    BY <1>1, <1>5, <1>6 DEF File, MergeInv, mergeVars, sheetVars
  <1> QED
    BY <1>2, <1>3, <1>4, <1>7 DEF TypeInv

\* A line that is whole has the number the merge gives it.
LEMMA WholeIs ==
    ASSUME TreeInv, SheetInv, MergeInv, NEW i \in valid, NEW call, Whole(i, call)
    PROVE  /\ Routes(i) = {lines[i].ruta}
           /\ [number |-> RowNumber(lines[i].credit, lines[i].ruta),
               asientos |-> Accepted(i)] \in Taken
           /\ Accepted(i) \subseteq InFolder(i)
  <1>1. Routes(i) # {} /\ RowNumber(lines[i].credit, lines[i].ruta) # None
    BY DEF Whole, SkipReasons
  <1>2. PICK p \in Routes(i) : TRUE
    BY <1>1
  <1>3. p = lines[i].ruta /\ lines[i].ruta.at \in Places
    BY <1>2, RoutesAre
  <1>4. Routes(i) = {lines[i].ruta}
    BY <1>1, RoutesAre
  <1>5. /\ name[Client] \in Label /\ name[lines[i].ruta.at.unit] \in Label
        /\ lines[i].credit \in Label
    <2>1. lines[i].ruta.at.unit \in Units
      BY <1>3 DEF Places
    <2> QED
      BY <2>1, Unitary, LineTypes, TreeAssumption DEF TreeInv
  <1>6. RowNumber(lines[i].credit, lines[i].ruta) \in Nat
    BY <1>1, <1>5, LabelTypes DEF RowNumber, FirstOf, NatOrNone
  <1>7. Accepted(i) \subseteq InFolder(i) /\ InFolder(i) \subseteq Asiento
    BY DEF Accepted, InFolder, MergeInv
  <1> QED
    BY <1>4, <1>6, <1>7 DEF Taken

LEMMA PrevalidateType == TypeInv /\ PrevalidatePayment => TypeInv'
  <1> SUFFICES ASSUME TypeInv, PrevalidatePayment PROVE TypeInv'
    OBVIOUS
  <1>1. TreeInv /\ ScanInv /\ SheetInv /\ MergeInv
    BY DEF TypeInv
  <1>2. TreeInv' /\ BookInv'
    BY TrailFrame DEF PrevalidatePayment
  <1>3. ScanInv'
    BY <1>1 DEF PrevalidatePayment, ScanInv, bankVars, scanVars, Stages
  <1>4. SheetInv'
    BY <1>1, SheetStays DEF PrevalidatePayment, Routed
  <1>5. PICK call :
           /\ taken' = [i \in {j \in valid : Whole(j, call[j])} |->
                          [number |-> RowNumber(lines[i].credit, lines[i].ruta),
                           asientos |-> Accepted(i)]]
           /\ skips' = UNION {{i} \X SkipReasons(i, call[i]) : i \in valid}
    BY DEF PrevalidatePayment
  <1>6. DOMAIN taken' \subseteq valid /\ \A i \in DOMAIN taken' : taken'[i] \in Taken
    BY <1>1, <1>5, WholeIs
  <1>7. skips' \subseteq valid \X Reasons
    BY <1>5, ReasonsTyped
  <1>8. MergeInv'
    BY <1>1, <1>6, <1>7 DEF PrevalidatePayment, MergeInv, sheetVars
  <1> QED
    BY <1>2, <1>3, <1>4, <1>8 DEF TypeInv

LEMMA BuildType == TypeInv /\ BuildParts => TypeInv'
  <1> SUFFICES ASSUME TypeInv, BuildParts PROVE TypeInv'
    OBVIOUS
  <1>1. TreeInv /\ ScanInv /\ SheetInv /\ MergeInv /\ stage = "build"
    BY DEF TypeInv, BuildParts
  <1>2. TreeInv' /\ BookInv'
    BY TrailFrame DEF BuildParts
  <1>3. ScanInv'
    BY <1>1 DEF BuildParts, ScanInv, bankVars, scanVars, Stages
  <1>4. SheetInv'
    BY <1>1, SheetStays DEF BuildParts, Routed
  <1>5. UNCHANGED <<filed, sent, taken, plan, valid, cleared, lines, issues>>
    BY DEF BuildParts, sheetVars
  <1>6. /\ told' \in [{"merge", "dryrun"} -> Severities \cup {None}]
        /\ reused' \in BOOLEAN
    <2>1. PICK output : Tell(output)
      BY DEF BuildParts, SkipPayment, ReusePdf, WritePdf
    <2>2. told' \in [{"merge", "dryrun"} -> Severities \cup {None}]
      BY <1>1, <2>1, SuccessSkipsNothing DEF MergeInv
    <2> QED
      BY <2>2 DEF BuildParts, SkipPayment, ReusePdf, WritePdf
  <1>7. DOMAIN bundle' \subseteq valid /\ \A i \in DOMAIN bundle' : bundle'[i] \in Bundled
    <2>1. bundle' = bundle \/ (Fetched /\ bundle' = Merged)
      BY DEF BuildParts, SkipPayment, ReusePdf, WritePdf
    <2>2. CASE bundle' = bundle
      BY <1>1, <2>2 DEF MergeInv
    <2>3. CASE Fetched /\ bundle' = Merged
      <3> SUFFICES ASSUME NEW i \in DOMAIN taken PROVE i \in valid /\ Merged[i] \in Bundled
        BY <2>3 DEF Merged
      <3>1. i \in valid /\ taken[i] \in Taken
        BY <1>1 DEF MergeInv
      <3>2. lines[i].ruta.at \in Places /\ Has(lines[i].ruta)
        BY <1>1, <2>3, <3>1, LineTypes DEF SheetInv, Routed, Fetched
      <3>3. DocAt(lines[i].ruta) \in Extracts
        BY <1>1, <3>2, DocIs
      <3> QED
        BY <3>1, <3>3 DEF Taken, Bundled, Merged
    <2> QED
      BY <2>1, <2>2, <2>3
  <1>8. skips' \subseteq valid \X Reasons
    <2>1. /\ DOMAIN taken \subseteq valid /\ skips \subseteq valid \X Reasons
          /\ \A x \in BuildReasons : x \in Reasons
      BY <1>1 DEF MergeInv, Reasons
    <2>2. \/ skips' = skips
          \/ \E i \in DOMAIN taken, x \in BuildReasons : skips' = skips \cup {<<i, x>>}
      BY DEF BuildParts, SkipPayment, ReusePdf, WritePdf
    <2> QED
      BY <2>1, <2>2
  <1>10. MergeInv'
    BY <1>1, <1>5, <1>6, <1>7, <1>8 DEF MergeInv
  <1> QED
    BY <1>2, <1>3, <1>4, <1>10 DEF TypeInv

LEMMA AgainType == TypeInv /\ MergeAgain => TypeInv'
  <1> SUFFICES ASSUME TypeInv, MergeAgain PROVE TypeInv'
    OBVIOUS
  <1>1. TreeInv /\ ScanInv /\ SheetInv /\ MergeInv /\ stage = "merged"
    BY DEF TypeInv, MergeAgain
  <1>2. TreeInv' /\ BookInv'
    BY TrailFrame DEF MergeAgain
  <1>3. ScanInv'
    BY <1>1 DEF MergeAgain, ScanInv, bankVars, scanVars, Stages
  <1>4. SheetInv'
    BY <1>1, SheetStays DEF MergeAgain, Routed
  <1>5. told' \in [{"merge", "dryrun"} -> Severities \cup {None}]
    BY <1>1 DEF MergeAgain, MergeInv
  <1>6. MergeInv'
    BY <1>1, <1>5 DEF MergeAgain, MergeInv, Empty, sheetVars
  <1> QED
    BY <1>2, <1>3, <1>4, <1>6 DEF TypeInv

\* Of the lines with a key the index of the workbook keeps the last.
LEMMA HistRowIs ==
    ASSUME lines \in Seq(Line), NEW n
    PROVE  HistRow(n) # None =>
              /\ HistRow(n) \in DOMAIN lines
              /\ lines[HistRow(n)].key = Number(n)
  <1> DEFINE same == {i \in DOMAIN lines : lines[i].key = Number(n)}
             R == {r \in same \X same : r[1] > r[2]}
  <1>1. same \in SUBSET (1 .. Len(lines)) /\ Len(lines) \in Nat
    <2>1. DOMAIN lines = 1 .. Len(lines) /\ Len(lines) \in Nat
      OBVIOUS
    <2> QED
      BY <2>1
  <1>2. IsFiniteSet(same) /\ same \subseteq Nat
    <2> HIDE DEF same
    <2>1. IsFiniteSet(1 .. Len(lines))
      BY <1>1, FS_Interval
    <2>2. IsFiniteSet(same)
      BY <1>1, <2>1, FS_Subset
    <2> QED
      BY <1>1, <2>2
  <1>3. HistRow(n) = IF same = {} THEN None ELSE CHOOSE i \in same : \A j \in same : j <= i
    BY DEF HistRow
  <1>4. ASSUME same # {} PROVE \E i \in same : \A j \in same : j <= i
    <2>1. \A a, b, c \in same : <<a, b>> \in R /\ <<b, c>> \in R => <<a, c>> \in R
      BY <1>2
    <2>2. \A a \in same : <<a, a>> \notin R
      BY <1>2
    <2>3. \A a, b \in same : <<b, a>> \notin R => b <= a
      BY <1>2
    <2> HIDE DEF same, R
    <2>4. PICK i \in same : \A j \in same : <<j, i>> \notin R
      BY <1>2, <1>4, <2>1, <2>2, FiniteLeast
    <2> QED
      BY <2>3, <2>4
  <1>5. HistRow(n) # None => HistRow(n) \in same
    BY <1>3, <1>4
  <1> QED
    BY <1>5

LEMMA TableForType ==
    ASSUME SheetInv, NEW n
    PROVE  TableFor(n) \in Units \cup {None}
  <1>1. lines \in Seq(Line)
    BY DEF SheetInv
  <1>2. HistRow(n) # None => lines[HistRow(n)] \in Line
    BY <1>1, HistRowIs
  <1> QED
    BY <1>2 DEF TableFor, Line

LEMMA PlanType == TypeInv /\ PlanEvents => TypeInv'
  <1> SUFFICES ASSUME TypeInv, PlanEvents PROVE TypeInv'
    OBVIOUS
  <1>1. TreeInv /\ ScanInv /\ SheetInv /\ MergeInv /\ stage = "merged"
    BY DEF TypeInv, PlanEvents
  <1>2. TreeInv' /\ BookInv'
    BY TrailFrame DEF PlanEvents
  <1>3. ScanInv'
    BY <1>1 DEF PlanEvents, ScanInv, bankVars, scanVars, Stages
  <1>4. SheetInv'
    BY <1>1, SheetStays DEF PlanEvents, Routed
  <1>5. plan' = UNION {{[line |-> i, asiento |-> a, table |-> TableFor(taken[i].number)] :
                           a \in taken[i].asientos} : i \in DOMAIN taken}
    BY DEF PlanEvents
  <1>6. ASSUME NEW i \in DOMAIN taken, NEW a \in taken[i].asientos
        PROVE  [line |-> i, asiento |-> a, table |-> TableFor(taken[i].number)] \in Event
    <2>1. i \in valid /\ taken[i] \in Taken
      BY <1>1 DEF MergeInv
    <2>2. i \in Nat /\ a \in Asiento
      BY <1>1, <2>1, LineTypes DEF Taken
    <2> QED
      BY <1>1, <2>2, TableForType DEF Event
  <1>7. plan' \subseteq Event
    BY <1>5, <1>6
  <1>8. told' \in [{"merge", "dryrun"} -> Severities \cup {None}]
    BY <1>1 DEF PlanEvents, MergeInv, DryRunSeverity, Severities
  <1>9. MergeInv'
    BY <1>1, <1>7, <1>8 DEF PlanEvents, MergeInv, mergeVars, sheetVars
  <1> QED
    BY <1>2, <1>3, <1>4, <1>9 DEF TypeInv

-----------------------------------------------------------------------------
(***************************************************************************)
(* All steps.                                                              *)
(***************************************************************************)
LEMMA TrailStays == TypeInv /\ UNCHANGED <<rule, trailVars>> => ScanInv' /\ SheetInv' /\ MergeInv'
  BY ScanStays, SheetStays, MergeStays DEF TypeInv, trailVars, scanVars, sheetVars

LEMMA TypeInit == Init => TypeInv
  <1> SUFFICES ASSUME Init PROVE TypeInv
    OBVIOUS
  <1>1. TreeInv /\ BookInv
    BY TreeInit, BookInit DEF Init
  <1>2. ScanInv
    <2>1. Len(Folders) \in Nat
      BY TreeAssumption
    <2> QED
      BY <2>1 DEF Init, ScanInv, Stages
  <1>3. SheetInv
    BY DEF Init, SheetInv, Unapproved, Routed
  <1>4. MergeInv
    BY DEF Init, MergeInv, Empty
  <1> QED
    BY <1>1, <1>2, <1>3, <1>4 DEF TypeInv

LEMMA TypeStep == TypeInv /\ [Next]_vars => TypeInv'
  <1> SUFFICES ASSUME TypeInv, [Next]_vars PROVE TypeInv'
    OBVIOUS
  <1>1. CASE TrailNext
    BY <1>1, ListClientType, ListFolderType, UnitsKnownType, OpenUnitType, ReadUnitType,
       LegacyUnitType, GenerateEndsType, ApproveType, FinalizeType, MissingRouteType,
       NotifyType, FileType, PrevalidateType, BuildType, AgainType, PlanType
    DEF TrailNext
  <1>2. CASE Touch
    <2>1. TreeInv' /\ BookInv'
      BY <1>2, TreeMove, BookStays DEF Touch, TypeInv, bankVars
    <2> QED
      BY <1>2, <2>1, TrailStays DEF Touch, TypeInv, bankVars
  <1>3. CASE Report
    <2>1. TreeInv' /\ BookInv'
      BY <1>3, TreeStays, BookStep DEF Report, TypeInv
    <2> QED
      BY <1>3, <2>1, TrailStays DEF Report, TypeInv
  <1>4. CASE UNCHANGED vars
    <2>1. TreeInv' /\ BookInv'
      BY <1>4, TreeStays, BookStays DEF vars, bankVars, TypeInv
    <2> QED
      BY <1>4, <2>1, TrailStays DEF vars, bankVars, TypeInv
  <1> QED
    BY <1>1, <1>2, <1>3, <1>4 DEF Next

\* What the calls that failed have made a job miss.
LEMMA LostStep == TypeInv /\ LostInv /\ [Next]_vars => LostInv'
  <1> SUFFICES ASSUME TypeInv, LostInv, [Next]_vars PROVE LostInv'
    OBVIOUS
  <1>1. CASE ReadUnit
    <2>1. unread' \subseteq Extracts
      BY <1>1 DEF ReadUnit, LostInv, DocsAt
    <2> QED
      BY <1>1, <2>1 DEF ReadUnit, LostInv, Routed
  <1>2. CASE Finalize
    BY <1>2 DEF Finalize, LostInv, Routed
  <1>3. CASE Notify
    <2>1. Attached \subseteq Extracts
      BY RoutesAre DEF Attached, TypeInv
    <2> QED
      BY <1>3, <2>1 DEF Notify, LostInv, Routed, sheetVars
  <1>4. CASE Approve
    BY <1>4 DEF Approve, LostInv, Routed, lostVars
  <1>5. CASE \/ ListClient \/ ListFolder \/ UnitsKnown \/ OpenUnit \/ LegacyUnit \/ GenerateEnds
             \/ MissingExtractRoute
    <2>1. UNCHANGED <<cleared, lostVars>> /\ stage \notin Routed /\ stage' \notin Routed
      BY <1>5 DEF ListClient, ListFolder, UnitsKnown, OpenUnit, LegacyUnit, GenerateEnds,
                  MissingExtractRoute, sheetVars, Routed
    <2> QED
      BY <2>1 DEF LostInv, lostVars
  <1>6. CASE \/ File \/ PrevalidatePayment \/ BuildParts \/ MergeAgain \/ PlanEvents
    <2>1. UNCHANGED <<cleared, lostVars>> /\ stage \in Routed
      BY <1>6 DEF File, PrevalidatePayment, BuildParts, MergeAgain, PlanEvents, sheetVars, Routed
    <2>2. stage' \in Routed
      BY <1>6 DEF File, PrevalidatePayment, BuildParts, MergeAgain, PlanEvents, Routed
    <2> QED
      BY <2>1, <2>2 DEF LostInv, lostVars
  <1>7. CASE Touch \/ Report \/ UNCHANGED vars
    <2>1. UNCHANGED <<stage, cleared, lostVars>>
      BY <1>7 DEF Touch, Report, vars, trailVars, sheetVars
    <2> QED
      BY <2>1 DEF LostInv, lostVars
  <1> QED
    BY <1>1, <1>2, <1>3, <1>4, <1>5, <1>6, <1>7 DEF Next, TrailNext

LEMMA TypeAlways == Spec => [](TypeInv /\ LostInv)
  <1>1. Init => LostInv
    BY DEF Init, LostInv
  <1> QED
    BY <1>1, TypeInit, TypeStep, LostStep, PTL DEF Spec

\* Every route published is a path, every extract sent or bundled is one of
\* the client's, and every asiento, number and table in the result of the
\* merge and the dry run is of the kind the next job expects, for every tree
\* and whatever accounting does.
THEOREM TrailTypeCorrect == Spec => []TypeOK
  BY TypeAlways, TypeInvTypes, PTL

-----------------------------------------------------------------------------
(***************************************************************************)
(* The mail of the report.                                                 *)
(***************************************************************************)
\* Where the trail is walked nothing of the report happens.
PostInv == MailInv /\ (stage # "report" => mailed = None)

LEMMA PostInit == Init => PostInv
  BY MailInit, TrailAssumption DEF Init, InitBook, PostInv

LEMMA PostStep == TypeInv /\ PostInv /\ [Next]_vars => PostInv'
  <1> SUFFICES ASSUME TypeInv, PostInv, [Next]_vars PROVE PostInv'
    OBVIOUS
  <1>1. CASE TrailNext
    <2>1. UNCHANGED <<treeVars, bankVars>> /\ stage # "report" /\ stage' # "report"
      BY <1>1 DEF TrailNext, ListClient, ListFolder, UnitsKnown, OpenUnit, ReadUnit, LegacyUnit,
                  GenerateEnds, Approve, Finalize, MissingExtractRoute, Notify, File,
                  PrevalidatePayment, BuildParts, MergeAgain, PlanEvents
    <2> QED
      BY <2>1, MailStays DEF PostInv, bankVars, bookVars
  <1>2. CASE Touch
    <2>1. mailed = None
      BY <1>2 DEF Touch, Reading, PostInv
    <2> QED
      BY <1>2, <2>1, MailMove DEF Touch, PostInv, TypeInv, bankVars, bookVars, trailVars
  <1>3. CASE Report
    BY <1>3, MailBookStep DEF Report, PostInv, TypeInv, trailVars
  <1>4. CASE UNCHANGED vars
    BY <1>4, MailStays DEF vars, PostInv, bankVars, bookVars, trailVars
  <1> QED
    BY <1>1, <1>2, <1>3, <1>4 DEF Next

\* Every extract the mail of the report attaches was counted for a row that
\* came on or after its date and covers all the extracts named next to it, for
\* every report and every tree, however the validation, the endpoint that
\* clears the columns and the mail alternate.  (send_validated_report_notification_email)
THEOREM MailedAreValidated == Spec => []MailedIsValidated
  <1>1. PostInv => MailedIsValidated
    BY DEF PostInv, MailInv
  <1> QED
    BY TypeAlways, PostInit, PostStep, <1>1, PTL DEF Spec

LEMMA BestStep == TypeInv /\ BestInv /\ [Next]_vars => BestInv'
  <1> SUFFICES ASSUME TypeInv, BestInv, [Next]_vars PROVE BestInv'
    OBVIOUS
  <1>1. CASE TrailNext
    <2>1. UNCHANGED <<treeVars, bankVars>>
      BY <1>1 DEF TrailNext, ListClient, ListFolder, UnitsKnown, OpenUnit, ReadUnit, LegacyUnit,
                  GenerateEnds, Approve, Finalize, MissingExtractRoute, Notify, File,
                  PrevalidatePayment, BuildParts, MergeAgain, PlanEvents
    <2> QED
      BY <2>1, BestStays DEF bankVars
  <1>2. CASE Touch
    BY <1>2, BestMove DEF Touch, TypeInv
  <1>3. CASE Report
    BY <1>3, BestBookStep DEF Report, TypeInv
  <1>4. CASE UNCHANGED vars
    BY <1>4, BestStays DEF vars, bankVars
  <1> QED
    BY <1>1, <1>2, <1>3, <1>4 DEF Next

\* While accounting leaves the tree alone the first row of a day names the
\* extracts of the folders that explain its amount best, for every report,
\* every tree, every tolerance and any number of folders: the search goes
\* through all sets of folders and keeps the right one.
\* (validate_payment_report_and_replace_excel, _find_best_subset_match)
THEOREM AnswersAreBest == Spec => []ReportIsBest
  <1>1. Init => BestInv
    BY BestInit DEF Init
  <1>2. TypeInv /\ BestInv => ReportIsBest
    BY BestAnswers DEF TypeInv
  <1> QED
    BY TypeAlways, BestStep, <1>1, <1>2, PTL DEF Spec

-----------------------------------------------------------------------------
(***************************************************************************)
(* What is read while accounting leaves the tree alone is still so.        *)
(***************************************************************************)
\* The path under which generate read the extract of a line leads to it, and
\* by its due day the extract was the one to take of those not missed.
LineRead(l, missed) ==
    /\ Has(l.link) /\ DocAt(l.link) = l.doc
    /\ rule = "v2" =>
          /\ l.link.at = Own(l.unit) /\ l.unit # Client => FilesAt(Inner(l.unit)) = {}
          /\ \A x \in DocsAt(l.link.at) \ ({l.doc} \cup missed) :
                DueDay(About[x].text) # None
                   => DueDay(About[x].text) < DueDay(About[l.doc].text)

\* The cell Ruta is the path generate read until finalize fills it.
RutaInv ==
    stage \notin Routed =>
        \A i \in DOMAIN lines :
            lines[i].ruta = IF i \in cleared THEN None ELSE lines[i].link

\* The path lies in the unit of the line, wherever the extract is by now.
PlaceInv ==
    /\ stage = "read" => pool.at \in {Own(UnitOrder[at]), Inner(UnitOrder[at])}
    /\ \A i \in DOMAIN lines : lines[i].link.at \in {Own(lines[i].unit), Inner(lines[i].unit)}

RestInv ==
    moves = 0 =>
        /\ \A u \in Units : listed[u] # None => listed[u] = FilesAt(Own(u))
        /\ stage \notin {"report", "start"} => listed[Client] = FilesAt(Own(Client))
        /\ stage = "read" => pool = PoolOf(UnitOrder[at])
        /\ \A i \in DOMAIN lines : LineRead(lines[i], unread)
        /\ stage \in Routed => \A i \in valid : Has(lines[i].ruta)

ReadInv == RutaInv /\ PlaceInv /\ RestInv /\ RouteIsReviewed

\* Nothing of it depends on more than the tree and what was read.
LEMMA TreeSame ==
    ASSUME UNCHANGED treeVars
    PROVE  /\ \A p : FilesAt(p)' = FilesAt(p) /\ DocsAt(p)' = DocsAt(p)
           /\ \A p : Has(p)' = Has(p) /\ DocAt(p)' = DocAt(p)
  BY DEF treeVars, FilesAt, DocsAt, Has, DocAt

LEMMA LineReadSame ==
    ASSUME UNCHANGED treeVars, rule' = rule, NEW l, NEW missed
    PROVE  LineRead(l, missed)' = LineRead(l, missed)
  BY TreeSame DEF LineRead

LEMMA PoolSame ==
    ASSUME UNCHANGED treeVars, UNCHANGED listed, NEW u
    PROVE  PoolOf(u)' = PoolOf(u)
  BY TreeSame, UnitOrderStays DEF PoolOf, ExtractPool

\* A step of the trail that leaves the lines and the listing alone.
LEMMA ReadStays ==
    ASSUME ReadInv, UNCHANGED <<treeVars, rule, listed, sheetVars, unread, unlisted>>,
           stage' = "read" =>
              pool' = PoolOf(UnitOrder[at])' \/ UNCHANGED <<stage, pool, at>>,
           stage' = stage \/ (stage \notin Routed /\ stage' \notin Routed)
              \/ (stage \in Routed /\ stage' \in Routed),
           stage \in {"report", "start"} => stage' = stage
    PROVE  ReadInv'
  <1>1. RutaInv'
    BY DEF ReadInv, RutaInv, sheetVars
  <1>2. \A l, m : LineRead(l, m)' = LineRead(l, m)
    BY LineReadSame
  <1>3. UnitOrder' = UnitOrder /\ \A u : PoolOf(u)' = PoolOf(u)
    BY UnitOrderStays, PoolSame
  <1>4. PlaceInv'
    <2>1. \A u : PoolOf(u).at \in {Own(u), Inner(u)}
      BY DEF PoolOf, ExtractPool
    <2> QED
      BY <1>3, <2>1 DEF ReadInv, PlaceInv, sheetVars
  <1>5. RestInv'
    <2>1. stage' = "read" /\ moves = 0 => pool' = PoolOf(UnitOrder[at])'
      BY <1>3 DEF ReadInv, RestInv
    <2> QED
      BY <1>2, <2>1, TreeSame DEF ReadInv, RestInv, sheetVars, treeVars
  <1>6. RouteIsReviewed'
    <2>1. \A l : CreditFolders(l)' = CreditFolders(l)
      BY DEF CreditFolders, treeVars
    <2> QED
      BY <2>1, TreeSame DEF ReadInv, RouteIsReviewed, Routed, sheetVars, treeVars
  <1> QED
    BY <1>1, <1>4, <1>5, <1>6 DEF ReadInv

\* A step before the lines are approved that adds a line or takes some over.
LEMMA LinesRead ==
    ASSUME ReadInv, UNCHANGED <<treeVars, rule, listed, cleared>>, cleared = {},
           unread \subseteq unread',
           stage \notin Routed \cup {"report", "start"}, stage' \notin Routed \cup {"read"},
           \A i \in DOMAIN lines' :
              \/ \E j \in DOMAIN lines : lines'[i] = lines[j]
              \/ /\ lines'[i].ruta = lines'[i].link
                 /\ lines'[i].link.at \in {Own(lines'[i].unit), Inner(lines'[i].unit)}
                 /\ moves = 0 => LineRead(lines'[i], unread')
    PROVE  ReadInv'
  <1>1. RutaInv' /\ PlaceInv'
    BY DEF ReadInv, RutaInv, PlaceInv
  <1>2. \A l, m : LineRead(l, m)' = LineRead(l, m)
    BY LineReadSame
  <1>3. RestInv'
    <2>1. \A l : LineRead(l, unread) => LineRead(l, unread')
      BY DEF LineRead
    <2>2. moves = 0 => \A i \in DOMAIN lines' : LineRead(lines'[i], unread')
      BY <2>1 DEF ReadInv, RestInv
    <2> QED
      BY <1>2, <2>2, TreeSame DEF ReadInv, RestInv, treeVars
  <1> QED
    BY <1>1, <1>3 DEF ReadInv, RouteIsReviewed, Routed

LEMMA ReadInit == Init => ReadInv
  BY DEF Init, ReadInv, RutaInv, PlaceInv, RestInv, RouteIsReviewed, Routed

LEMMA ReadListClient == TypeInv /\ ReadInv /\ ListClient => ReadInv'
  <1> SUFFICES ASSUME TypeInv, ReadInv, ListClient PROVE ReadInv'
    OBVIOUS
  <1>1. /\ UNCHANGED <<treeVars, rule, sheetVars, unread>> /\ stage' = "list" /\ stage = "start"
        /\ listed' = [listed EXCEPT ![Client] = FilesAt(Own(Client))]
        /\ listed \in [Units -> (SUBSET Nat) \cup {None}]
    BY DEF ListClient, bankVars, lostVars, TypeInv, ScanInv
  <1>2. /\ \A u \in Units : listed'[u] = IF u = Client THEN FilesAt(Own(Client)) ELSE listed[u]
        /\ Client \in Units
    BY <1>1, Unitary
  <1>3. \A l, m : LineRead(l, m)' = LineRead(l, m)
    BY <1>1, LineReadSame
  <1>4. RestInv'
    BY <1>1, <1>2, <1>3, TreeSame DEF ReadInv, RestInv, sheetVars, treeVars, Routed
  <1> QED
    BY <1>1, <1>4 DEF ReadInv, RutaInv, PlaceInv, RouteIsReviewed, Routed, sheetVars

LEMMA ReadListFolder == TypeInv /\ ReadInv /\ ListFolder => ReadInv'
  <1> SUFFICES ASSUME TypeInv, ReadInv, ListFolder PROVE ReadInv'
    OBVIOUS
  <1>1. PICK v \in {FilesAt(Own(Folders[at])), None} : listed' = [listed EXCEPT ![Folders[at]] = v]
    BY DEF ListFolder
  <1>2. /\ UNCHANGED <<treeVars, rule, sheetVars, unread>> /\ stage' = "list" /\ stage = "list"
        /\ listed \in [Units -> (SUBSET Nat) \cup {None}]
    BY DEF ListFolder, bankVars, lostVars, TypeInv, ScanInv
  <1>3. /\ \A u \in Units : listed'[u] = IF u = Folders[at] THEN v ELSE listed[u]
        /\ Client \in Units /\ Folders[at] # Client
    <2>1. Folders[at] # Client
      <3>1. Len(Folders) \in Nat /\ DOMAIN Folders = 1 .. Len(Folders) /\ at \in Nat /\ at >= 1
        BY TreeAssumption DEF TypeInv, ScanInv
      <3>2. at \in DOMAIN Folders
        BY <3>1 DEF ListFolder
      <3> QED
        BY <3>2, TreeAssumption DEF Range
    <2> QED
      BY <1>1, <1>2, <2>1, Unitary
  <1>4. \A l, m : LineRead(l, m)' = LineRead(l, m)
    BY <1>2, LineReadSame
  <1>5. RestInv'
    BY <1>2, <1>3, <1>4, TreeSame DEF ReadInv, RestInv, sheetVars, treeVars, Routed
  <1> QED
    BY <1>2, <1>5 DEF ReadInv, RutaInv, PlaceInv, RouteIsReviewed, Routed, sheetVars

LEMMA ReadOpenUnit == TypeInv /\ ReadInv /\ OpenUnit => ReadInv'
  <1> SUFFICES ASSUME TypeInv, ReadInv, OpenUnit PROVE ReadInv'
    OBVIOUS
  <1>1. /\ UNCHANGED <<treeVars, rule, listed, sheetVars, at, unread, unlisted>>
        /\ stage = "unit" /\ stage' = "read" /\ pool' = PoolOf(UnitOrder[at])
    BY DEF OpenUnit, bankVars, lostVars
  <1>2. PoolOf(UnitOrder[at])' = PoolOf(UnitOrder[at])
    <2>1. UnitOrder' = UnitOrder /\ \A u : PoolOf(u)' = PoolOf(u)
      BY <1>1, UnitOrderStays, PoolSame
    <2> QED
      BY <1>1, <2>1
  <1> QED
    BY <1>1, <1>2, ReadStays DEF Routed

\* The selection of a unit is the newest readable extract of its pool, but for
\* those whose download failed.
LEMMA CandidateRead ==
    ASSUME TypeInv, ReadInv, stage = "read", NEW lost, Selection(pool, lost) = "selected",
           NEW missed, {x \in DocsAt(pool.at) : About[x].file \in lost} \subseteq missed,
           NEW u, u = UnitOrder[at], NEW path, path = Newest(Got(pool, lost))
    PROVE  /\ path.at \in {Own(u), Inner(u)}
           /\ moves = 0 => LineRead(Candidate(u, path), missed)
  <1>1. TreeInv /\ pool.at \in Places /\ u \in Units /\ pool \in [at : Places, files : SUBSET Nat]
    <2>1. ScanInv
      BY DEF TypeInv
    <2> QED
      BY <2>1, PoolOfType DEF TypeInv, ScanInv
  <1>2. /\ path.at = pool.at /\ Has(path)
        /\ \A g \in pool.files \ (lost \cup {path.file}) :
              Due(PathIn(pool, g)) # None => Due(PathIn(pool, g)) < Due(path)
    BY <1>1, NewestIs
  <1>3. path.at \in {Own(u), Inner(u)}
    BY <1>2 DEF ReadInv, PlaceInv
  <1> DEFINE l == Candidate(u, path)
  <1>4. l.link = path /\ l.unit = u /\ l.doc = DocAt(path)
    BY DEF Candidate
  <1> HIDE DEF l
  <1>5. ASSUME moves = 0 PROVE LineRead(l, missed)
    <2>1. pool = PoolOf(u) /\ listed[u] = FilesAt(Own(u)) /\ listed[Client] = FilesAt(Own(Client))
      <3>1. u = Client \/ listed[u] # None
        BY UnitOrderIs DEF TypeInv, ScanInv
      <3> QED
        BY <1>1, <1>5, <3>1 DEF ReadInv, RestInv
    <2>2. pool.files = FilesAt(pool.at)
      BY <2>1 DEF PoolOf, ExtractPool
    <2>3. path.at = Own(u) /\ u # Client => FilesAt(Inner(u)) = {}
      <3>1. Own(u) # Inner(u)
        BY DEF Own, Inner
      <3> QED
        BY <1>2, <2>1, <3>1 DEF PoolOf, ExtractPool
    <2>4. DocAt(path) \in Extracts /\ Due(path) = DueDay(About[DocAt(path)].text)
      BY <1>1, <1>2, DocIs DEF Due
    <2>5. ASSUME NEW x \in DocsAt(path.at) \ ({DocAt(path)} \cup missed),
                 DueDay(About[x].text) # None
          PROVE  DueDay(About[x].text) < DueDay(About[DocAt(path)].text)
      <3>1. x \in Extracts /\ tree[x] = pool.at /\ About[x].file \notin lost
        BY <1>2, <2>5 DEF DocsAt
      <3> DEFINE p == PathIn(pool, About[x].file)
      <3>2. Has(p) /\ DocAt(p) = x
        BY <1>1, <3>1, DocHere DEF PathIn
      <3>3. Due(p) = DueDay(About[x].text)
        BY <3>2 DEF Due
      <3>4. About[x].file # path.file
        <4>1. Has(path) /\ path.at \in Places /\ x \in DocsAt(path.at)
          BY <1>1, <1>2, <2>5
        <4>2. About[x].file = path.file => DocAt(path) = x
          BY <1>1, <1>2, <3>1, <4>1, DocIs
        <4> QED
          BY <2>5, <4>2
      <3>5. About[x].file \in pool.files
        BY <2>2, <3>1 DEF FilesAt, DocsAt
      <3> QED
        BY <1>2, <2>4, <2>5, <3>1, <3>3, <3>4, <3>5
    <2> QED
      BY <1>2, <1>4, <2>3, <2>5 DEF LineRead
  <1> QED
    BY <1>3, <1>5 DEF l

\* The elements of a sequence with one more.
LEMMA AppendIs ==
    ASSUME NEW S, NEW s \in Seq(S), NEW x
    PROVE  /\ DOMAIN Append(s, x) = 1 .. Len(s) + 1 /\ DOMAIN s = 1 .. Len(s) /\ Len(s) \in Nat
           /\ Append(s, x)[Len(s) + 1] = x
           /\ \A i \in DOMAIN s : Append(s, x)[i] = s[i]
           /\ \A i \in DOMAIN Append(s, x) : i = Len(s) + 1 \/ i \in DOMAIN s
  OBVIOUS

LEMMA ReadReadUnit == TypeInv /\ ReadInv /\ ReadUnit => ReadInv'
  <1> SUFFICES ASSUME TypeInv, ReadInv, ReadUnit PROVE ReadInv'
    OBVIOUS
  <1>0. PICK lost :
           /\ unread' = unread \cup {x \in DocsAt(pool.at) : About[x].file \in lost}
           /\ IF Selection(pool, lost) = "selected"
              THEN lines' = Append(lines, Candidate(UnitOrder[at], Newest(Got(pool, lost))))
              ELSE lines' = lines
    BY DEF ReadUnit
  <1> DEFINE u == UnitOrder[at]
             path == Newest(Got(pool, lost))
             l == Candidate(u, path)
  <1>1. /\ UNCHANGED <<treeVars, rule, listed, cleared>> /\ stage = "read" /\ stage' = "unit"
        /\ cleared = {} /\ lines \in Seq(Line) /\ unread \subseteq unread'
    BY <1>0 DEF ReadUnit, bankVars, TypeInv, SheetInv, Unapproved
  <1>2. CASE Selection(pool, lost) = "selected"
    <2>1. l.ruta = path /\ l.link = path /\ l.unit = u
      BY DEF Candidate
    <2>2. path.at \in {Own(u), Inner(u)} /\ (moves = 0 => LineRead(l, unread'))
      BY <1>0, <1>1, <1>2, CandidateRead
    <2>4. lines' = Append(lines, l)
      BY <1>0, <1>2
    <2> HIDE DEF l, path, u
    <2>3. \A i \in DOMAIN lines' : lines'[i] = l \/ \E j \in DOMAIN lines : lines'[i] = lines[j]
      BY <1>1, <2>4, AppendIs
    <2> QED
      BY <1>1, <2>1, <2>2, <2>3, LinesRead DEF Routed
  <1>3. CASE Selection(pool, lost) # "selected"
    <2>1. lines' = lines
      BY <1>0, <1>3
    <2> QED
      BY <1>1, <2>1, LinesRead DEF Routed
  <1> QED
    BY <1>2, <1>3

LEMMA ReadLegacyUnit == TypeInv /\ ReadInv /\ LegacyUnit => ReadInv'
  <1> SUFFICES ASSUME TypeInv, ReadInv, LegacyUnit PROVE ReadInv'
    OBVIOUS
  <1> DEFINE u == UnitOrder[at]
             path == [at |-> Own(u), file |-> StatementItem(u, listed[u])]
             l == LegacyCandidate(u, path)
  <1>1. /\ UNCHANGED <<treeVars, rule, listed, cleared>> /\ stage = "unit"
        /\ stage' \in {"unit", "nothing"} /\ rule = "legacy"
        /\ cleared = {} /\ lines \in Seq(Line) /\ unread' = unread
    BY DEF LegacyUnit, bankVars, lostVars, TypeInv, SheetInv, Unapproved
  <1>2. ASSUME Has(path), lines' = Append(lines, l)
        PROVE  ReadInv'
    <2>1. l.ruta = path /\ l.link = path /\ l.unit = u /\ l.doc = DocAt(path)
      BY DEF LegacyCandidate, Candidate
    <2>2. path.at = Own(u)
      OBVIOUS
    <2> HIDE DEF l, path, u
    <2>3. LineRead(l, unread)
      BY <1>1, <1>2, <2>1 DEF LineRead
    <2>4. \A i \in DOMAIN lines' : lines'[i] = l \/ \E j \in DOMAIN lines : lines'[i] = lines[j]
      BY <1>1, <1>2, AppendIs
    <2> QED
      BY <1>1, <2>1, <2>2, <2>3, <2>4, LinesRead DEF Routed
  <1>3. CASE lines' \in {lines, <<>>}
    BY <1>1, <1>3, LinesRead DEF Routed
  <1>4. lines' \in {lines, <<>>} \/ (Has(path) /\ lines' = Append(lines, l))
    BY DEF LegacyUnit
  <1> QED
    BY <1>2, <1>3, <1>4

\* What is kept of the candidates are candidates.
LEMMA DedupeIs ==
    ASSUME lines \in Seq(Line)
    PROVE  /\ DOMAIN Dedupe(lines) \subseteq Nat
           /\ \A i \in DOMAIN Dedupe(lines) : \E j \in DOMAIN lines : Dedupe(lines)[i] = lines[j]
  <1> DEFINE I == {i \in DOMAIN lines : \A j \in 1 .. i - 1 : lines[j].ruta # lines[i].ruta}
             n == Cardinality(I)
  <1>1. I \in SUBSET DOMAIN lines /\ Dedupe(lines) = Picked(lines, I)
    BY DEF Dedupe
  <1> HIDE DEF I
  <1>2. PICK r \in [1 .. n -> I] : \A k \in 1 .. n : Picked(lines, I)[k] = lines[r[k]]
    <2>1. \E r \in [1 .. Cardinality(I) -> I] :
             \A k \in 1 .. Cardinality(I) : Picked(lines, I)[k] = lines[r[k]]
      BY <1>1, PickedIs
    <2> QED
      BY <2>1
  <1>3. DOMAIN Picked(lines, I) = 1 .. n
    BY DEF Picked
  <1> HIDE DEF n
  <1>4. \A k \in 1 .. n : r[k] \in DOMAIN lines
    BY <1>1, <1>2
  <1> QED
    BY <1>1, <1>2, <1>3, <1>4

LEMMA ReadGenerateEnds == TypeInv /\ ReadInv /\ GenerateEnds => ReadInv'
  <1> SUFFICES ASSUME TypeInv, ReadInv, GenerateEnds PROVE ReadInv'
    OBVIOUS
  <1>1. /\ UNCHANGED <<treeVars, rule, listed, cleared>> /\ stage = "unit"
        /\ stage' \in {"review", "nothing"}
        /\ cleared = {} /\ lines \in Seq(Line) /\ lines' = Dedupe(lines)
        /\ unread' = unread
    BY DEF GenerateEnds, bankVars, lostVars, TypeInv, SheetInv, Unapproved
  <1>2. \A i \in DOMAIN lines' : \E j \in DOMAIN lines : lines'[i] = lines[j]
    BY <1>1, DedupeIs
  <1> QED
    BY <1>1, <1>2, LinesRead DEF Routed

LEMMA ReadApprove == TypeInv /\ ReadInv /\ Approve => ReadInv'
  <1> SUFFICES ASSUME TypeInv, ReadInv, Approve PROVE ReadInv'
    OBVIOUS
  <1>1. /\ UNCHANGED <<treeVars, rule, listed, unread>> /\ stage = "review" /\ stage' = "approved"
        /\ cleared = {} /\ lines \in Seq(Line)
    BY DEF Approve, bankVars, scanVars, lostVars, TypeInv, SheetInv, Unapproved
  <1>2. PICK c \in SUBSET DOMAIN lines :
          /\ cleared' = c
          /\ lines' = [i \in DOMAIN lines |->
                         IF i \in c THEN [lines[i] EXCEPT !.ruta = None] ELSE lines[i]]
    BY DEF Approve
  <1>3. \A i \in DOMAIN lines : lines[i] \in Line /\ lines[i].ruta = lines[i].link
    BY <1>1 DEF ReadInv, RutaInv, Routed
  <1>4. \A l \in Line : LET m == [l EXCEPT !.ruta = None]
                        IN m.ruta = None /\ m.link = l.link /\ m.unit = l.unit /\ m.doc = l.doc
    BY DEF Line
  <1>5. /\ DOMAIN lines' = DOMAIN lines
        /\ \A i \in DOMAIN lines :
              /\ lines'[i].ruta = IF i \in cleared' THEN None ELSE lines'[i].link
              /\ lines'[i].link = lines[i].link /\ lines'[i].unit = lines[i].unit
              /\ lines'[i].doc = lines[i].doc
    BY <1>2, <1>3, <1>4
  <1>6. RutaInv' /\ PlaceInv'
    BY <1>1, <1>5 DEF ReadInv, RutaInv, PlaceInv
  <1>7. RestInv'
    <2>1. \A l, m : LineRead(l, m)' = LineRead(l, m)
      BY <1>1, LineReadSame
    <2>2. moves = 0 => \A i \in DOMAIN lines' : LineRead(lines'[i], unread)
      BY <1>5 DEF ReadInv, RestInv, LineRead
    <2> QED
      BY <1>1, <2>1, <2>2, TreeSame DEF ReadInv, RestInv, Routed, treeVars
  <1> QED
    BY <1>1, <1>6, <1>7 DEF ReadInv, RouteIsReviewed, Routed

\* A cell that was emptied is filled with the path that was in it, where
\* column Credito leads to the one folder generate has read.
LEMMA FoundAgain ==
    ASSUME TypeInv, ReadInv, moves = 0, stage = "approved", rule = "v2",
           NEW i \in valid, NEW missed \in BOOLEAN, missed => ~lines[i].link.at.inner,
           ExtractRoute(lines[i], missed) # None,
           CreditFolders(lines[i].credit) = {lines[i].unit}
    PROVE  ExtractRoute(lines[i], missed) = lines[i].link
  <1> DEFINE l == lines[i]
  <1>1. /\ TreeInv /\ l \in Line /\ i \in DOMAIN lines /\ l.link \in Paths /\ l.unit \in Units
        /\ LineRead(l, unread) /\ l.link.at \in {Own(l.unit), Inner(l.unit)}
        /\ l.ruta = IF i \in cleared THEN None ELSE l.link
    <2>1. SheetInv /\ i \in DOMAIN lines
      BY DEF TypeInv, SheetInv
    <2> QED
      BY <2>1, LineTypes DEF TypeInv, ReadInv, RestInv, PlaceInv, RutaInv, Routed
  <1> HIDE DEF l
  <1>2. CASE l.ruta # None
    BY <1>1, <1>2 DEF ExtractRoute, l
  <1>3. CASE l.ruta = None
    <2> DEFINE r == ExtractRoute(l, missed)
    <2>1. r = RouteByFolder(l.credit, BankDay, l.link.file, missed)
      BY <1>3 DEF ExtractRoute
    <2>2. PICK u \in Range(Folders) :
            /\ CreditFolders(l.credit) = {u}
            /\ ~missed /\ l.link.file \in FilesAt(Inner(u))
                 => r = [at |-> Inner(u), file |-> l.link.file]
            /\ (missed \/ FilesAt(Inner(u)) = {}) /\ l.link.file \in FilesAt(Own(u))
                 => r = [at |-> Own(u), file |-> l.link.file]
      <3> HIDE DEF r
      <3>1. r # None
        BY DEF r, l
      <3> QED
        BY <1>1, <2>1, <3>1, RouteIs, TrailAssumption
    <2>3. u = l.unit /\ u # Client
      BY <2>2, TreeAssumption DEF l
    <2>4. l.link = [at |-> l.link.at, file |-> l.link.file]
      BY <1>1 DEF Paths
    <2>5. l.link.file \in FilesAt(l.link.at)
      BY <1>1 DEF LineRead, Has
    <2>6. l.link.at = Own(u) => FilesAt(Inner(u)) = {}
      BY <1>1, <2>3 DEF LineRead
    <2>7. l.link.at = Inner(u) => ~missed
      BY DEF Inner, l
    <2> QED
      BY <1>1, <2>2, <2>3, <2>4, <2>5, <2>6, <2>7 DEF l
  <1> QED
    BY <1>2, <1>3

LEMMA ReadFinalize == TypeInv /\ ReadInv /\ Finalize => ReadInv'
  <1> SUFFICES ASSUME TypeInv, ReadInv, Finalize PROVE ReadInv'
    OBVIOUS
  <1>0. PICK missed \in SUBSET cleared :
           /\ \A i \in valid : ExtractRoute(lines[i], i \in missed) # None
           /\ lines' = [i \in DOMAIN lines |->
                          IF i \in valid
                          THEN [lines[i] EXCEPT !.ruta = ExtractRoute(lines[i], i \in missed)]
                          ELSE lines[i]]
           /\ unlisted' = missed
    BY DEF Finalize
  <1> DEFINE Route(i) == ExtractRoute(lines[i], i \in missed)
             Fit(i) == i \in cleared => /\ rule = "v2"
                                        /\ CreditFolders(lines[i].credit) = {lines[i].unit}
                                        /\ i \in missed => ~lines[i].link.at.inner
  <1>1. /\ UNCHANGED <<treeVars, rule, listed, valid, cleared, unread>>
        /\ stage = "approved" /\ stage' = "final"
        /\ lines \in Seq(Line) /\ TreeInv /\ SheetInv /\ valid \subseteq DOMAIN lines
        /\ \A i \in valid : Route(i) # None
    BY <1>0 DEF Finalize, bankVars, scanVars, TypeInv, SheetInv
  <1>2. lines' = [i \in DOMAIN lines |->
                    IF i \in valid THEN [lines[i] EXCEPT !.ruta = Route(i)]
                    ELSE lines[i]]
    BY <1>0
  <1>3. \A i \in DOMAIN lines : lines[i] \in Line
    BY <1>1
  <1>4. \A l \in Line : \A r : LET m == [l EXCEPT !.ruta = r]
                               IN /\ m.ruta = r /\ m.link = l.link /\ m.unit = l.unit
                                  /\ m.doc = l.doc /\ m.credit = l.credit
    BY DEF Line
  <1>5. /\ DOMAIN lines' = DOMAIN lines
        /\ \A i \in valid : lines'[i].ruta = Route(i)
        /\ \A i \in DOMAIN lines :
              /\ lines'[i].link = lines[i].link /\ lines'[i].unit = lines[i].unit
              /\ lines'[i].doc = lines[i].doc /\ lines'[i].credit = lines[i].credit
    <2> HIDE DEF Route
    <2> QED
      BY <1>1, <1>2, <1>3, <1>4
  <1>6. \A l, m : LineRead(l, m)' = LineRead(l, m)
    BY <1>1, LineReadSame
  <1>7. ASSUME moves = 0, NEW i \in valid
        PROVE  Has(Route(i)) /\ (Fit(i) => DocAt(Route(i)) = lines[i].doc)
    <2>1. /\ LineRead(lines[i], unread)
          /\ lines[i].ruta = IF i \in cleared THEN None ELSE lines[i].link
      BY <1>1, <1>7 DEF ReadInv, RestInv, RutaInv, Routed
    <2>2. lines[i].link # None
      BY <1>1, LineTypes, TreeAssumption
    <2>3. CASE i \notin cleared
      BY <2>1, <2>2, <2>3 DEF ExtractRoute, LineRead
    <2>4. CASE i \in cleared
      <3> DEFINE miss == i \in missed
                 own  == /\ rule = "v2" /\ CreditFolders(lines[i].credit) = {lines[i].unit}
                         /\ miss => ~lines[i].link.at.inner
      <3>0. Route(i) = ExtractRoute(lines[i], miss) /\ Route(i) # None /\ miss \in BOOLEAN
        BY <1>1, <1>7
      <3> HIDE DEF miss, Route
      <3>1. Has(Route(i))
        <4>1. Route(i) = RouteByFolder(lines[i].credit, BankDay, lines[i].link.file, miss)
          BY <2>1, <2>4, <3>0 DEF ExtractRoute
        <4> QED
          BY <1>1, <3>0, <4>1, RouteIs, TrailAssumption
      <3>2. ASSUME own PROVE Route(i) = lines[i].link
        BY <1>1, <1>7, <3>0, <3>2, FoundAgain
      <3>3. own => DocAt(Route(i)) = lines[i].doc
        <4>1. DocAt(lines[i].link) = lines[i].doc
          BY <1>7, <2>1 DEF LineRead
        <4> HIDE DEF own
        <4> QED
          BY <3>2, <4>1
      <3>4. Fit(i) => own
        BY <2>4 DEF miss
      <3> HIDE DEF own, Fit
      <3> QED
        BY <3>1, <3>3, <3>4
    <2> QED
      BY <2>3, <2>4
  <1> HIDE DEF Route
  <1>8. RutaInv' /\ PlaceInv'
    BY <1>1, <1>5 DEF ReadInv, RutaInv, PlaceInv, Routed
  <1>9. RestInv'
    <2>1. moves = 0 => \A i \in DOMAIN lines' : LineRead(lines'[i], unread)
      BY <1>5 DEF ReadInv, RestInv, LineRead
    <2> QED
      BY <1>1, <1>5, <1>6, <1>7, <2>1, TreeSame DEF ReadInv, RestInv, treeVars
  <1>10. RouteIsReviewed'
    <2>1. (\A l : CreditFolders(l)' = CreditFolders(l)) /\ moves' = moves
      BY <1>1 DEF CreditFolders, treeVars
    <2>2. \A i \in valid : i \in DOMAIN lines
      BY <1>1
    <2>3. ASSUME moves = 0, NEW i \in valid,
                 (i \in cleared => /\ rule = "v2"
                                   /\ CreditFolders(lines'[i].credit) = {lines'[i].unit}
                                   /\ i \in unlisted' => ~lines'[i].link.at.inner)
          PROVE  Has(lines'[i].ruta) /\ DocAt(lines'[i].ruta) = lines'[i].doc
      <3>1. Fit(i)
        BY <1>0, <1>5, <2>2, <2>3
      <3> HIDE DEF Fit
      <3>2. Has(Route(i)) /\ DocAt(Route(i)) = lines[i].doc
        BY <1>7, <2>3, <3>1
      <3>3. lines'[i].ruta = Route(i) /\ lines'[i].doc = lines[i].doc
        BY <1>5, <2>2
      <3> QED
        BY <3>2, <3>3
    <2>4. \A p : Has(p)' = Has(p) /\ DocAt(p)' = DocAt(p)
      BY <1>1, TreeSame
    <2> HIDE DEF Fit
    <2> QED
      BY <1>1, <2>1, <2>3, <2>4 DEF RouteIsReviewed
  <1> QED
    BY <1>8, <1>9, <1>10 DEF ReadInv

LEMMA ReadStep == TypeInv /\ ReadInv /\ [Next]_vars => ReadInv'
  <1> SUFFICES ASSUME TypeInv, ReadInv, [Next]_vars PROVE ReadInv'
    OBVIOUS
  <1>1. CASE ListClient \/ ListFolder \/ OpenUnit \/ ReadUnit \/ LegacyUnit \/ GenerateEnds
             \/ Approve \/ Finalize
    BY <1>1, ReadListClient, ReadListFolder, ReadOpenUnit, ReadReadUnit, ReadLegacyUnit,
       ReadGenerateEnds, ReadApprove, ReadFinalize
  <1>2. CASE UnitsKnown \/ MissingExtractRoute
    BY <1>2, ReadStays DEF UnitsKnown, MissingExtractRoute, Routed, bankVars, scanVars,
                           lostVars
  <1>3. CASE Notify \/ File \/ PrevalidatePayment \/ BuildParts \/ MergeAgain \/ PlanEvents
    <2>1. /\ UNCHANGED <<treeVars, rule, listed, sheetVars, unread, unlisted>>
          /\ stage \in Routed /\ stage' \in Routed
      BY <1>3 DEF Notify, File, PrevalidatePayment, BuildParts, MergeAgain, PlanEvents, Routed,
                  bankVars, scanVars, lostVars
    <2> QED
      BY <2>1, ReadStays DEF Routed
  <1>4. CASE Touch
    <2>1. moves' # 0 /\ UNCHANGED <<name, rule, trailVars>>
      BY <1>4, TreeAssumption DEF Touch, Move, TypeInv, TreeInv, bankVars
    <2>2. UnitOrder' = UnitOrder
      BY <2>1, UnitOrderStays DEF trailVars, scanVars
    <2> QED
      BY <2>1, <2>2 DEF ReadInv, RutaInv, PlaceInv, RestInv, RouteIsReviewed, trailVars,
                        scanVars, sheetVars, lostVars
  <1>5. CASE Report
    BY <1>5, ReadStays DEF Report, trailVars, scanVars, lostVars
  <1>6. CASE UNCHANGED vars
    BY <1>6, ReadStays DEF vars, bankVars, trailVars, scanVars, lostVars
  <1> QED
    BY <1>1, <1>2, <1>3, <1>4, <1>5, <1>6 DEF Next, TrailNext

LEMMA ReadAlways == Spec => []ReadInv
  BY TypeAlways, ReadInit, ReadStep, PTL DEF Spec

\* The route finalize publishes leads to the extract generate has read, for
\* every tree and every label: also when the secretary emptied the cell, as
\* long as generate chose by the due day and column Credito fits the unit's
\* folder alone, and also when a listing failed, if the extract lies in the
\* folder itself.  (_resolve_extract_route_by_credit_folder)
THEOREM RoutesAreReviewed == Spec => []RouteIsReviewed
  <1>1. ReadInv => RouteIsReviewed
    BY DEF ReadInv
  <1> QED
    BY ReadAlways, <1>1, PTL

LEMMA ReadNewest == TypeInv /\ ReadInv => ReviewedIsNewest
  <1> SUFFICES ASSUME TypeInv, ReadInv, rule = "v2", moves = 0, NEW i \in DOMAIN lines
               PROVE
            LET e == lines[i].doc
            IN /\ \A x \in DocsAt(tree[e]) \ ({e} \cup unread) :
                     DueDay(About[x].text) # None
                        => DueDay(About[x].text) < DueDay(About[e].text)
               /\ tree[e] = Own(lines[i].unit) /\ lines[i].unit # Client
                     => DocsAt(Inner(lines[i].unit)) = {}
    BY DEF ReviewedIsNewest
  <1>1. LineRead(lines[i], unread) /\ lines[i] \in Line /\ TreeInv
    BY DEF TypeInv, SheetInv, ReadInv, RestInv
  <1>2. lines[i].link \in Paths /\ lines[i].link.at \in Places
    BY <1>1 DEF Line, Paths
  <1>3. tree[lines[i].doc] = lines[i].link.at
    BY <1>1, <1>2, DocIs DEF LineRead
  <1>4. \A p : FilesAt(p) = {} => DocsAt(p) = {}
    BY DEF FilesAt
  <1> QED
    BY <1>1, <1>3, <1>4 DEF LineRead

\* The extract behind a line is the newest readable one where generate looks
\* for it of those whose download did not fail, for every tree and all texts:
\* one in the folder itself only while EXTRACTOS is empty.
\* (_select_extract_by_max_fecha_limite_v2)
THEOREM ReviewedAreNewest == Spec => []ReviewedIsNewest
  BY TypeAlways, ReadAlways, ReadNewest, PTL

-----------------------------------------------------------------------------
(***************************************************************************)
(* What the notification sends and the merge bundles.                      *)
(***************************************************************************)
\* What the notification had before it, to send or to leave out.
Offered == sent \cup unsent

\* With one step of accounting at most since generate every extract that was
\* offered is still behind a route or gone from it, and every route that leads
\* anywhere leads to an extract that was offered.
SentInv ==
    /\ stage \notin Routed => sent = None
    /\ stage \in {"build", "merged"} => sent # None
    /\ stage \in {"final", "build", "merged"} /\ sent # None /\ moves <= 1 =>
          /\ \A e \in Offered : \E i \in valid : Has(lines[i].ruta) => DocAt(lines[i].ruta) = e
          /\ \A i \in valid : Routes(i) # {} => DocAt(lines[i].ruta) \in Offered

\* So is every extract in the PDF, of this merge or of an earlier one.
BundledInv ==
    /\ sent = None => bundle = Empty
    /\ moves <= 1 => \A i \in DOMAIN bundle : bundle[i].doc \in Offered

\* A line the merge has taken has a route no comma cuts in two.
UncutInv ==
    stage = "build" =>
        \A i \in DOMAIN taken : ~name[Client].comma /\ ~name[lines[i].ruta.at.unit].comma

SentMergedInv == SentInv /\ BundledInv /\ UncutInv /\ SentIsMerged

\* A step after which nothing is told, or told is as it was.
LEMMA RoutesSame ==
    ASSUME UNCHANGED <<treeVars, lines>>, NEW i
    PROVE  Routes(i)' = Routes(i)
  BY TreeSame DEF Routes, RutaPaths, treeVars

LEMMA SentStays ==
    ASSUME SentMergedInv,
           UNCHANGED <<treeVars, lines, valid, taken, sent, unsent, stage, bundle, reused, told>>
    PROVE  SentMergedInv'
  <1>1. \A i : Routes(i)' = Routes(i)
    BY RoutesSame
  <1>2. Offered' = Offered
    BY DEF Offered
  <1>3. SentInv' /\ BundledInv' /\ UncutInv'
    BY <1>1, <1>2, TreeSame DEF SentMergedInv, SentInv, BundledInv, UncutInv, treeVars
  <1>4. SentIsMerged'
    BY DEF SentMergedInv, SentIsMerged, treeVars
  <1> QED
    BY <1>3, <1>4 DEF SentMergedInv

LEMMA SentBefore ==
    ASSUME SentMergedInv, WholeInv, stage \notin Routed, stage' \notin Routed \/ stage' = "final",
           UNCHANGED <<sent, told, bundle>>
    PROVE  SentMergedInv'
  <1>1. told["merge"] # "success" /\ sent = None /\ bundle = Empty
    BY DEF WholeInv, ToldAtTheEnd, SentMergedInv, SentInv, BundledInv, Routed
  <1> QED
    BY <1>1 DEF SentMergedInv, SentInv, BundledInv, UncutInv, SentIsMerged, Routed, Empty

LEMMA SentNotify == TypeInv /\ WholeInv /\ SentMergedInv /\ Notify => SentMergedInv'
  <1> SUFFICES ASSUME TypeInv, WholeInv, SentMergedInv, Notify PROVE SentMergedInv'
    OBVIOUS
  <1>1. /\ UNCHANGED <<treeVars, lines, valid, told, bundle>> /\ stage = "final" /\ stage' = "final"
        /\ sent = None /\ TreeInv /\ SheetInv
    BY DEF Notify, sheetVars, mergeVars, TypeInv
  <1>0. Offered' = Attached
    BY DEF Notify, Offered
  <1>2. told["merge"] # "success" /\ bundle = Empty
    BY <1>1 DEF WholeInv, ToldAtTheEnd, SentMergedInv, BundledInv
  <1>3. \A i \in valid : \A p \in Routes(i) : p = lines[i].ruta
    BY <1>1, RoutesAre
  <1>4. \A e \in Attached : \E i \in valid : e = DocAt(lines[i].ruta)
    BY <1>3 DEF Attached
  <1>5. \A i \in valid : Routes(i) # {} => DocAt(lines[i].ruta) \in Attached
    BY <1>3 DEF Attached
  <1>6. \A i : Routes(i)' = Routes(i)
    BY <1>1, RoutesSame
  <1>7. SentInv'
    BY <1>0, <1>1, <1>4, <1>5, <1>6, TreeSame DEF SentInv, Routed
  <1> QED
    BY <1>0, <1>1, <1>2, <1>7 DEF SentMergedInv, BundledInv, UncutInv, SentIsMerged, Empty

LEMMA SentPrevalidate ==
    TypeInv /\ WholeInv /\ SentMergedInv /\ PrevalidatePayment => SentMergedInv'
  <1> SUFFICES ASSUME TypeInv, WholeInv, SentMergedInv, PrevalidatePayment PROVE SentMergedInv'
    OBVIOUS
  <1>1. /\ UNCHANGED <<treeVars, lines, valid, told, sent, unsent, bundle>>
        /\ stage = "final" /\ stage' = "build"
        /\ sent # None /\ TreeInv /\ SheetInv /\ MergeInv
    BY DEF PrevalidatePayment, sheetVars, lostVars, TypeInv
  <1>0. Offered' = Offered
    BY <1>1 DEF Offered
  <1>2. told["merge"] # "success"
    BY <1>1 DEF WholeInv, ToldAtTheEnd
  <1>3. \A i : Routes(i)' = Routes(i)
    BY <1>1, RoutesSame
  <1>4. SentInv'
    BY <1>0, <1>1, <1>3, TreeSame DEF SentMergedInv, SentInv, Routed, treeVars
  <1>5. UncutInv'
    <2>1. \A i \in DOMAIN taken' : i \in valid /\ \E call : Whole(i, call)
      BY DEF PrevalidatePayment
    <2>2. \A i \in DOMAIN taken' : Routes(i) = {lines[i].ruta}
      BY <1>1, <2>1, WholeIs
    <2>3. \A i \in DOMAIN taken' : ~name[Client].comma /\ ~name[lines[i].ruta.at.unit].comma
      BY <2>2 DEF Routes, RutaPaths
    <2> QED
      BY <1>1, <2>3 DEF UncutInv, treeVars
  <1> QED
    BY <1>0, <1>1, <1>2, <1>4, <1>5 DEF SentMergedInv, BundledInv, SentIsMerged, treeVars

LEMMA SentBuild == TypeInv /\ WholeInv /\ SentMergedInv /\ BuildParts => SentMergedInv'
  <1> SUFFICES ASSUME TypeInv, WholeInv, SentMergedInv, BuildParts PROVE SentMergedInv'
    OBVIOUS
  <1>1. /\ stage = "build" /\ stage' = "merged" /\ sent # None
        /\ UNCHANGED <<treeVars, lines, valid, taken, sent, unsent>>
        /\ SheetInv /\ MergeInv /\ Offered' = Offered
    BY DEF BuildParts, sheetVars, lostVars, TypeInv, Offered, SentMergedInv, SentInv
  <1>2. \A i : Routes(i)' = Routes(i)
    BY <1>1, RoutesSame
  <1>3. ASSUME Fetched, NEW i \in DOMAIN taken
        PROVE  i \in valid /\ Has(lines[i].ruta) /\ Routes(i) # {}
    BY <1>1, <1>3
    DEF Fetched, SentMergedInv, UncutInv, Routes, RutaPaths, SheetInv, MergeInv, Routed
  <1>4. \A i \in DOMAIN taken : Merged[i].doc = DocAt(lines[i].ruta)
    BY DEF Merged
  <1>5. DOMAIN Merged = DOMAIN taken
    BY DEF Merged
  <1>6. SentInv'
    BY <1>1, <1>2, TreeSame DEF SentMergedInv, SentInv, Routed, treeVars
  <1>7. BundledInv'
    <2>1. bundle' = bundle \/ (Fetched /\ bundle' = Merged)
      BY DEF BuildParts, SkipPayment, ReusePdf, WritePdf
    <2>2. ASSUME moves <= 1, Fetched, NEW i \in DOMAIN taken PROVE Merged[i].doc \in Offered
      BY <1>1, <1>3, <1>4, <2>2 DEF SentMergedInv, SentInv
    <2> QED
      BY <1>1, <1>5, <2>1, <2>2 DEF SentMergedInv, BundledInv, treeVars
  <1>8. SentIsMerged'
    <2> SUFFICES ASSUME told'["merge"] = "success", moves <= 1
                 PROVE  LET docs == {bundle'[i].doc : i \in DOMAIN bundle'}
                        IN docs \subseteq Offered /\ (~reused' => Offered = docs)
      BY <1>1 DEF SentIsMerged, Offered, treeVars
    <2>1. \A i \in DOMAIN bundle' : bundle'[i].doc \in Offered
      BY <1>1, <1>7 DEF BundledInv, treeVars
    <2>2. ASSUME ~reused' PROVE \A e \in Offered : \E i \in DOMAIN bundle' : bundle'[i].doc = e
      <3>1. skips' = {}
        <4>1. PICK output : Tell(output)
          BY DEF BuildParts, SkipPayment, ReusePdf, WritePdf
        <4> QED
          BY <4>1, SuccessSkipsNothing DEF WholeInv, ToldAtTheEnd
      <3>4. skips = {}
        BY <3>1 DEF BuildParts, SkipPayment, ReusePdf, WritePdf
      <3>5. DOMAIN taken = valid
        BY <1>1, <3>4 DEF WholeInv, TakenOrSkipped, MergeInv
      <3>6. \A e \in Offered : \E i \in valid : Has(lines[i].ruta) => DocAt(lines[i].ruta) = e
        BY <1>1 DEF SentMergedInv, SentInv
      <3>7. CASE DOMAIN taken = {}
        BY <3>5, <3>6, <3>7
      <3>8. CASE DOMAIN taken # {}
        <4>1. WritePdf
          BY <2>2, <3>1, <3>8 DEF BuildParts, SkipPayment, ReusePdf
        <4>2. Fetched /\ bundle' = Merged
          BY <4>1 DEF WritePdf
        <4> QED
          BY <1>3, <1>4, <1>5, <3>5, <3>6, <4>2
      <3> QED
        BY <3>7, <3>8
    <2> QED
      BY <2>1, <2>2
  <1> QED
    BY <1>1, <1>6, <1>7, <1>8 DEF SentMergedInv, UncutInv

\* The merge that is called again finds the PDF of the one before.
LEMMA SentAgain == TypeInv /\ SentMergedInv /\ MergeAgain => SentMergedInv'
  <1> SUFFICES ASSUME TypeInv, SentMergedInv, MergeAgain PROVE SentMergedInv'
    OBVIOUS
  <1>1. /\ UNCHANGED <<treeVars, lines, valid, sent, unsent, bundle>>
        /\ stage = "merged" /\ stage' = "final" /\ Offered' = Offered
    BY DEF MergeAgain, sheetVars, lostVars, Offered
  <1>2. told'["merge"] # "success"
    BY TrailAssumption DEF MergeAgain, TypeInv, MergeInv, Severities
  <1>3. \A i : Routes(i)' = Routes(i)
    BY <1>1, RoutesSame
  <1>4. SentInv'
    BY <1>1, <1>3, TreeSame DEF SentMergedInv, SentInv, Routed, treeVars
  <1> QED
    BY <1>1, <1>2, <1>4 DEF SentMergedInv, BundledInv, UncutInv, SentIsMerged, treeVars

LEMMA SentPlan == TypeInv /\ SentMergedInv /\ PlanEvents => SentMergedInv'
  <1> SUFFICES ASSUME TypeInv, SentMergedInv, PlanEvents PROVE SentMergedInv'
    OBVIOUS
  <1>1. /\ UNCHANGED <<treeVars, sent, unsent, bundle, reused>>
        /\ stage = "merged" /\ stage' = "planned" /\ Offered' = Offered
        /\ told'["merge"] = told["merge"]
    BY DEF PlanEvents, mergeVars, lostVars, TypeInv, MergeInv, Offered
  <1> QED
    BY <1>1 DEF SentMergedInv, SentInv, BundledInv, UncutInv, SentIsMerged, Routed, treeVars

\* One step of accounting takes an extract from its path, or brings another
\* one somewhere; it cannot do both to one path.
LEMMA SentTouch ==
    TypeInv /\ WholeInv /\ ReadInv /\ SentMergedInv /\ Touch => SentMergedInv'
  <1> SUFFICES ASSUME TypeInv, WholeInv, ReadInv, SentMergedInv, Touch PROVE SentMergedInv'
    OBVIOUS
  <1>1. /\ Move /\ UNCHANGED <<lines, valid, taken, sent, unsent, stage, bundle, told>> /\ name' = name
        /\ TreeInv /\ SheetInv /\ moves \in Nat /\ moves' = moves + 1
        /\ stage \notin {"merged", "planned"}
    <2>1. /\ Move /\ UNCHANGED <<lines, valid, taken, sent, unsent, stage, bundle, told>>
          /\ stage \notin {"merged", "planned"}
      BY DEF Touch, Reading, trailVars, sheetVars, mergeVars, lostVars
    <2>2. name' = name /\ moves' = moves + 1
      BY <2>1 DEF Move
    <2> QED
      BY <2>1, <2>2, TreeAssumption DEF TypeInv, TreeInv
  <1>0. Offered' = Offered
    BY <1>1 DEF Offered
  <1>2. told["merge"] # "success"
    BY <1>1 DEF WholeInv, ToldAtTheEnd
  <1>3. ASSUME stage \in Routed, moves' <= 1, NEW i \in valid
        PROVE  Has(lines[i].ruta) /\ (Has(lines[i].ruta)' => DocAt(lines[i].ruta)' = DocAt(lines[i].ruta))
    <2>1. moves = 0
      BY <1>1, <1>3
    <2>2. Has(lines[i].ruta) /\ lines[i].ruta.at \in Places
      BY <1>1, <1>3, <2>1, LineTypes DEF ReadInv, RestInv, SheetInv
    <2> DEFINE path == lines[i].ruta
    <2>3. path' = path
      BY <1>1
    <2>4. Has(path)' => DocAt(path)' = DocAt(path)
      <3>1. PICK p : p = lines[i].ruta
        OBVIOUS
      <3>2. Has(p)' => DocAt(p)' = DocAt(p)
        BY <1>1, <2>2, <3>1, MovedDoc
      <3> QED
        BY <1>1, <3>1, <3>2
    <2> QED
      BY <2>2, <2>4
  <1>4. \A i : Routes(i)' # {} => Has(lines[i].ruta)' /\ Routes(i)' = {lines[i].ruta}
    BY <1>1 DEF Routes, RutaPaths
  <1>5. SentInv'
    <2> SUFFICES ASSUME stage \in {"final", "build"}, sent # None, moves' <= 1
                 PROVE
          /\ \A e \in Offered : \E i \in valid : Has(lines[i].ruta)' => DocAt(lines[i].ruta)' = e
          /\ \A i \in valid : Routes(i)' # {} => DocAt(lines[i].ruta)' \in Offered
      BY <1>1, <1>0 DEF SentMergedInv, SentInv
    <2>1. moves <= 1 /\ stage \in Routed
      BY <1>1 DEF Routed
    <2>2. \A i \in valid : Routes(i)' # {} => Routes(i) # {}
      BY <1>1, <1>3, <2>1 DEF Routes, RutaPaths
    <2> QED
      BY <1>3, <1>4, <2>1, <2>2 DEF SentMergedInv, SentInv
  <1>6. UncutInv'
    BY <1>1 DEF SentMergedInv, UncutInv
  <1>7. BundledInv'
    BY <1>0, <1>1 DEF SentMergedInv, BundledInv
  <1> QED
    BY <1>1, <1>2, <1>5, <1>6, <1>7 DEF SentMergedInv, SentIsMerged

LEMMA SentInit == Init => SentMergedInv
  BY TrailAssumption
  DEF Init, SentMergedInv, SentInv, BundledInv, UncutInv, SentIsMerged, Routed, Severities, Empty

LEMMA SentStep ==
    TypeInv /\ WholeInv /\ ReadInv /\ SentMergedInv /\ [Next]_vars => SentMergedInv'
  <1> SUFFICES ASSUME TypeInv, WholeInv, ReadInv, SentMergedInv, [Next]_vars
               PROVE  SentMergedInv'
    OBVIOUS
  <1>1. CASE ListClient \/ ListFolder \/ UnitsKnown \/ OpenUnit \/ ReadUnit \/ LegacyUnit
             \/ GenerateEnds \/ Approve \/ Finalize \/ MissingExtractRoute
    <2>1. /\ stage \notin Routed /\ (stage' \notin Routed \/ stage' = "final")
          /\ UNCHANGED <<sent, told, bundle>>
      BY <1>1 DEF ListClient, ListFolder, UnitsKnown, OpenUnit, ReadUnit, LegacyUnit,
                  GenerateEnds, Approve, Finalize, MissingExtractRoute, Routed, mergeVars
    <2> QED
      BY <2>1, SentBefore
  <1>2. CASE Notify \/ PrevalidatePayment \/ BuildParts \/ MergeAgain \/ PlanEvents \/ Touch
    BY <1>2, SentNotify, SentPrevalidate, SentBuild, SentAgain, SentPlan, SentTouch
  <1>3. CASE File
    BY <1>3, SentStays DEF File, sheetVars, mergeVars, lostVars
  <1>4. CASE Report
    BY <1>4, SentStays DEF Report, trailVars, sheetVars, mergeVars, lostVars
  <1>5. CASE UNCHANGED vars
    BY <1>5, SentStays DEF vars, trailVars, sheetVars, mergeVars, lostVars
  <1> QED
    BY <1>1, <1>2, <1>3, <1>4, <1>5 DEF Next, TrailNext

LEMMA WholeAlways == Spec => []WholeInv
  BY WholeInit, WholeStep, PTL DEF Spec

\* Behind a merge told as a success no extract is bundled that the
\* notification had not before it, and in a PDF of the merge's own none that it
\* sent is missing: for every tree and payment, whichever calls failed, however
\* often the merge was called, and also when accounting has moved, added or
\* deleted one extract since generate.  (_merge_completed_enrichment)
THEOREM SentAreMerged == Spec => []SentIsMerged
  <1>1. SentMergedInv => SentIsMerged
    BY DEF SentMergedInv
  <1> QED
    BY TypeAlways, WholeAlways, ReadAlways, SentInit, SentStep, <1>1, PTL DEF Spec

-----------------------------------------------------------------------------
(***************************************************************************)
(* The table of an asiento.                                                *)
(***************************************************************************)
\* The asientos taken are from the folders of their lines, and nothing is taken
\* or planned before its time.
BundleInv ==
    /\ stage \notin {"build", "merged", "planned"} => taken = Empty
    /\ stage # "planned" => plan = {}
    /\ \A i \in DOMAIN taken : taken[i].asientos \subseteq InFolder(i)

TableInv == BundleInv /\ TableOfLine

LEMMA TableInit == Init => TableInv
  BY DEF Init, TableInv, BundleInv, TableOfLine, Empty

\* A step that plans nothing and leaves what is taken alone.
LEMMA TableStays ==
    ASSUME TableInv, UNCHANGED <<name, lines, filed, taken, plan, told, stage>>
    PROVE  TableInv'
  <1>1. \A i : InFolder(i)' = InFolder(i)
    BY FolderStays
  <1> QED
    BY <1>1 DEF TableInv, BundleInv, TableOfLine

LEMMA TableBefore ==
    ASSUME TableInv, stage \notin {"build", "merged", "planned"},
           stage' \notin {"build", "merged", "planned"}, UNCHANGED <<taken, plan>>
    PROVE  TableInv'
  BY DEF TableInv, BundleInv, TableOfLine, Empty

LEMMA TablePrevalidate == TypeInv /\ TableInv /\ PrevalidatePayment => TableInv'
  <1> SUFFICES ASSUME TypeInv, TableInv, PrevalidatePayment PROVE TableInv'
    OBVIOUS
  <1>1. /\ UNCHANGED <<name, lines, valid, filed, plan>>
        /\ stage = "final" /\ stage' = "build"
        /\ \A i \in DOMAIN taken' : taken'[i].asientos = Accepted(i)
    BY DEF PrevalidatePayment, sheetVars, treeVars
  <1>2. plan = {}
    BY <1>1 DEF TableInv, BundleInv
  <1>3. \A i : InFolder(i)' = InFolder(i)
    BY <1>1, FolderStays
  <1>4. \A i \in DOMAIN taken' : taken'[i].asientos \subseteq InFolder(i)
    BY <1>1 DEF Accepted
  <1> QED
    BY <1>1, <1>2, <1>3, <1>4 DEF TableInv, BundleInv, TableOfLine, Empty

LEMMA TableBuild == TableInv /\ (BuildParts \/ MergeAgain) => TableInv'
  <1> SUFFICES ASSUME TableInv, BuildParts \/ MergeAgain PROVE TableInv'
    OBVIOUS
  <1>1. /\ UNCHANGED <<name, lines, filed, plan>> /\ plan = {}
        /\ taken' = taken \/ taken' = Empty
        /\ stage' = "final" => taken' = Empty
    BY DEF BuildParts, MergeAgain, sheetVars, treeVars, TableInv, BundleInv
  <1>2. \A i : InFolder(i)' = InFolder(i)
    BY <1>1, FolderStays
  <1>3. \A i \in DOMAIN taken' : taken'[i].asientos \subseteq InFolder(i)
    BY <1>1 DEF TableInv, BundleInv, Empty
  <1>4. stage' \in {"merged", "final"}
    BY DEF BuildParts, MergeAgain
  <1> QED
    BY <1>1, <1>2, <1>3, <1>4 DEF TableInv, BundleInv, TableOfLine, Empty

LEMMA TablePlan == TypeInv /\ TableInv /\ PlanEvents => TableInv'
  <1> SUFFICES ASSUME TypeInv, TableInv, PlanEvents PROVE TableInv'
    OBVIOUS
  <1>1. /\ UNCHANGED <<name, lines, filed, taken>> /\ stage = "merged" /\ stage' = "planned"
        /\ plan' = UNION {{[line |-> i, asiento |-> a, table |-> TableFor(taken[i].number)] :
                              a \in taken[i].asientos} : i \in DOMAIN taken}
        /\ told' = [told EXCEPT !["dryrun"] =
                      DryRunSeverity(plan' # {}, \E e \in plan' : e.table = None)]
    BY DEF PlanEvents, sheetVars, treeVars, mergeVars
  <1>2. \A i : InFolder(i)' = InFolder(i)
    BY <1>1, FolderStays
  <1>3. lines \in Seq(Line) /\ told \in [{"merge", "dryrun"} -> Severities \cup {None}]
    BY DEF TypeInv, SheetInv, MergeInv
  <1>4. TableOfLine'
    <2> SUFFICES ASSUME NEW e \in plan'
                 PROVE
            /\ told'["dryrun"] = "success" => e.table # None
            /\ e.table # None
               /\ (\A j \in DOMAIN lines \ {e.line} : lines[j].key # Number(taken[e.line].number))
               => e.table = e.asiento.folder.unit
      BY <1>1 DEF TableOfLine
    <2>1. PICK i \in DOMAIN taken : \E a \in taken[i].asientos :
             e = [line |-> i, asiento |-> a, table |-> TableFor(taken[i].number)]
      BY <1>1
    <2>2. PICK a \in taken[i].asientos :
             e = [line |-> i, asiento |-> a, table |-> TableFor(taken[i].number)]
      BY <2>1
    <2>3. ASSUME told'["dryrun"] = "success" PROVE e.table # None
      <3>1. DryRunSeverity(plan' # {}, \E x \in plan' : x.table = None) = "success"
        BY <1>1, <1>3, <2>3
      <3> QED
        BY <3>1 DEF DryRunSeverity
    <2>4. ASSUME e.table # None,
                 \A j \in DOMAIN lines \ {e.line} : lines[j].key # Number(taken[e.line].number)
          PROVE  e.table = e.asiento.folder.unit
      <3> DEFINE n == taken[i].number
      <3>1. e.line = i /\ e.asiento = a /\ e.table = TableFor(n)
        BY <2>2
      <3>2. HistRow(n) # None /\ TableFor(n) = lines[HistRow(n)].unit
        BY <2>4, <3>1 DEF TableFor
      <3>3. HistRow(n) \in DOMAIN lines /\ lines[HistRow(n)].key = Number(n)
        BY <1>3, <3>2, HistRowIs
      <3>4. HistRow(n) = i
        BY <2>4, <3>1, <3>3
      <3>5. a.folder = FolderOf(lines[i])
        BY <2>2 DEF TableInv, BundleInv, InFolder
      <3>6. a.folder.unit = lines[i].unit
        BY <3>5 DEF FolderOf
      <3> QED
        BY <3>1, <3>2, <3>4, <3>6
    <2> QED
      BY <2>3, <2>4
  <1> QED
    BY <1>1, <1>2, <1>4 DEF TableInv, BundleInv

LEMMA TableStep == TypeInv /\ TableInv /\ [Next]_vars => TableInv'
  <1> SUFFICES ASSUME TypeInv, TableInv, [Next]_vars PROVE TableInv'
    OBVIOUS
  <1>1. CASE ListClient \/ ListFolder \/ UnitsKnown \/ OpenUnit \/ ReadUnit \/ LegacyUnit
             \/ GenerateEnds \/ Approve \/ Finalize \/ MissingExtractRoute \/ Notify \/ File
    <2>1. /\ stage \notin {"build", "merged", "planned"}
          /\ stage' \notin {"build", "merged", "planned"}
          /\ UNCHANGED <<taken, plan>>
      BY <1>1 DEF ListClient, ListFolder, UnitsKnown, OpenUnit, ReadUnit, LegacyUnit, GenerateEnds,
                  Approve, Finalize, MissingExtractRoute, Notify, File, mergeVars
    <2> QED
      BY <2>1, TableBefore
  <1>2. CASE PrevalidatePayment \/ BuildParts \/ MergeAgain \/ PlanEvents
    BY <1>2, TablePrevalidate, TableBuild, TablePlan
  <1>3. CASE Touch
    BY <1>3, TableStays DEF Touch, Move, trailVars, sheetVars, mergeVars
  <1>4. CASE Report
    BY <1>4, TableStays DEF Report, treeVars, trailVars, sheetVars, mergeVars
  <1>5. CASE UNCHANGED vars
    BY <1>5, TableStays DEF vars, treeVars, trailVars, sheetVars, mergeVars
  <1> QED
    BY <1>1, <1>2, <1>3, <1>4, <1>5 DEF Next, TrailNext

\* An asiento is planned into the table of the unit in whose folder it was
\* filed, for every workbook, unless another line has the number the merge
\* gave its own; and a dry run told as a success has found them all.
\* (_load_historical_index, _find_hist_row)
THEOREM TablesOfLines == Spec => []TableOfLine
  <1>1. TableInv => TableOfLine
    BY DEF TableInv
  <1> QED
    BY TypeAlways, TableInit, TableStep, <1>1, PTL DEF Spec

-----------------------------------------------------------------------------
(***************************************************************************)
(* Every unit gets one outcome, in its turn.                               *)
(***************************************************************************)
Lined(u)  == \E i \in DOMAIN lines : lines[i].unit = u
Issued(u) == \E s \in issues : s[1] = u

\* No unit has two lines, two entries of sheet Errores, or both.
OnceInv ==
    /\ \A i, j \in DOMAIN lines : lines[i].unit = lines[j].unit => i = j
    /\ \A s, t \in issues : s[1] = t[1] => s = t
    /\ \A u \in Units : ~(Lined(u) /\ Issued(u))

\* The units before the one in turn have theirs, the others have none yet.
TurnInv ==
    /\ stage \in {"report", "start", "list"} => lines = <<>> /\ issues = {}
    /\ stage = "start" => at = 1
    /\ stage \in {"unit", "read"} =>
          \A k \in DOMAIN UnitOrder :
             Lined(UnitOrder[k]) \/ Issued(UnitOrder[k]) <=> k < at
    /\ Scanned /\ ~GaveUp =>
          \A k \in DOMAIN UnitOrder : Lined(UnitOrder[k]) \/ Issued(UnitOrder[k])

\* While accounting leaves the tree alone no folder that is a unit is missed.
ListedInv ==
    moves = 0 =>
        /\ stage = "list" =>
              \A k \in 1 .. at - 1 :
                 Operational(Folders[k]) => listed[Folders[k]] # None
        /\ stage \notin {"report", "start", "list"} =>
              \A f \in Range(Folders) : Operational(f) => listed[f] # None

CoverInv == OnceInv /\ TurnInv /\ ListedInv

LEMMA OutcomesSame ==
    ASSUME UNCHANGED <<lines, issues>>, NEW u
    PROVE  Lined(u)' = Lined(u) /\ Issued(u)' = Issued(u)
  BY DEF Lined, Issued

LEMMA OperationalSame ==
    ASSUME UNCHANGED treeVars, NEW u
    PROVE  Operational(u)' = Operational(u)
  BY TreeSame DEF Operational, OperationalSignal, treeVars

\* A listing is never taken for the mark of a folder that is no unit.
LEMMA FilesAreSome == ASSUME NEW p PROVE FilesAt(p) # None
  BY TrailAssumption, DocsAt(p) \in SUBSET Extracts DEF FilesAt, DocsAt

LEMMA OnceIs ==
    ASSUME TypeInv, OnceInv, NEW u \in Units, Lined(u) \/ Issued(u)
    PROVE  Outcomes(u) = 1
  <1> DEFINE L == {i \in DOMAIN lines : lines[i].unit = u}
             S == {s \in issues : s[1] = u}
  <1>1. CASE Lined(u)
    <2>1. PICK i \in DOMAIN lines : L = {i}
      BY <1>1 DEF Lined, OnceInv
    <2>2. S = {}
      BY <1>1 DEF OnceInv, Issued
    <2> HIDE DEF L, S
    <2>3. Cardinality(L) = 1 /\ Cardinality(S) = 0
      BY <2>1, <2>2, FS_Singleton, FS_EmptySet
    <2> QED
      BY <2>3 DEF Outcomes, L, S
  <1>2. CASE Issued(u)
    <2>1. PICK s \in issues : S = {s}
      BY <1>2 DEF Issued, OnceInv
    <2>2. L = {}
      BY <1>2 DEF OnceInv, Lined
    <2> HIDE DEF L, S
    <2>3. Cardinality(L) = 0 /\ Cardinality(S) = 1
      BY <2>1, <2>2, FS_Singleton, FS_EmptySet
    <2> QED
      BY <2>3 DEF Outcomes, L, S
  <1> QED
    BY <1>1, <1>2

LEMMA CoverCovers == TypeInv /\ ReadInv /\ CoverInv => NothingOverlooked
  <1> SUFFICES ASSUME TypeInv, ReadInv, CoverInv, Scanned, moves = 0, ~GaveUp, NEW u \in Units
               PROVE
            LET own   == DocsAt(Own(u)) # {}
                inner == DocsAt(Inner(u)) # {}
            IN IF u # Client
               THEN name[u].word # "infra" /\ (own \/ inner) => Outcomes(u) = 1
               ELSE own \/ (inner /\ Flat) => Outcomes(u) = 1
    BY DEF NothingOverlooked
  <1>1. \A p : FilesAt(p) = {} => DocsAt(p) = {}
    BY DEF FilesAt
  <1>2. \A k \in DOMAIN UnitOrder : Lined(UnitOrder[k]) \/ Issued(UnitOrder[k])
    BY DEF CoverInv, TurnInv
  <1>3. (\E k \in DOMAIN UnitOrder : UnitOrder[k] = u) => Outcomes(u) = 1
    BY <1>2, OnceIs DEF CoverInv
  <1>4. stage \notin {"report", "start", "list"}
    BY DEF Scanned
  <1>5. listed \in [Units -> (SUBSET Nat) \cup {None}]
    BY DEF TypeInv, ScanInv
  <1>6. CASE u # Client
    <2>1. u \in Range(Folders)
      BY <1>6 DEF Units
    <2>2. ASSUME name[u].word # "infra", DocsAt(Own(u)) # {} \/ DocsAt(Inner(u)) # {}
          PROVE  Outcomes(u) = 1
      <3>1. Operational(u)
        BY <1>1, <2>2 DEF Operational, OperationalSignal
      <3>2. listed[u] # None
        BY <1>4, <2>1, <3>1 DEF CoverInv, ListedInv
      <3> QED
        BY <1>3, <1>5, <2>1, <3>2, UnitOrderIs
    <2> QED
      BY <1>6, <2>2
  <1>7. CASE u = Client
    <2>1. DocsAt(Own(Client)) # {} => listed[Client] # {}
      BY <1>1, <1>4 DEF ReadInv, RestInv
    <2>2. Flat \/ listed[Client] # {} => Outcomes(u) = 1
      BY <1>3, <1>5, <1>7, UnitOrderIs
    <2> QED
      BY <1>7, <2>1, <2>2
  <1> QED
    BY <1>6, <1>7

\* A step that leaves each unit its outcome, and no new one in turn.
LEMMA CoverStays ==
    ASSUME CoverInv, UNCHANGED <<rule, listed, issues>>,
           UNCHANGED treeVars \/ moves' # 0,
           DOMAIN lines' = DOMAIN lines,
           \A i \in DOMAIN lines : lines'[i].unit = lines[i].unit,
           \/ UNCHANGED <<stage, at, lines>>
           \/ stage = "unit" /\ stage' = "read" /\ at' = at
           \/ Scanned /\ Scanned' /\ stage # "nothing" /\ stage' # "nothing"
    PROVE  CoverInv'
  <1>1. \A u : Lined(u)' = Lined(u) /\ Issued(u)' = Issued(u)
    BY DEF Lined, Issued
  <1>2. UnitOrder' = UnitOrder
    BY UnitOrderStays
  <1>3. OnceInv'
    BY <1>1 DEF CoverInv, OnceInv
  <1>4. TurnInv'
    BY <1>1, <1>2 DEF CoverInv, TurnInv, Scanned, GaveUp
  <1>5. ListedInv'
    BY OperationalSame DEF CoverInv, ListedInv, Scanned, treeVars
  <1> QED
    BY <1>3, <1>4, <1>5 DEF CoverInv

LEMMA CoverInit == Init => CoverInv
  BY DEF Init, CoverInv, OnceInv, TurnInv, ListedInv, Scanned, Lined, Issued

LEMMA NoneYet ==
    ASSUME lines = <<>>, issues = {}
    PROVE  OnceInv /\ \A u : ~Lined(u) /\ ~Issued(u)
  BY DEF OnceInv, Lined, Issued

LEMMA CoverListing ==
    ASSUME TypeInv, CoverInv, ListClient \/ ListFolder
    PROVE  CoverInv'
  <1>1. /\ UNCHANGED <<treeVars, lines, issues>> /\ lines = <<>> /\ issues = {}
        /\ stage' = "list" /\ listed \in [Units -> (SUBSET Nat) \cup {None}]
        /\ at \in Nat
    BY TreeAssumption DEF ListClient, ListFolder, CoverInv, TurnInv, TypeInv, ScanInv, sheetVars
  <1>2. OnceInv'
    BY <1>1 DEF OnceInv, Lined, Issued
  <1>3. TurnInv'
    BY <1>1 DEF TurnInv, Scanned
  <1>4. ListedInv'
    <2>1. CASE ListClient
      BY <2>1 DEF ListClient, CoverInv, TurnInv, ListedInv
    <2>2. CASE ListFolder
      <3> SUFFICES ASSUME moves = 0, NEW k \in 1 .. at, Operational(Folders[k])
                   PROVE  listed'[Folders[k]] # None
        BY <1>1, <2>2, OperationalSame DEF ListFolder, ListedInv, treeVars
      <3>1. PICK v \in {FilesAt(Own(Folders[at])), None} :
               /\ listed' = [listed EXCEPT ![Folders[at]] = v]
               /\ Operational(Folders[at]) => v # None
        BY <2>2, FilesAreSome DEF ListFolder
      <3>2. Folders[k] \in Units
        <4>1. Len(Folders) \in Nat /\ DOMAIN Folders = 1 .. Len(Folders)
          BY TreeAssumption
        <4>2. k \in DOMAIN Folders
          BY <1>1, <2>2, <4>1 DEF ListFolder
        <4> QED
          BY <4>2 DEF Range, Units
      <3>3. listed'[Folders[k]] = IF Folders[k] = Folders[at] THEN v ELSE listed[Folders[k]]
        BY <1>1, <3>1, <3>2
      <3>4. CASE k = at
        BY <3>1, <3>3, <3>4
      <3>5. CASE k # at
        <4>1. k \in 1 .. at - 1
          BY <1>1, <3>5
        <4>2. listed[Folders[k]] # None
          BY <2>2, <4>1 DEF ListFolder, CoverInv, ListedInv
        <4> QED
          BY <3>1, <3>3, <4>2
      <3> QED
        BY <3>4, <3>5
    <2> QED
      BY <2>1, <2>2
  <1> QED
    BY <1>2, <1>3, <1>4 DEF CoverInv

LEMMA CoverUnitsKnown == TypeInv /\ CoverInv /\ UnitsKnown => CoverInv'
  <1> SUFFICES ASSUME TypeInv, CoverInv, UnitsKnown PROVE CoverInv'
    OBVIOUS
  <1>1. /\ UNCHANGED <<treeVars, lines, issues, listed>> /\ lines = <<>> /\ issues = {}
        /\ stage = "list" /\ stage' = "unit" /\ at' = 1 /\ at > Len(Folders)
        /\ listed \in [Units -> (SUBSET Nat) \cup {None}] /\ at \in Nat
    BY TreeAssumption DEF UnitsKnown, CoverInv, TurnInv, TypeInv, ScanInv, sheetVars
  <1>2. OnceInv' /\ \A u : ~Lined(u)' /\ ~Issued(u)'
    BY <1>1 DEF OnceInv, Lined, Issued
  <1>3. TurnInv'
    <2>1. \A k \in DOMAIN UnitOrder : ~(k < 1)
      BY <1>1, UnitOrderIs
    <2> QED
      BY <1>1, <1>2, <2>1, UnitOrderStays DEF TurnInv, Scanned
  <1>4. ListedInv'
    <2> SUFFICES ASSUME moves = 0, NEW f \in Range(Folders), Operational(f)
                 PROVE  listed[f] # None
      BY <1>1, OperationalSame DEF ListedInv, treeVars
    <2>1. Len(Folders) \in Nat /\ DOMAIN Folders = 1 .. Len(Folders)
      BY TreeAssumption
    <2>2. PICK k \in DOMAIN Folders : Folders[k] = f
      BY DEF Range
    <2>3. k \in 1 .. at - 1
      BY <1>1, <2>1
    <2> QED
      BY <1>1, <2>2, <2>3 DEF CoverInv, ListedInv
  <1> QED
    BY <1>2, <1>3, <1>4 DEF CoverInv

\* The unit in turn is given a line or an entry, and the turn passes on.
LEMMA CoverTurn ==
    ASSUME TypeInv, CoverInv, stage \in {"unit", "read"}, at \in DOMAIN UnitOrder,
           UNCHANGED <<treeVars, rule, listed>>, stage' = "unit", at' = at + 1,
           \/ UNCHANGED issues /\ \E l : l.unit = UnitOrder[at] /\ lines' = Append(lines, l)
           \/ UNCHANGED lines /\ \E code : issues' = issues \cup {<<UnitOrder[at], code>>}
    PROVE  CoverInv'
  <1>0. PICK u : u = UnitOrder[at]
    OBVIOUS
  <1>1. lines \in Seq(Line) /\ listed \in [Units -> (SUBSET Nat) \cup {None}] /\ at \in Nat
    BY TreeAssumption DEF TypeInv, SheetInv, ScanInv
  <1>2. /\ DOMAIN UnitOrder \subseteq Nat /\ u \in Units
        /\ \A k \in DOMAIN UnitOrder : UnitOrder[k] = u => k = at
    <2>1. UnitOrder \in Seq(Units) /\ \A k \in DOMAIN UnitOrder : UnitOrder[k] = u => k = at
      BY <1>0, <1>1, UnitOrderIs
    <2> QED
      BY <1>0, <2>1
  <1>3. ~Lined(u) /\ ~Issued(u)
    BY <1>0, <1>1 DEF CoverInv, TurnInv
  <1>4. /\ OnceInv'
        /\ \A v : Lined(v)' \/ Issued(v)' <=> Lined(v) \/ Issued(v) \/ v = u
    <2>1. ASSUME UNCHANGED issues, NEW l, l.unit = u, lines' = Append(lines, l)
          PROVE  /\ OnceInv'
                 /\ \A v : Lined(v)' \/ Issued(v)' <=> Lined(v) \/ Issued(v) \/ v = u
      <3>1. /\ DOMAIN lines' = 1 .. Len(lines) + 1 /\ DOMAIN lines = 1 .. Len(lines)
            /\ Len(lines) \in Nat /\ lines'[Len(lines) + 1] = l
            /\ \A i \in DOMAIN lines : lines'[i] = lines[i]
            /\ \A i \in DOMAIN lines' : i = Len(lines) + 1 \/ i \in DOMAIN lines
        BY <1>1, <2>1, AppendIs
      <3>2. ASSUME NEW v PROVE Lined(v)' <=> Lined(v) \/ v = u
        <4>1. Lined(v)' => Lined(v) \/ v = u
          BY <2>1, <3>1 DEF Lined
        <4>2. Lined(v) => Lined(v)'
          BY <3>1 DEF Lined
        <4>3. Len(lines) + 1 \in DOMAIN lines' /\ lines'[Len(lines) + 1].unit = u
          <5>1. Len(lines) + 1 \in DOMAIN lines'
            BY <3>1
          <5>2. l.unit = u
            BY <2>1
          <5>3. lines'[Len(lines) + 1] = l
            BY <3>1
          <5> QED
            BY <5>1, <5>2, <5>3
        <4>4. Lined(u)'
          BY <4>3 DEF Lined
        <4> QED
          BY <4>1, <4>2, <4>4
      <3>3. \A v : Issued(v)' <=> Issued(v)
        BY <2>1 DEF Issued
      <3>4. \A i \in DOMAIN lines : lines[i].unit # u
        BY <1>3 DEF Lined
      <3>5. \A i, j \in DOMAIN lines' : lines'[i].unit = lines'[j].unit => i = j
        <4>1. \A i \in DOMAIN lines : lines'[i].unit = lines[i].unit
          BY <3>1
        <4>2. lines'[Len(lines) + 1].unit = u
          BY <2>1, <3>1
        <4>3. \A i, j \in DOMAIN lines : lines[i].unit = lines[j].unit => i = j
          BY DEF CoverInv, OnceInv
        <4> QED
          BY <3>1, <3>4, <4>1, <4>2, <4>3
      <3> QED
        BY <1>3, <2>1, <3>2, <3>3, <3>5 DEF CoverInv, OnceInv
    <2>2. ASSUME UNCHANGED lines, NEW code, issues' = issues \cup {<<u, code>>}
          PROVE  /\ OnceInv'
                 /\ \A v : Lined(v)' \/ Issued(v)' <=> Lined(v) \/ Issued(v) \/ v = u
      <3>1. \A v : Lined(v)' <=> Lined(v)
        BY <2>2 DEF Lined
      <3>2. ASSUME NEW v PROVE Issued(v)' <=> Issued(v) \/ v = u
        <4>1. <<u, code>>[1] = u
          OBVIOUS
        <4> QED
          BY <2>2, <4>1 DEF Issued
      <3>3. \A s, t \in issues' : s[1] = t[1] => s = t
        BY <1>3, <2>2 DEF CoverInv, OnceInv, Issued
      <3> QED
        BY <1>3, <2>2, <3>1, <3>2, <3>3 DEF CoverInv, OnceInv
    <2> QED
      BY <1>0, <2>1, <2>2
  <1>5. TurnInv'
    <2>1. \A k \in DOMAIN UnitOrder :
             Lined(UnitOrder[k]) \/ Issued(UnitOrder[k]) <=> k < at
      BY DEF CoverInv, TurnInv
    <2>2. \A k \in DOMAIN UnitOrder : k < at + 1 <=> k < at \/ k = at
      BY <1>1, <1>2
    <2>3. \A k \in DOMAIN UnitOrder :
             Lined(UnitOrder[k])' \/ Issued(UnitOrder[k])' <=> k < at + 1
      <3> SUFFICES ASSUME NEW k \in DOMAIN UnitOrder
                   PROVE  Lined(UnitOrder[k])' \/ Issued(UnitOrder[k])' <=> k < at + 1
        OBVIOUS
      <3>1. UnitOrder[k] = u <=> k = at
        BY <1>0, <1>2
      <3>2. UnitOrder' = UnitOrder
        BY UnitOrderStays
      <3> QED
        BY <1>4, <2>1, <2>2, <3>1, <3>2
    <2> QED
      BY <2>3, UnitOrderStays DEF TurnInv, Scanned
  <1>6. ListedInv'
    BY OperationalSame DEF CoverInv, ListedInv, treeVars
  <1> QED
    BY <1>4, <1>5, <1>6 DEF CoverInv

LEMMA CoverReadUnit == TypeInv /\ CoverInv /\ ReadUnit => CoverInv'
  <1> SUFFICES ASSUME TypeInv, CoverInv, ReadUnit PROVE CoverInv'
    OBVIOUS
  <1>1. /\ UNCHANGED <<treeVars, rule, listed>> /\ stage = "read" /\ stage' = "unit"
        /\ at' = at + 1 /\ at \in DOMAIN UnitOrder
    BY DEF ReadUnit, bankVars, TypeInv, ScanInv
  <1>2. \A u, path : Candidate(u, path).unit = u
    BY DEF Candidate
  <1>3. \/ UNCHANGED issues /\ \E l : l.unit = UnitOrder[at] /\ lines' = Append(lines, l)
        \/ UNCHANGED lines /\ \E code : issues' = issues \cup {<<UnitOrder[at], code>>}
    BY <1>2 DEF ReadUnit
  <1> QED
    BY <1>1, <1>3, CoverTurn

LEMMA CoverLegacyUnit == TypeInv /\ CoverInv /\ LegacyUnit => CoverInv'
  <1> SUFFICES ASSUME TypeInv, CoverInv, LegacyUnit PROVE CoverInv'
    OBVIOUS
  <1>1. /\ UNCHANGED <<treeVars, rule, listed>> /\ stage = "unit" /\ rule = "legacy"
        /\ at \in DOMAIN UnitOrder
    <2>1. listed \in [Units -> (SUBSET Nat) \cup {None}] /\ at \in Nat /\ at >= 1
      BY TreeAssumption DEF TypeInv, ScanInv
    <2> QED
      BY <2>1, UnitOrderIs DEF LegacyUnit, bankVars
  <1>2. \A u, path : LegacyCandidate(u, path).unit = u
    BY DEF LegacyCandidate, Candidate
  <1>3. \/ /\ stage' = stage /\ at' = at + 1
           /\ \/ UNCHANGED issues /\ \E l : l.unit = UnitOrder[at] /\ lines' = Append(lines, l)
              \/ UNCHANGED lines /\ \E code : issues' = issues \cup {<<UnitOrder[at], code>>}
        \/ stage' = "nothing" /\ lines' = <<>> /\ issues' = {}
    BY <1>2 DEF LegacyUnit
  <1>4. CASE stage' = "nothing" /\ lines' = <<>> /\ issues' = {}
    <2>1. OnceInv'
      BY <1>4 DEF OnceInv, Lined, Issued
    <2>2. TurnInv'
      BY <1>1, <1>4 DEF TurnInv, GaveUp
    <2>3. ListedInv'
      BY <1>1, <1>4, OperationalSame DEF CoverInv, ListedInv, treeVars
    <2> QED
      BY <2>1, <2>2, <2>3 DEF CoverInv
  <1> QED
    BY <1>1, <1>3, <1>4, CoverTurn

\* Lines of different units have different paths: nothing is taken for a
\* duplicate.
LEMMA DedupeKeeps ==
    ASSUME TypeInv, ReadInv, CoverInv, stage = "unit"
    PROVE  /\ \A i, j \in DOMAIN Dedupe(lines) :
                 Dedupe(lines)[i].unit = Dedupe(lines)[j].unit => i = j
           /\ \A u : (\E i \in DOMAIN Dedupe(lines) : Dedupe(lines)[i].unit = u) <=> Lined(u)
  <1>1. lines \in Seq(Line) /\ cleared = {}
    BY DEF TypeInv, SheetInv, Unapproved
  <1>2. \A i, j \in DOMAIN lines : lines[i].ruta = lines[j].ruta => i = j
    <2> SUFFICES ASSUME NEW i \in DOMAIN lines, NEW j \in DOMAIN lines,
                        lines[i].ruta = lines[j].ruta
                 PROVE  i = j
      OBVIOUS
    <2>1. lines[i].link = lines[j].link
      BY <1>1 DEF ReadInv, RutaInv, Routed
    <2>2. \A u, v : Own(u) = Own(v) \/ Own(u) = Inner(v) \/ Inner(u) = Own(v)
                      \/ Inner(u) = Inner(v) => u = v
      BY DEF Own, Inner
    <2>3. lines[i].unit = lines[j].unit
      BY <2>1, <2>2 DEF ReadInv, PlaceInv
    <2> QED
      BY <2>3 DEF CoverInv, OnceInv
  <1>3. {i \in DOMAIN lines : \A j \in 1 .. i - 1 : lines[j].ruta # lines[i].ruta} = DOMAIN lines
    <2> SUFFICES ASSUME NEW i \in DOMAIN lines, NEW j \in 1 .. i - 1
                 PROVE  lines[j].ruta # lines[i].ruta
      OBVIOUS
    <2>1. j \in DOMAIN lines /\ j # i
      BY <1>1
    <2> QED
      BY <1>2, <2>1
  <1> DEFINE I == DOMAIN lines
             n == Cardinality(I)
  <1>4. Dedupe(lines) = Picked(lines, I)
    BY <1>3 DEF Dedupe
  <1>5. PICK r \in [1 .. n -> I] :
           /\ \A k \in 1 .. n : Picked(lines, I)[k] = lines[r[k]]
           /\ \A k, m \in 1 .. n : r[k] = r[m] => k = m
           /\ \A i \in I : \E k \in 1 .. n : r[k] = i
    <2>1. I \in SUBSET DOMAIN lines
      OBVIOUS
    <2> HIDE DEF I
    <2>2. \E r \in [1 .. Cardinality(I) -> I] :
             /\ \A k \in 1 .. Cardinality(I) : Picked(lines, I)[k] = lines[r[k]]
             /\ \A k, m \in 1 .. Cardinality(I) : r[k] = r[m] => k = m
             /\ \A i \in I : \E k \in 1 .. Cardinality(I) : r[k] = i
      BY <1>1, <2>1, PickedIs
    <2> QED
      BY <2>2
  <1>6. DOMAIN Dedupe(lines) = 1 .. n
    BY <1>4 DEF Picked
  <1> HIDE DEF n
  <1>7. \A k \in 1 .. n : r[k] \in DOMAIN lines /\ Dedupe(lines)[k] = lines[r[k]]
    BY <1>4, <1>5
  <1>8. \A i, j \in DOMAIN lines : lines[i].unit = lines[j].unit => i = j
    BY DEF CoverInv, OnceInv
  <1>9. \A i, j \in 1 .. n : Dedupe(lines)[i].unit = Dedupe(lines)[j].unit => i = j
    BY <1>5, <1>7, <1>8
  <1>10. ASSUME NEW u
         PROVE  (\E i \in 1 .. n : Dedupe(lines)[i].unit = u) <=> Lined(u)
    BY <1>5, <1>7 DEF Lined
  <1> QED
    BY <1>6, <1>9, <1>10

LEMMA CoverGenerateEnds == TypeInv /\ ReadInv /\ CoverInv /\ GenerateEnds => CoverInv'
  <1> SUFFICES ASSUME TypeInv, ReadInv, CoverInv, GenerateEnds PROVE CoverInv'
    OBVIOUS
  <1>1. /\ UNCHANGED <<treeVars, listed, issues>> /\ lines' = Dedupe(lines)
        /\ stage = "unit" /\ stage' \in {"nothing", "review"} /\ at > Len(UnitOrder)
        /\ listed \in [Units -> (SUBSET Nat) \cup {None}] /\ at \in Nat
    BY TreeAssumption DEF GenerateEnds, TypeInv, ScanInv
  <1>2. /\ \A u : Lined(u)' = Lined(u) /\ Issued(u)' = Issued(u)
        /\ \A i, j \in DOMAIN lines' : lines'[i].unit = lines'[j].unit => i = j
    BY <1>1, DedupeKeeps DEF Lined, Issued
  <1>3. OnceInv'
    BY <1>1, <1>2 DEF CoverInv, OnceInv
  <1>4. TurnInv'
    <2>1. \A k \in DOMAIN UnitOrder : k < at
      BY <1>1, UnitOrderIs
    <2>2. \A k \in DOMAIN UnitOrder : Lined(UnitOrder[k]) \/ Issued(UnitOrder[k])
      BY <1>1, <2>1 DEF CoverInv, TurnInv
    <2>3. UnitOrder' = UnitOrder
      BY <1>1, UnitOrderStays
    <2> QED
      BY <1>1, <1>2, <2>2, <2>3 DEF TurnInv
  <1>5. ListedInv'
    BY <1>1, OperationalSame DEF CoverInv, ListedInv, treeVars
  <1> QED
    BY <1>3, <1>4, <1>5 DEF CoverInv

\* What the secretary and finalize write into a line leaves its unit.
LEMMA CoverFill == TypeInv /\ CoverInv /\ (Approve \/ Finalize) => CoverInv'
  <1> SUFFICES ASSUME TypeInv, CoverInv, Approve \/ Finalize PROVE CoverInv'
    OBVIOUS
  <1>1. /\ UNCHANGED <<treeVars, rule, listed, issues>> /\ lines \in Seq(Line)
        /\ Scanned /\ Scanned' /\ stage # "nothing" /\ stage' # "nothing"
    BY DEF Approve, Finalize, bankVars, scanVars, TypeInv, SheetInv, Scanned, Stages
  <1>2. \E I, new : lines' = [i \in DOMAIN lines |->
                                IF i \in I THEN [lines[i] EXCEPT !.ruta = new[i]] ELSE lines[i]]
    <2>1. CASE Approve
      <3>1. PICK c \in SUBSET DOMAIN lines :
               lines' = [i \in DOMAIN lines |->
                           IF i \in c THEN [lines[i] EXCEPT !.ruta = None] ELSE lines[i]]
        BY <2>1 DEF Approve
      <3> DEFINE new == [i \in c |-> None]
      <3>2. \A i \in c : new[i] = None
        OBVIOUS
      <3> HIDE DEF new
      <3>3. lines' = [i \in DOMAIN lines |->
                        IF i \in c THEN [lines[i] EXCEPT !.ruta = new[i]] ELSE lines[i]]
        BY <3>1, <3>2
      <3> QED
        BY <3>3
    <2>2. CASE Finalize
      <3>0. PICK missed \in SUBSET cleared :
               lines' = [i \in DOMAIN lines |->
                           IF i \in valid
                           THEN [lines[i] EXCEPT !.ruta = ExtractRoute(lines[i], i \in missed)]
                           ELSE lines[i]]
        BY <2>2 DEF Finalize
      <3> DEFINE new == [i \in valid |-> ExtractRoute(lines[i], i \in missed)]
      <3>1. \A i \in valid : new[i] = ExtractRoute(lines[i], i \in missed)
        OBVIOUS
      <3> HIDE DEF new
      <3>2. lines' = [i \in DOMAIN lines |->
                        IF i \in valid THEN [lines[i] EXCEPT !.ruta = new[i]] ELSE lines[i]]
        BY <3>0, <3>1
      <3> QED
        BY <3>2
    <2> QED
      BY <2>1, <2>2
  <1>3. \A l \in Line : \A v : [l EXCEPT !.ruta = v].unit = l.unit
    BY DEF Line
  <1>4. DOMAIN lines' = DOMAIN lines /\ \A i \in DOMAIN lines : lines'[i].unit = lines[i].unit
    <2>1. \A i \in DOMAIN lines : lines[i] \in Line
      BY <1>1
    <2> QED
      BY <1>2, <1>3, <2>1
  <1> QED
    BY <1>1, <1>4, CoverStays

LEMMA CoverStep == TypeInv /\ ReadInv /\ CoverInv /\ [Next]_vars => CoverInv'
  <1> SUFFICES ASSUME TypeInv, ReadInv, CoverInv, [Next]_vars PROVE CoverInv'
    OBVIOUS
  <1>1. CASE ListClient \/ ListFolder \/ UnitsKnown \/ ReadUnit \/ LegacyUnit \/ GenerateEnds
             \/ Approve \/ Finalize
    BY <1>1, CoverListing, CoverUnitsKnown, CoverReadUnit, CoverLegacyUnit, CoverGenerateEnds,
       CoverFill
  <1>2. CASE OpenUnit
    BY <1>2, CoverStays DEF OpenUnit, bankVars, sheetVars
  <1>3. CASE MissingExtractRoute \/ Notify \/ File \/ PrevalidatePayment \/ BuildParts
             \/ MergeAgain \/ PlanEvents
    <2>1. /\ UNCHANGED <<treeVars, rule, listed, lines, issues>>
          /\ Scanned /\ Scanned' /\ stage # "nothing" /\ stage' # "nothing"
      BY <1>3 DEF MissingExtractRoute, Notify, File, PrevalidatePayment, BuildParts, MergeAgain, PlanEvents,
                  bankVars, scanVars, sheetVars, Scanned, Stages
    <2> QED
      BY <2>1, CoverStays
  <1>4. CASE Touch
    <2>1. moves' # 0 /\ UNCHANGED <<rule, listed, issues, stage, at, lines>>
      BY <1>4, TreeAssumption DEF Touch, Move, TypeInv, TreeInv, bankVars, trailVars, scanVars,
                                  sheetVars
    <2> QED
      BY <2>1, CoverStays
  <1>5. CASE Report
    BY <1>5, CoverStays DEF Report, trailVars, scanVars, sheetVars
  <1>6. CASE UNCHANGED vars
    BY <1>6, CoverStays DEF vars, bankVars, trailVars, scanVars, sheetVars
  <1> QED
    BY <1>1, <1>2, <1>3, <1>4, <1>5, <1>6 DEF Next, TrailNext

\* While accounting leaves the tree alone, generate gives every folder that
\* holds an extract, and the client's own, exactly one line or one entry in
\* Errores, for any number of folders with any names and under both rules.
\* (_load_credit_candidates)
THEOREM NoneOverlooked == Spec => []NothingOverlooked
  <1> QED
    BY TypeAlways, ReadAlways, CoverInit, CoverStep, CoverCovers, PTL DEF Spec
=============================================================================
