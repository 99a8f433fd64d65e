-------------------------- MODULE ReviewFlowProofs --------------------------
(***************************************************************************)
(* Proofs about ReviewFlow, for every set of bank payments, lines and      *)
(* contents, any number of generates and finalizes, one at a time or       *)
(* overlapping, any number of finalizes of other dates, and whichever      *)
(* calls fail.                                                             *)
(***************************************************************************)
EXTENDS ReviewFlow, FiniteSetTheorems, SequenceTheorems, TLAPS

-----------------------------------------------------------------------------
(* What a finalize does to the others                                      *)

Shapes ==
    /\ fpc \in [Finalizes -> FLabels]
    /\ at \in [Finalizes -> Nat \ {0}]
    /\ DOMAIN snap = Finalizes
    /\ DOMAIN existed = Finalizes
    /\ replaced \subseteq Finalizes

\* A step of a run leaves the control state and the locals of the others.
Frame(f) ==
    /\ \A g \in Finalizes \ {f} :
         fpc'[g] = fpc[g] /\ snap'[g] = snap[g] /\ at'[g] = at[g] /\ existed'[g] = existed[g]
    /\ folders \subseteq folders'
    /\ replaced \ {f} = replaced' \ {f}
    /\ fpc[f] # "history" => UNCHANGED history
    /\ exclusive' = exclusive

LEMMA StepsFrame ==
    ASSUME Shapes, NEW f \in Finalizes, Finalize(f)
    PROVE  Shapes' /\ Frame(f)
  <1> USE DEF Shapes, Frame, Goto, FLabels, FActive, ghost, mine
  <1>0. UNCHANGED exclusive
    BY DEF Finalize
  <1>1. CASE Read(f)
    BY <1>0, <1>1 DEF Read
  <1>2. CASE ListFolder(f)
    BY <1>0, <1>2 DEF ListFolder, NextLine
  <1>3. CASE PostFolder(f)
    BY <1>0, <1>3 DEF PostFolder, NextLine
  <1>4. CASE Routes(f)
    BY <1>0, <1>4 DEF Routes
  <1>5. CASE Exists(f)
    BY <1>0, <1>5 DEF Exists
  <1>6. CASE GetBook(f)
    BY <1>0, <1>6 DEF GetBook, NextBook
  <1>7. CASE PutBook(f)
    BY <1>0, <1>7 DEF PutBook, NextBook
  <1>8. CASE PutHistory(f)
    BY <1>0, <1>8 DEF PutHistory, Published
  <1>9. CASE PutSupport(f)
    BY <1>0, <1>9 DEF PutSupport, Ends
  <1>10. CASE FinalizeFails(f)
    BY <1>0, <1>10 DEF FinalizeFails, Ends, Published
  <1>11. QED
    BY <1>1, <1>2, <1>3, <1>4, <1>5, <1>6, <1>7, <1>8, <1>9, <1>10 DEF Finalize

\* Generates, the secretary and the other dates touch nothing these proofs
\* speak of.
LEMMA OthersFrame ==
    ASSUME \/ \E g \in Generates : Generate(g)
           \/ Secretary
           \/ \E e \in Elsewhere : FinalizeElsewhere(e)
           \/ UNCHANGED vars
    PROVE  UNCHANGED <<history, folders, fpc, snap, at, existed, exclusive,
                       replaced>>
  BY DEF Generate, Secretary, FinalizeElsewhere, vars, files, mine, ghost

-----------------------------------------------------------------------------
(* The published history                                                   *)

\* A run past the folders has all of them, one on its way those of the lines
\* before the one in turn.
Foldered == {"routes", "exists", "get", "put", "history", "support"}
Reached(f) == {i \in DOMAIN Lines : i < at[f] \/ fpc[f] \in Foldered}

Provisioned(f) ==
    /\ fpc[f] = "idle" => at[f] = 1
    /\ fpc[f] \in FActive =>
        /\ Accepted(snap[f])
        /\ \A i \in Reached(f) :
             Lines[i] \in Validated(snap[f]) => Lines[i][2] \in folders

Prepares == Shapes /\ (\A f \in Finalizes : Provisioned(f)) /\ PublishedIsUsable

LEMMA LinesAreIndexed ==
    ASSUME NEW r, NEW l \in Validated(r)
    PROVE  \E i \in DOMAIN Lines : Lines[i] = l
  BY DEF Validated, Present, LineSet, Range

LEMMA OthersProvisioned ==
    ASSUME Prepares, NEW f \in Finalizes, Finalize(f), NEW g \in Finalizes \ {f}
    PROVE  Provisioned(g)'
  <1>1. Frame(f)
    BY StepsFrame DEF Prepares
  <1>2. Provisioned(g)
    BY DEF Prepares
  <1>3. /\ fpc'[g] = fpc[g] /\ snap'[g] = snap[g] /\ at'[g] = at[g]
        /\ folders \subseteq folders'
    BY <1>1 DEF Frame
  <1>4. QED
    BY <1>2, <1>3 DEF Provisioned, Reached

LEMMA OwnProvisioned ==
    ASSUME Prepares, NEW f \in Finalizes, Finalize(f)
    PROVE  Provisioned(f)'
  <1> USE DEF Goto, FActive, Foldered, Provisioned, Reached
  <1>0. /\ fpc \in [Finalizes -> FLabels] /\ at \in [Finalizes -> Nat \ {0}]
        /\ DOMAIN snap = Finalizes
        /\ DOMAIN Lines = 1 .. Len(Lines) /\ Len(Lines) \in Nat
        /\ Provisioned(f)
    BY FlowAssumption DEF Prepares, Shapes
  <1>1. CASE Read(f)
    <2>1. CASE review # None /\ Accepted(review)
      <3>1. at'[f] = at[f] /\ snap'[f] = review /\ fpc'[f] = "folder"
        BY <1>0, <1>1, <2>1 DEF Read
      <3>2. at[f] = 1
        BY <1>0, <1>1 DEF Read
      <3>3. QED
        BY <1>0, <3>1, <3>2, <2>1
    <2>2. CASE ~(review # None /\ Accepted(review))
      BY <1>0, <1>1, <2>2 DEF Read
    <2>3. QED
      BY <2>1, <2>2
  <1>2. CASE ListFolder(f)
    <2>1. snap' = snap /\ folders' = folders
      BY <1>2 DEF ListFolder
    <2>2. CASE at[f] > Len(Lines)
      BY <1>0, <1>2, <2>1, <2>2 DEF ListFolder
    <2>3. CASE ~(at[f] > Len(Lines)) /\ Lines[at[f]] \in Validated(snap[f])
                                    /\ Lines[at[f]][2] \notin folders
      BY <1>0, <1>2, <2>1, <2>3 DEF ListFolder
    <2>4. CASE ~(at[f] > Len(Lines)) /\ ~(Lines[at[f]] \in Validated(snap[f])
                                         /\ Lines[at[f]][2] \notin folders)
      <3>1. fpc'[f] = "folder" /\ at'[f] = at[f] + 1 /\ fpc[f] = "folder"
        BY <1>0, <1>2, <2>4 DEF ListFolder, NextLine
      <3>2. \A i \in DOMAIN Lines : i < at[f] + 1 => i < at[f] \/ i = at[f]
        BY <1>0
      <3>3. QED
        BY <1>0, <2>1, <2>4, <3>1, <3>2
    <2>5. QED
      BY <2>2, <2>3, <2>4
  <1>3. CASE PostFolder(f)
    <2>1. /\ snap' = snap /\ folders \subseteq folders' /\ Lines[at[f]][2] \in folders'
          /\ fpc'[f] = "folder" /\ at'[f] = at[f] + 1 /\ fpc[f] = "post"
      BY <1>0, <1>3 DEF PostFolder, NextLine
    <2>2. \A i \in DOMAIN Lines : i < at[f] + 1 => i < at[f] \/ i = at[f]
      BY <1>0
    <2>3. QED
      BY <1>0, <2>1, <2>2
  <1>4. CASE Routes(f) \/ Exists(f) \/ GetBook(f) \/ PutBook(f) \/ PutHistory(f)
    BY <1>0, <1>4 DEF Routes, Exists, GetBook, PutBook, NextBook, PutHistory, Published, ghost
  <1>5. CASE PutSupport(f) \/ FinalizeFails(f)
    BY <1>0, <1>5 DEF PutSupport, FinalizeFails, Ends
  <1>6. QED
    BY <1>1, <1>2, <1>3, <1>4, <1>5 DEF Finalize

LEMMA PreparesInit == Init => Prepares
  <1> SUFFICES ASSUME Init PROVE Prepares
    OBVIOUS
  <1>1. Shapes
    BY DEF Init, Shapes, FLabels
  <1>2. ASSUME NEW f \in Finalizes PROVE Provisioned(f)
    BY DEF Init, Provisioned, FActive
  <1>3. PublishedIsUsable
    BY DEF Init, PublishedIsUsable
  <1>4. QED
    BY <1>1, <1>2, <1>3 DEF Prepares

LEMMA PreparesNext == Prepares /\ [Next]_vars => Prepares'
  <1> SUFFICES ASSUME Prepares, [Next]_vars PROVE Prepares'
    OBVIOUS
  <1>1. ASSUME NEW f \in Finalizes, Finalize(f) PROVE Prepares'
    <2>1. Shapes' /\ Frame(f)
      BY <1>1, StepsFrame DEF Prepares
    <2>2. ASSUME NEW g \in Finalizes PROVE Provisioned(g)'
      BY <1>1, OwnProvisioned, OthersProvisioned
    <2>3. PublishedIsUsable'
      <3>1. CASE UNCHANGED history
        BY <2>1, <3>1 DEF Prepares, PublishedIsUsable, Frame
      <3>2. CASE fpc[f] = "history" /\ history' # history
        <4>1. history' = snap[f] /\ folders' = folders
          BY <1>1, <3>2 DEF Finalize, Read, ListFolder, PostFolder, Routes, Exists, GetBook,
               PutBook, PutHistory, PutSupport, FinalizeFails, Published
        <4>2. Accepted(snap[f])
          BY <3>2 DEF Prepares, Provisioned, FActive
        <4>3. ASSUME NEW l \in Validated(snap[f]) PROVE l[2] \in folders
          <5>1. PICK i \in DOMAIN Lines : Lines[i] = l
            BY LinesAreIndexed
          <5>2. QED
            BY <3>2, <4>3, <5>1 DEF Prepares, Provisioned, FActive, Foldered, Reached
        <4>4. QED
          BY <4>1, <4>2, <4>3 DEF PublishedIsUsable
      <3>3. QED
        BY <2>1, <3>1, <3>2 DEF Frame
    <2>4. QED
      BY <2>1, <2>2, <2>3 DEF Prepares
  <1>2. CASE \/ \E g \in Generates : Generate(g)
             \/ Secretary
             \/ \E e \in Elsewhere : FinalizeElsewhere(e)
             \/ UNCHANGED vars
    BY <1>2, OthersFrame DEF Prepares, Shapes, Provisioned, Reached, PublishedIsUsable
  <1>3. QED
    BY <1>1, <1>2 DEF Next

\* The historical workbook merge and amortization read is always one that was
\* approved and adds up, and all folders of asientos it names exist, whatever
\* the secretary edits and however many finalizes overlap or fail.
THEOREM PublishedUsable == Spec => []PublishedIsUsable
  <1>1. Prepares => PublishedIsUsable
    BY DEF Prepares
  <1>2. QED
    BY <1>1, PreparesInit, PreparesNext, PTL DEF Spec

-----------------------------------------------------------------------------
(* Replaced histories                                                      *)

\* One run at a time: only the active one may change the history, so what it
\* saw at Exists holds until its put.
Alone == exclusive => \A f, g \in Finalizes :
           fpc[f] \in FActive /\ fpc[g] \in FActive => f = g
Saw(f) ==
    /\ exclusive /\ fpc[f] \in {"get", "put", "history"} => existed[f] = (history # None)
    /\ f \in replaced => fpc[f] \in {"support", "success", "failed"}
    /\ exclusive /\ f \in replaced /\ fpc[f] \in {"support", "success"} => existed[f]

Reports == Shapes /\ Alone /\ (\A f \in Finalizes : Saw(f))

LEMMA ReportsInit == Init => Reports
  BY DEF Init, Reports, Shapes, Alone, Saw, FActive, FLabels

LEMMA OwnSaw ==
    ASSUME Reports, NEW f \in Finalizes, Finalize(f)
    PROVE  Saw(f)'
  <1> USE DEF Saw, Goto, FActive, FLabels, ghost
  <1>0. /\ fpc \in [Finalizes -> FLabels] /\ DOMAIN existed = Finalizes
        /\ Saw(f)
        /\ exclusive' = exclusive
    BY DEF Reports, Shapes, Finalize
  <1>1. CASE Read(f)
    BY <1>0, <1>1 DEF Read
  <1>2. CASE ListFolder(f)
    BY <1>0, <1>2 DEF ListFolder, NextLine
  <1>3. CASE PostFolder(f)
    BY <1>0, <1>3 DEF PostFolder, NextLine
  <1>4. CASE Routes(f)
    BY <1>0, <1>4 DEF Routes
  <1>5. CASE Exists(f)
    BY <1>0, <1>5 DEF Exists
  <1>6. CASE GetBook(f)
    BY <1>0, <1>6 DEF GetBook, NextBook
  <1>7. CASE PutBook(f)
    BY <1>0, <1>7 DEF PutBook, NextBook
  <1>8. CASE PutHistory(f)
    BY <1>0, <1>8 DEF PutHistory, Published
  <1>9. CASE PutSupport(f)
    BY <1>0, <1>9 DEF PutSupport, Ends
  <1>10. CASE FinalizeFails(f)
    BY <1>0, <1>10 DEF FinalizeFails, Ends, Published
  <1>11. QED
    BY <1>1, <1>2, <1>3, <1>4, <1>5, <1>6, <1>7, <1>8, <1>9, <1>10 DEF Finalize

LEMMA AloneStays ==
    ASSUME Reports, NEW f \in Finalizes, Finalize(f)
    PROVE  Alone' /\ (exclusive => \A g \in Finalizes \ {f} : fpc[g] \notin FActive)
  <1> USE DEF Goto, FActive, FLabels
  <1>0. Frame(f) /\ Alone /\ fpc \in [Finalizes -> FLabels]
    BY StepsFrame DEF Reports, Shapes
  <1>1. CASE Read(f)
    <2>1. exclusive => \A g \in Finalizes : fpc[g] \notin FActive
      BY <1>1 DEF Read, Finalizing
    <2>2. QED
      BY <1>0, <2>1 DEF Alone, Frame
  <1>2. CASE ~Read(f)
    <2>1. fpc[f] \in FActive
      BY <1>2 DEF Finalize, ListFolder, PostFolder, Routes, Exists, GetBook, PutBook,
           PutHistory, PutSupport, FinalizeFails
    <2>2. QED
      BY <1>0, <2>1 DEF Alone, Frame
  <1>3. QED
    BY <1>1, <1>2

LEMMA ReportsNext == Reports /\ [Next]_vars => Reports'
  <1> SUFFICES ASSUME Reports, [Next]_vars PROVE Reports'
    OBVIOUS
  <1>1. ASSUME NEW f \in Finalizes, Finalize(f) PROVE Reports'
    <2>1. Shapes' /\ Frame(f)
      BY <1>1, StepsFrame DEF Reports
    <2>2. Alone' /\ (exclusive => \A g \in Finalizes \ {f} : fpc[g] \notin FActive)
      BY <1>1, AloneStays
    <2>3. Saw(f)'
      BY <1>1, OwnSaw
    <2>4. ASSUME NEW g \in Finalizes \ {f} PROVE Saw(g)'
      BY <2>1, <2>2 DEF Reports, Saw, Frame, FActive
    <2>5. QED
      BY <2>1, <2>2, <2>3, <2>4 DEF Reports
  <1>2. CASE \/ \E g \in Generates : Generate(g)
             \/ Secretary
             \/ \E e \in Elsewhere : FinalizeElsewhere(e)
             \/ UNCHANGED vars
    BY <1>2, OthersFrame DEF Reports, Shapes, Alone, Saw
  <1>3. QED
    BY <1>1, <1>2 DEF Next

\* While the finalize lock holds, a run that replaced the history of its date
\* and succeeded has answered that the file already existed.
THEOREM ReplacementIsReported == Spec => []ReplacementReported
  <1>1. Reports => ReplacementReported
    BY DEF Reports, Saw, ReplacementReported, Shapes, FinalizeSeverity
  <1>2. QED
    BY <1>1, ReportsInit, ReportsNext, PTL DEF Spec

-----------------------------------------------------------------------------
(* Sheets of follow-ups                                                    *)

Keyed(rows) == \A i, j \in DOMAIN rows : SameKey(rows[i], rows[j]) => i = j

\* The rows a sheet is put with: a finite set, one per payment and credit.
Rowset(new) ==
    /\ new \subseteq Pendiente
    /\ IsFiniteSet(new)
    /\ \A p, q \in new : SameKey(p, q) => p = q

LEMMA SetToSeqLists ==
    ASSUME NEW S, IsFiniteSet(S)
    PROVE  /\ SetToSeq(S) \in Seq(S)
           /\ \A i, j \in DOMAIN SetToSeq(S) : SetToSeq(S)[i] = SetToSeq(S)[j] => i = j
           /\ \A x \in S : \E i \in DOMAIN SetToSeq(S) : SetToSeq(S)[i] = x
  <1> DEFINE n == Cardinality(S)
             s == SetToSeq(S)
  <1>1. n \in Nat /\ ExistsBijection(1..n, S)
    BY FS_CardinalityType
  <1>2. \E f \in [1..n -> S] : IsInjective(f)
    BY <1>1 DEF ExistsBijection, Bijection, Injection
  <1>3. s \in [1..n -> S] /\ IsInjective(s)
    BY <1>2 DEF SetToSeq
  <1>4. s \in Surjection(1..n, S)
    <2>1. s \in Injection(1..n, S)
      BY <1>3 DEF Injection
    <2>2. Cardinality(1..n) = n
      BY <1>1, FS_Interval
    <2>3. QED
      BY <2>1, <2>2, FS_Injection
  <1>5. s \in Seq(S)
    BY <1>1, <1>3
  <1>6. QED
    BY <1>3, <1>4, <1>5 DEF IsInjective, Surjection

LEMMA SameKeyIsEquivalence ==
    ASSUME NEW p, NEW q, SameKey(p, q)
    PROVE  SameKey(q, p) /\ \A r : SameKey(q, r) => SameKey(p, r)
  BY DEF SameKey

\* What Upsert makes of a sheet: one with every row of the old one and of the
\* new ones, and no other, and without repeated keys if the old one had none.
LEMMA UpsertKeeps ==
    ASSUME NEW rows \in Seq(Pendiente), NEW new, Rowset(new)
    PROVE  /\ Upsert(rows, new) \in Seq(Pendiente)
           /\ Keyed(rows) => Keyed(Upsert(rows, new))
           /\ \A i \in DOMAIN rows : Has(Upsert(rows, new), rows[i])
           /\ \A p \in new : Has(Upsert(rows, new), p)
           /\ \A i \in DOMAIN Upsert(rows, new) :
                \/ Has(rows, Upsert(rows, new)[i])
                \/ \E p \in new : SameKey(p, Upsert(rows, new)[i])
  <1> DEFINE kept  == [i \in DOMAIN rows |->
                         IF \E p \in new : SameKey(p, rows[i])
                         THEN CHOOSE p \in new : SameKey(p, rows[i])
                         ELSE rows[i]]
             extra == {p \in new : ~Has(rows, p)}
             added == SetToSeq(extra)
             both  == Upsert(rows, new)
             n == Len(rows)
             m == Len(added)
  <1>1. new \subseteq Pendiente /\ IsFiniteSet(extra)
    BY FS_Subset DEF Rowset
  <1>2. /\ added \in Seq(extra)
        /\ \A i, j \in DOMAIN added : added[i] = added[j] => i = j
        /\ \A x \in extra : \E i \in DOMAIN added : added[i] = x
    BY <1>1, SetToSeqLists
  <1>3. n \in Nat /\ m \in Nat /\ DOMAIN rows = 1..n /\ DOMAIN added = 1..m
    BY <1>2
  <1>4. \A i \in 1..n : kept[i] \in Pendiente /\ SameKey(kept[i], rows[i])
    <2> SUFFICES ASSUME NEW i \in 1..n
                 PROVE  kept[i] \in Pendiente /\ SameKey(kept[i], rows[i])
      OBVIOUS
    <2>1. CASE \E p \in new : SameKey(p, rows[i])
      BY <2>1, <1>1, <1>3
    <2>2. CASE ~\E p \in new : SameKey(p, rows[i])
      BY <2>2, <1>3 DEF SameKey
    <2>3. QED
      BY <2>1, <2>2
  <1>5. kept \in Seq(Pendiente) /\ Len(kept) = n
    BY <1>3, <1>4
  <1>6. added \in Seq(Pendiente) /\ \A k \in 1..m : added[k] \in extra
    <2> HIDE DEF added
    <2>1. \A k \in 1..m : added[k] \in extra
      BY <1>2, <1>3
    <2>2. added \in [1..m -> Pendiente]
      BY <1>1, <1>2, <1>3, <2>1
    <2>3. QED
      BY <1>3, <2>1, <2>2
  <1>7. both = kept \o added
    BY DEF Upsert
  <1> HIDE DEF kept, added, both
  <1>8. /\ both \in Seq(Pendiente) /\ Len(both) = n + m
        /\ \A i \in 1..n : both[i] = kept[i]
        /\ \A k \in 1..m : both[n + k] = added[k]
    <2>1. /\ both \in Seq(Pendiente) /\ Len(both) = n + m
          /\ \A i \in 1..(n + m) : both[i] = IF i <= n THEN kept[i] ELSE added[i - n]
      <3>1. Len(added) = m
        OBVIOUS
      <3> HIDE DEF n, m
      <3>2. QED
        BY <3>1, <1>5, <1>6, <1>7, ConcatProperties
    <2>2. QED
      BY <2>1, <1>3
  <1>9. DOMAIN both = 1..(n + m)
    BY <1>3, <1>8
  <1>10. \A i \in DOMAIN both :
           \/ i \in 1..n /\ SameKey(both[i], rows[i])
           \/ i - n \in 1..m /\ both[i] = added[i - n] /\ both[i] \in extra
    <2> SUFFICES ASSUME NEW i \in DOMAIN both, i \notin 1..n
                 PROVE  i - n \in 1..m /\ both[i] = added[i - n] /\ both[i] \in extra
      BY <1>4, <1>8, <1>9
    <2>1. i - n \in 1..m /\ i = n + (i - n)
      BY <1>3, <1>9
    <2>2. both[n + (i - n)] = added[i - n]
      BY <2>1, <1>8
    <2>3. QED
      BY <2>1, <2>2, <1>6
  <1>11. ASSUME Keyed(rows) PROVE Keyed(both)
    <2> SUFFICES ASSUME NEW i \in DOMAIN both, NEW j \in DOMAIN both,
                        SameKey(both[i], both[j])
                 PROVE  i = j
      BY DEF Keyed
    <2>1. CASE i \in 1..n /\ SameKey(both[i], rows[i]) /\ j \in 1..n /\ SameKey(both[j], rows[j])
      <3>1. SameKey(rows[i], rows[j])
        BY <2>1, SameKeyIsEquivalence
      <3>2. QED
        BY <2>1, <3>1, <1>3, <1>11 DEF Keyed
    <2>2. CASE both[i] \in extra /\ j \in 1..n /\ SameKey(both[j], rows[j])
      <3>1. SameKey(rows[j], both[i])
        BY <2>2, SameKeyIsEquivalence
      <3>2. QED
        BY <2>2, <3>1, <1>3 DEF Has
    <2>3. CASE both[j] \in extra /\ i \in 1..n /\ SameKey(both[i], rows[i])
      <3>1. SameKey(rows[i], both[j])
        BY <2>3, SameKeyIsEquivalence
      <3>2. QED
        BY <2>3, <3>1, <1>3 DEF Has
    <2>4. CASE /\ both[i] \in extra /\ both[j] \in extra
               /\ i - n \in 1..m /\ both[i] = added[i - n]
               /\ j - n \in 1..m /\ both[j] = added[j - n]
      <3>1. both[i] = both[j]
        BY <2>4 DEF Rowset
      <3>2. i - n = j - n
        BY <2>4, <3>1, <1>2, <1>3
      <3>3. QED
        BY <3>2, <1>3, <1>9
    <2>5. QED
      BY <2>1, <2>2, <2>3, <2>4, <1>10
  <1>12. ASSUME NEW i \in DOMAIN rows PROVE Has(both, rows[i])
    <2>1. i \in DOMAIN both /\ SameKey(both[i], rows[i])
      BY <1>3, <1>4, <1>8, <1>9
    <2>2. QED
      BY <2>1 DEF Has
  <1>13. ASSUME NEW p \in new PROVE Has(both, p)
    <2>1. CASE Has(rows, p)
      <3>1. PICK i \in DOMAIN rows : SameKey(rows[i], p)
        BY <2>1 DEF Has
      <3>2. i \in DOMAIN both /\ SameKey(both[i], rows[i])
        BY <1>3, <1>4, <1>8, <1>9
      <3>3. QED
        BY <3>1, <3>2, SameKeyIsEquivalence DEF Has
    <2>2. CASE p \in extra
      <3>1. PICK k \in 1..m : added[k] = p
        BY <2>2, <1>2, <1>3
      <3>2. n + k \in DOMAIN both /\ both[n + k] = p
        BY <3>1, <1>3, <1>8, <1>9
      <3>3. QED
        BY <3>2 DEF Has, SameKey
    <2>3. QED
      BY <2>1, <2>2
  <1>14. ASSUME NEW i \in DOMAIN both
         PROVE  Has(rows, both[i]) \/ \E p \in new : SameKey(p, both[i])
    <2>1. CASE i \in 1..n /\ SameKey(both[i], rows[i])
      BY <2>1, <1>3, SameKeyIsEquivalence DEF Has
    <2>2. CASE both[i] \in extra
      BY <2>2 DEF SameKey
    <2>3. QED
      BY <2>1, <2>2, <1>10
  <1>15. QED
    BY <1>8, <1>11, <1>12, <1>13, <1>14 DEF both

\* The rows of a review for a follow-up: at most one per line.
LEMMA RowsForIsRowset ==
    ASSUME NEW r \in Review, NEW bk \in Books
    PROVE  Rowset(RowsFor(r, bk))
  <1> DEFINE lines == {k \in Validated(r) : r.sheet[k].estado = bk}
             row(l) == [id |-> <<r.by, l[1]>>, credit |-> l[2],
                        applied |-> r.sheet[l].applied]
             map == [l \in lines |-> row(l)]
  <1>1. LineSet \subseteq BankRows \X Credits
    BY FlowAssumption DEF LineSet, Range
  <1>2. IsFiniteSet(LineSet)
    <2>1. Lines \in [1..Len(Lines) -> LineSet] /\ Len(Lines) \in Nat
      BY FlowAssumption DEF LineSet, Range
    <2>2. Lines \in Surjection(1..Len(Lines), LineSet)
      BY <2>1 DEF Surjection, LineSet, Range
    <2>3. IsFiniteSet(1..Len(Lines))
      BY <2>1, FS_Interval
    <2>4. QED
      BY <2>2, <2>3, FS_Surjection
  <1>3. lines \subseteq LineSet /\ IsFiniteSet(lines)
    BY <1>2, FS_Subset DEF Validated, Present
  <1>4. map \in Surjection(lines, RowsFor(r, bk))
    BY DEF Surjection, RowsFor
  <1>5. IsFiniteSet(RowsFor(r, bk))
    BY <1>3, <1>4, FS_Surjection
  <1>6. ASSUME NEW l \in lines PROVE row(l) \in Pendiente
    <2>1. r.sheet[l] \in Entry /\ r.by \in Generates
      BY <1>3 DEF Review, Validated, Present
    <2>2. l[1] \in BankRows /\ l[2] \in Credits
      BY <1>1, <1>3
    <2>3. QED
      BY <2>1, <2>2 DEF Pendiente, Ids, Entry
  <1>7. ASSUME NEW k \in lines, NEW l \in lines, SameKey(row(k), row(l))
        PROVE  row(k) = row(l)
    <2>1. k = <<k[1], k[2]>> /\ l = <<l[1], l[2]>>
      BY <1>1, <1>3
    <2>2. k[1] = l[1] /\ k[2] = l[2]
      BY <1>7 DEF SameKey
    <2>3. QED
      BY <2>1, <2>2
  <1>8. QED
    BY <1>5, <1>6, <1>7 DEF Rowset, RowsFor

-----------------------------------------------------------------------------
(* Types                                                                   *)

TypeInv ==
    /\ TypeOK
    /\ \A f \in Finalizes :
         /\ fpc[f] = "post" => at[f] <= Len(Lines)
         /\ fpc[f] \in FActive => snap[f] \in Review

LEMMA LineSetType == LineSet \subseteq BankRows \X Credits
  BY FlowAssumption DEF LineSet, Range

LEMMA WorkbookType ==
    ASSUME NEW g \in Generates, NEW found, NEW rows \in Readings
    PROVE  Workbook(g, found, rows) \in Review
  <1>1. \A b, due : Line(b, due) \in Entry
    BY DEF Line, Entry, Estados
  <1>2. /\ Workbook(g, found, rows).cases \subseteq BankRows
        /\ Workbook(g, found, rows).errors \subseteq BankRows
    BY FlowAssumption DEF Workbook
  <1>3. Workbook(g, found, rows).sheet \in [LineSet -> Entry \cup {None}]
    BY <1>1 DEF Workbook
  <1>4. QED
    BY <1>2, <1>3 DEF Workbook, Review

LEMMA ValidatedType ==
    ASSUME NEW r
    PROVE  Validated(r) \subseteq LineSet
  BY DEF Validated, Present

LEMMA NewRowsType ==
    ASSUME TypeInv, NEW f \in Finalizes, fpc[f] = "put"
    PROVE  [pend EXCEPT ![book[f]] = NewRows(f)] \in [Books -> Seq(Pendiente) \cup {None}]
  <1>1. snap[f] \in Review /\ book[f] \in Books /\ copy[f] \in Seq(Pendiente)
    BY DEF TypeInv, TypeOK, FActive
  <1>2. NewRows(f) \in Seq(Pendiente)
    BY <1>1, RowsForIsRowset, UpsertKeeps DEF NewRows
  <1>3. QED
    BY <1>1, <1>2 DEF TypeInv, TypeOK

\* The types of what a finalize may change.
OwnTypes(f) ==
    /\ fpc' \in [Finalizes -> FLabels]
    /\ snap' \in [Finalizes -> Review \cup {None}]
    /\ at' \in [Finalizes -> 1 .. Len(Lines) + 1]
    /\ book' \in [Finalizes -> Books]
    /\ copy' \in [Finalizes -> Seq(Pendiente)]
    /\ fpc'[f] = "post" => at'[f] <= Len(Lines)
    /\ fpc'[f] \in FActive => snap'[f] \in Review

SharedTypes ==
    /\ history' \in Review \cup {None}
    /\ support' \subseteq LineSet
    /\ pend' \in [Books -> Seq(Pendiente) \cup {None}]
    /\ folders' \subseteq Credits
    /\ warned' \in [Finalizes -> SUBSET Books]
    /\ existed' \in [Finalizes -> BOOLEAN]
    /\ last' \in Finalizes \cup {None}
    /\ replaced' \subseteq Finalizes
    /\ blamed' \subseteq Finalizes

\* The types of what the finalizes of other dates change.
DatesTypes ==
    /\ epc' \in [Elsewhere -> {"get", "put", "done"}]
    /\ away' \in [Elsewhere -> Seq(Pendiente)]
    /\ overtaken' \subseteq Finalizes \cup Elsewhere
    /\ crossed' \subseteq Books

LEMMA CrossesTypes ==
    ASSUME TypeOK, NEW run, NEW bk \in Books, NEW readers \in SUBSET (Finalizes \cup Elsewhere),
           Crosses(run, bk, readers)
    PROVE  overtaken' \subseteq Finalizes \cup Elsewhere /\ crossed' \subseteq Books
  BY DEF TypeOK, Crosses

LEMMA EndsTypes ==
    ASSUME TypeInv, NEW f \in Finalizes, NEW label \in {"success", "failed"},
           Ends(f, label)
    PROVE  OwnTypes(f)
  <1>1. Len(Lines) \in Nat
    BY FlowAssumption
  <1>2. 1 \in 1 .. Len(Lines) + 1 /\ <<>> \in Seq(Pendiente) /\ "ADELANTADO" \in Books
    BY <1>1 DEF Books
  <1>3. label \in FLabels /\ label \notin FActive /\ label # "post"
    BY DEF FLabels, FActive
  <1>4. QED
    BY <1>2, <1>3 DEF Ends, Goto, OwnTypes, TypeInv, TypeOK

\* A step of a run that goes on.
LEMMA GoesOnTypes ==
    ASSUME TypeInv, NEW f \in Finalizes, NEW label \in FLabels, Goto(f, label),
           label # "post",
           UNCHANGED at
             \/ (at' = [at EXCEPT ![f] = @ + 1] /\ at[f] <= Len(Lines)),
           UNCHANGED book \/ book' = [book EXCEPT ![f] = "INCOMPLETO"],
           UNCHANGED copy \/ \E rows \in Seq(Pendiente) : copy' = [copy EXCEPT ![f] = rows],
           (snap' = snap /\ fpc[f] \in FActive)
             \/ (label \in FActive /\ \E r \in Review : snap' = [snap EXCEPT ![f] = r])
             \/ (label \notin FActive /\ snap' = snap)
    PROVE  OwnTypes(f)
  <1>1. Len(Lines) \in Nat /\ at \in [Finalizes -> 1 .. Len(Lines) + 1]
    BY FlowAssumption DEF TypeInv, TypeOK
  <1>2. at' \in [Finalizes -> 1 .. Len(Lines) + 1]
    BY <1>1
  <1>a. /\ book \in [Finalizes -> Books] /\ copy \in [Finalizes -> Seq(Pendiente)]
        /\ fpc \in [Finalizes -> FLabels] /\ snap \in [Finalizes -> Review \cup {None}]
        /\ fpc[f] \in FActive => snap[f] \in Review
    BY DEF TypeInv, TypeOK
  <1>3. book' \in [Finalizes -> Books] /\ copy' \in [Finalizes -> Seq(Pendiente)]
    BY <1>a DEF Books
  <1>4. fpc' \in [Finalizes -> FLabels] /\ fpc'[f] = label
    BY <1>a DEF Goto
  <1>5. snap' \in [Finalizes -> Review \cup {None}] /\ (label \in FActive => snap'[f] \in Review)
    BY <1>a
  <1>6. QED
    BY <1>2, <1>3, <1>4, <1>5 DEF OwnTypes

LEMMA FinalizeTypes ==
    ASSUME TypeInv, NEW f \in Finalizes, Finalize(f)
    PROVE  OwnTypes(f) /\ SharedTypes
  <1> USE DEF FLabels, FActive
  <1>a. TypeOK
    BY DEF TypeInv
  <1>b. Len(Lines) \in Nat /\ at[f] \in 1 .. Len(Lines) + 1 /\ DOMAIN Lines = 1 .. Len(Lines)
    BY <1>a, FlowAssumption DEF TypeOK
  <1>c. ASSUME UNCHANGED <<history, support, pend, folders, warned, existed, last,
                           replaced, blamed>>
        PROVE  SharedTypes
    BY <1>a, <1>c DEF TypeOK, SharedTypes
  <1>1. CASE Read(f)
    <2>1. SharedTypes
      BY <1>1, <1>a DEF Read, TypeOK, SharedTypes
    <2>2. CASE review # None /\ Accepted(review)
      <3>1. review \in Review /\ snap' = [snap EXCEPT ![f] = review] /\ Goto(f, "folder")
        BY <1>1, <1>a, <2>2 DEF Read, TypeOK
      <3>2. OwnTypes(f)
        BY <1>1, <3>1, GoesOnTypes DEF Read
      <3>3. QED
        BY <2>1, <3>2
    <2>3. CASE ~(review # None /\ Accepted(review))
      <3>1. OwnTypes(f)
        BY <1>1, <2>3, GoesOnTypes DEF Read
      <3>2. QED
        BY <2>1, <3>1
    <2>4. QED
      BY <2>2, <2>3
  <1>2. CASE ListFolder(f)
    <2>1. SharedTypes
      BY <1>2, <1>c DEF ListFolder, ghost
    <2>2. CASE at[f] > Len(Lines)
      BY <1>2, <2>1, <2>2, GoesOnTypes DEF ListFolder
    <2>3. CASE ~(at[f] > Len(Lines)) /\ Lines[at[f]] \in Validated(snap[f])
                                    /\ Lines[at[f]][2] \notin folders
      <3>1. Goto(f, "post") /\ UNCHANGED <<at, snap, book, copy>> /\ at[f] <= Len(Lines)
        BY <1>2, <1>b, <2>3 DEF ListFolder
      <3>2. fpc[f] = "folder"
        BY <1>2 DEF ListFolder
      <3>3. OwnTypes(f)
        BY <3>1, <3>2 DEF Goto, OwnTypes, TypeInv, TypeOK
      <3>4. QED
        BY <2>1, <3>3
    <2>4. CASE ~(at[f] > Len(Lines)) /\ ~(Lines[at[f]] \in Validated(snap[f])
                                         /\ Lines[at[f]][2] \notin folders)
      <3>1. NextLine(f) /\ UNCHANGED <<snap, book, copy>> /\ at[f] <= Len(Lines)
        BY <1>2, <1>b, <2>4 DEF ListFolder
      <3>2. fpc[f] = "folder"
        BY <1>2 DEF ListFolder
      <3>3. OwnTypes(f)
        BY <3>1, <3>2, GoesOnTypes DEF NextLine
      <3>4. QED
        BY <2>1, <3>3
    <2>5. QED
      BY <2>2, <2>3, <2>4
  <1>3. CASE PostFolder(f)
    <2>1. at[f] <= Len(Lines) /\ fpc[f] = "post"
      BY <1>3 DEF PostFolder, TypeInv
    <2>2. Lines[at[f]][2] \in Credits
      BY <1>b, <2>1, FlowAssumption
    <2>3. SharedTypes
      BY <1>3, <1>a, <2>2 DEF PostFolder, TypeOK, SharedTypes, ghost
    <2>4. OwnTypes(f)
      BY <1>3, <2>1, GoesOnTypes DEF PostFolder, NextLine
    <2>5. QED
      BY <2>3, <2>4
  <1>4. CASE Routes(f)
    BY <1>4, <1>c, GoesOnTypes DEF Routes, ghost
  <1>5. CASE Exists(f)
    <2>1. SharedTypes
      BY <1>5, <1>a DEF Exists, TypeOK, SharedTypes, ghost
    <2>2. QED
      BY <1>5, <2>1, GoesOnTypes DEF Exists
  <1>6. CASE GetBook(f)
    <2>1. SharedTypes
      <3>1. warned' = warned \/ warned' = [warned EXCEPT ![f] = @ \cup {book[f]}]
        BY <1>6 DEF GetBook
      <3>2. warned' \in [Finalizes -> SUBSET Books]
        <4>1. warned \in [Finalizes -> SUBSET Books] /\ book[f] \in Books
          BY <1>a DEF TypeOK
        <4>2. QED
          BY <3>1, <4>1
      <3>3. UNCHANGED <<history, support, pend, folders, existed, last, replaced, blamed>>
        BY <1>6 DEF GetBook, ghost
      <3>4. QED
        BY <1>a, <3>2, <3>3 DEF TypeOK, SharedTypes
    <2>2. NextBook(f) => \/ Goto(f, "get") /\ book' = [book EXCEPT ![f] = "INCOMPLETO"]
                         \/ Goto(f, "history") /\ UNCHANGED book
      BY DEF NextBook
    <2>3. pend[book[f]] # None => pend[book[f]] \in Seq(Pendiente)
      BY <1>a DEF TypeOK
    <2>4. /\ fpc[f] = "get" /\ UNCHANGED <<snap, at>>
          /\ \/ NextBook(f) /\ UNCHANGED copy
             \/ /\ Goto(f, "put") /\ UNCHANGED book
                /\ \E rows \in Seq(Pendiente) : copy' = [copy EXCEPT ![f] = rows]
      BY <1>6, <2>3 DEF GetBook
    <2>5. OwnTypes(f)
      BY <2>2, <2>4, GoesOnTypes
    <2>6. QED
      BY <2>1, <2>5
  <1>7. CASE PutBook(f)
    <2>1. pend' \in [Books -> Seq(Pendiente) \cup {None}]
      BY <1>7, NewRowsType DEF PutBook
    <2>2. SharedTypes
      BY <1>7, <1>a, <2>1 DEF PutBook, TypeOK, SharedTypes, ghost
    <2>3. NextBook(f) => \/ Goto(f, "get") /\ book' = [book EXCEPT ![f] = "INCOMPLETO"]
                         \/ Goto(f, "history") /\ UNCHANGED book
      BY DEF NextBook
    <2>4. <<>> \in Seq(Pendiente)
      OBVIOUS
    <2>5. OwnTypes(f)
      BY <1>7, <2>3, <2>4, GoesOnTypes DEF PutBook
    <2>6. QED
      BY <2>2, <2>5
  <1>8. CASE PutHistory(f)
    <2>1. SharedTypes
      BY <1>8, <1>a DEF PutHistory, Published, TypeOK, SharedTypes
    <2>2. QED
      BY <1>8, <2>1, GoesOnTypes DEF PutHistory
  <1>9. CASE PutSupport(f)
    <2>1. SharedTypes
      BY <1>9, <1>a, ValidatedType DEF PutSupport, TypeOK, SharedTypes, ghost
    <2>2. QED
      BY <1>9, <2>1, EndsTypes DEF PutSupport
  <1>10. CASE FinalizeFails(f)
    <2>0. warned' \in [Finalizes -> SUBSET Books] /\ existed' \in [Finalizes -> BOOLEAN]
      BY <1>10, <1>a DEF FinalizeFails, TypeOK
    <2>1. folders' \subseteq Credits
      <3>1. fpc[f] = "post" => Lines[at[f]][2] \in Credits
        BY <1>b, FlowAssumption DEF TypeInv
      <3>2. QED
        BY <1>10, <1>a, <3>1 DEF FinalizeFails, TypeOK
    <2>2. pend' \in [Books -> Seq(Pendiente) \cup {None}]
      <3>1. pend \in [Books -> Seq(Pendiente) \cup {None}]
        BY <1>a DEF TypeOK
      <3>2. \/ pend' = pend
            \/ fpc[f] = "put" /\ pend' = [pend EXCEPT ![book[f]] = NewRows(f)]
        BY <1>10 DEF FinalizeFails
      <3>3. QED
        BY <3>1, <3>2, NewRowsType
    <2>3. support' \subseteq LineSet
      BY <1>10, <1>a, ValidatedType DEF FinalizeFails, TypeOK
    <2>4. /\ history' \in Review \cup {None} /\ last' \in Finalizes \cup {None}
          /\ replaced' \subseteq Finalizes
      BY <1>10, <1>a DEF FinalizeFails, Published, TypeOK
    <2>5. SharedTypes
      BY <1>10, <1>a, <2>0, <2>1, <2>2, <2>3, <2>4 DEF FinalizeFails, TypeOK, SharedTypes
    <2>6. QED
      BY <1>10, <2>5, EndsTypes DEF FinalizeFails
  <1>11. QED
    BY <1>1, <1>2, <1>3, <1>4, <1>5, <1>6, <1>7, <1>8, <1>9, <1>10 DEF Finalize

LEMMA GenerateTypes ==
    ASSUME TypeOK, NEW g \in Generates, Generate(g)
    PROVE  /\ review' \in Review \cup {None}
           /\ gpc' \in [Generates -> GLabels]
           /\ built' \in [Generates -> Review \cup {None}]
  <1> USE DEF GLabels, TypeOK
  <1>1. CASE Look(g)
    BY <1>1 DEF Look
  <1>2. CASE Build(g)
    <2>1. PICK found \in [LineSet -> UNION Range(Findings)], rows \in Readings :
            built' = [built EXCEPT ![g] = Workbook(g, found, rows)]
      BY <1>2 DEF Build
    <2>2. built' \in [Generates -> Review \cup {None}]
      BY <2>1, WorkbookType
    <2>3. QED
      BY <1>2, <2>2 DEF Build
  <1>3. CASE Upload(g)
    BY <1>3 DEF Upload
  <1>4. CASE GenerateFails(g)
    BY <1>4 DEF GenerateFails
  <1>5. QED
    BY <1>1, <1>2, <1>3, <1>4 DEF Generate

LEMMA SecretaryTypes ==
    ASSUME TypeOK, Secretary
    PROVE  review' \in Review \cup {None}
  <1>1. CASE \E s \in Sheets : Fill(s)
    <2>1. PICK s \in Sheets : Fill(s)
      BY <1>1
    <2> DEFINE sheet == [l \in LineSet |-> IF review.sheet[l] = None THEN None ELSE s[l]]
    <2>2. review \in Review /\ s \in [LineSet -> Entry]
      BY <2>1, FlowAssumption DEF Fill, Editable, TypeOK
    <2>3. sheet \in [LineSet -> Entry \cup {None}]
      BY <2>2
    <2>4. review' = [review EXCEPT !.sheet = sheet]
      BY <2>1, <2>2 DEF Fill, Review
    <2>5. QED
      BY <2>2, <2>3, <2>4 DEF Review
  <1>2. CASE Control
    BY <1>2 DEF Control, Editable, TypeOK, Review
  <1>3. CASE Archive
    BY <1>3 DEF Archive
  <1>4. QED
    BY <1>1, <1>2, <1>3 DEF Secretary

LEMMA RowIsRowset ==
    ASSUME NEW e \in Elsewhere
    PROVE  Rowset({e.row})
  <1>1. e.row \in Pendiente
    BY DEF Pendiente
  <1>2. IsFiniteSet({e.row})
    BY FS_Singleton
  <1>3. QED
    BY <1>1, <1>2 DEF Rowset

LEMMA ElsewhereTypes ==
    ASSUME TypeOK, NEW e \in Elsewhere, FinalizeElsewhere(e)
    PROVE  pend' \in [Books -> Seq(Pendiente) \cup {None}] /\ DatesTypes
  <1>a. /\ pend \in [Books -> Seq(Pendiente) \cup {None}] /\ e.book \in Books
        /\ away \in [Elsewhere -> Seq(Pendiente)]
        /\ epc \in [Elsewhere -> {"get", "put", "done"}]
    BY FlowAssumption DEF TypeOK
  <1>1. Here(e.book) \cup (Away(e.book) \ {e}) \subseteq Finalizes \cup Elsewhere
    BY DEF Here, Away
  <1>2. overtaken' \subseteq Finalizes \cup Elsewhere /\ crossed' \subseteq Books
    BY <1>a, <1>1, CrossesTypes DEF FinalizeElsewhere
  <1>3. CASE GetElsewhere(e)
    BY <1>a, <1>2, <1>3 DEF GetElsewhere, DatesTypes
  <1>4. CASE PutElsewhere(e)
    <2>1. Upsert(away[e], {e.row}) \in Seq(Pendiente)
      BY <1>a, RowIsRowset, UpsertKeeps
    <2>2. <<>> \in Seq(Pendiente)
      OBVIOUS
    <2>3. pend' \in [Books -> Seq(Pendiente) \cup {None}]
      BY <1>a, <1>4, <2>1 DEF PutElsewhere
    <2>4. QED
      BY <1>a, <1>2, <1>4, <2>2, <2>3 DEF PutElsewhere, DatesTypes
  <1>5. QED
    BY <1>3, <1>4 DEF FinalizeElsewhere

LEMMA TypeInvNext == TypeInv /\ [Next]_vars => TypeInv'
  <1> SUFFICES ASSUME TypeInv, [Next]_vars PROVE TypeInv'
    OBVIOUS
  <1>a. TypeOK
    BY DEF TypeInv
  <1>1. ASSUME NEW f \in Finalizes, Finalize(f) PROVE TypeInv'
    <2>1. OwnTypes(f) /\ SharedTypes
      BY <1>1, FinalizeTypes
    <2>2. UNCHANGED <<review, gpc, built, exclusive>> /\ DatesTypes
      <3>1. book[f] \in Books /\ Away(book[f]) \subseteq Finalizes \cup Elsewhere
        BY <1>a DEF TypeOK, Away
      <3>2. Crosses(f, book[f], Away(book[f])) /\ UNCHANGED <<review, gpc, built, exclusive, epc, away>>
        BY <1>1 DEF Finalize
      <3>3. overtaken' \subseteq Finalizes \cup Elsewhere /\ crossed' \subseteq Books
        BY <1>a, <3>1, <3>2, CrossesTypes
      <3>4. QED
        BY <1>a, <3>2, <3>3 DEF TypeOK, DatesTypes
    <2>3. TypeOK'
      BY <1>a, <2>1, <2>2 DEF OwnTypes, SharedTypes, DatesTypes, TypeOK
    <2>4. Shapes
      <3>1. \A n \in 1 .. Len(Lines) + 1 : n \in Nat \ {0}
        BY FlowAssumption
      <3>2. QED
        BY <1>a, <3>1 DEF TypeOK, Shapes
    <2>5. Frame(f)
      BY <1>1, <2>4, StepsFrame
    <2>6. ASSUME NEW g \in Finalizes
          PROVE  /\ fpc'[g] = "post" => at'[g] <= Len(Lines)
                 /\ fpc'[g] \in FActive => snap'[g] \in Review
      BY <2>1, <2>5 DEF OwnTypes, Frame, TypeInv
    <2>7. QED
      BY <2>3, <2>6 DEF TypeInv
  <1>2. ASSUME NEW g \in Generates, Generate(g) PROVE TypeInv'
    <2>1. TypeOK'
      BY <1>a, <1>2, GenerateTypes DEF Generate, mine, ghost, dates, TypeOK
    <2>2. QED
      BY <1>2, <2>1 DEF TypeInv, Generate, mine
  <1>3. ASSUME Secretary PROVE TypeInv'
    <2>1. TypeOK'
      BY <1>a, <1>3, SecretaryTypes DEF Secretary, mine, ghost, dates, TypeOK
    <2>2. QED
      BY <1>3, <2>1 DEF TypeInv, Secretary, mine
  <1>4. CASE UNCHANGED vars
    BY <1>4 DEF TypeInv, TypeOK, vars, files, mine, ghost, dates
  <1>5. ASSUME NEW e \in Elsewhere, FinalizeElsewhere(e) PROVE TypeInv'
    <2>1. /\ pend' \in [Books -> Seq(Pendiente) \cup {None}]
          /\ DatesTypes
      BY <1>a, <1>5, ElsewhereTypes
    <2>2. TypeOK'
      BY <1>a, <1>5, <2>1 DEF FinalizeElsewhere, mine, ghost, TypeOK, DatesTypes
    <2>3. QED
      BY <1>5, <2>2 DEF TypeInv, FinalizeElsewhere, mine
  <1>6. QED
    BY <1>1, <1>2, <1>3, <1>4, <1>5 DEF Next

LEMMA TypeInvInit == Init => TypeInv
  <1> SUFFICES ASSUME Init PROVE TypeInv
    OBVIOUS
  <1>1. PICK p \in Prepared :
          /\ pend = [bk \in Books |-> IF bk \in p.books THEN <<>> ELSE None]
          /\ folders = p.folders
    BY DEF Init
  <1>2. folders \subseteq Credits
    BY <1>1, FlowAssumption
  <1>3. pend \in [Books -> Seq(Pendiente) \cup {None}]
    BY <1>1
  <1>4. 1 \in 1 .. Len(Lines) + 1
    BY FlowAssumption
  <1>5. at \in [Finalizes -> 1 .. Len(Lines) + 1] /\ copy \in [Finalizes -> Seq(Pendiente)]
    BY <1>4 DEF Init
  <1>6. /\ fpc \in [Finalizes -> FLabels] /\ gpc \in [Generates -> GLabels]
        /\ \A f \in Finalizes : fpc[f] = "idle"
    BY DEF Init, FLabels, GLabels
  <1>e. epc \in [Elsewhere -> {"get", "put", "done"}] /\ away \in [Elsewhere -> Seq(Pendiente)]
    BY DEF Init
  <1>7. TypeOK
    BY <1>2, <1>3, <1>5, <1>6, <1>e DEF Init, TypeOK, Books
  <1>8. QED
    BY <1>6, <1>7 DEF TypeInv, FActive

\* The workbooks, the sheets of the follow-ups and the locals of the runs keep
\* their types: in particular no finalize posts the folder of a line that is
\* not there, and every active one works on a workbook it has read.
THEOREM TypeCorrect == Spec => []TypeOK
  <1>1. TypeInv => TypeOK
    BY DEF TypeInv
  <1>2. QED
    BY <1>1, TypeInvInit, TypeInvNext, PTL DEF Spec

-----------------------------------------------------------------------------
(* Every payment is accounted for                                          *)

Complete(r) ==
    \A b \in BankRows :
        \/ b \in r.errors
        \/ b \in r.cases /\ \A l \in LineSet : l[1] = b => r.sheet[l] # None

\* A workbook is complete from its making on: in the generate that made it, in
\* the review folder, in the finalizes that read it and as the history.
CompleteInv ==
    /\ TypeInv
    /\ review # None => Complete(review)
    /\ history # None => Complete(history)
    /\ \A g \in Generates : built[g] # None => Complete(built[g])
    /\ \A f \in Finalizes : snap[f] # None => Complete(snap[f])

LEMMA WorkbookComplete ==
    ASSUME NEW g, NEW found, NEW rows
    PROVE  Complete(Workbook(g, found, rows))
  <1> DEFINE r == Workbook(g, found, rows)
  <1> SUFFICES ASSUME NEW b \in BankRows, b \notin r.errors
               PROVE  b \in r.cases /\ \A l \in LineSet : l[1] = b => r.sheet[l] # None
    BY DEF Complete
  <1>1. /\ b \in rows /\ \E l \in LineSet : l[1] = b
        /\ \A l \in LineSet : l[1] = b => found[l] # Issue
    BY DEF Workbook
  <1>2. b \in r.cases
    BY <1>1 DEF Workbook
  <1>3. ASSUME NEW l \in LineSet, l[1] = b PROVE r.sheet[l] # None
    <2>1. r.sheet[l] = Line(l[1], found[l])
      BY <1>1, <1>3 DEF Workbook
    <2>2. Line(l[1], found[l]) \in Entry
      BY DEF Line, Entry, Estados
    <2>3. QED
      BY <2>1, <2>2, FlowAssumption
  <1>4. QED
    BY <1>2, <1>3

LEMMA SecretaryComplete ==
    ASSUME CompleteInv, Secretary, review' # None
    PROVE  Complete(review')
  <1>1. CASE \E s \in Sheets : Fill(s)
    <2>1. PICK s \in Sheets : Fill(s)
      BY <1>1
    <2> DEFINE sheet == [l \in LineSet |-> IF review.sheet[l] = None THEN None ELSE s[l]]
    <2>2. review \in Review /\ s \in [LineSet -> Entry] /\ Complete(review)
      BY <2>1, FlowAssumption DEF Fill, Editable, CompleteInv, TypeInv, TypeOK
    <2>3. review' = [review EXCEPT !.sheet = sheet]
      BY <2>1, <2>2 DEF Fill, Review
    <2>4. /\ review'.errors = review.errors /\ review'.cases = review.cases
          /\ review'.sheet = sheet
      BY <2>2, <2>3 DEF Review
    <2>5. \A l \in LineSet : review.sheet[l] # None => sheet[l] # None
      BY <2>2, FlowAssumption
    <2>6. QED
      BY <2>2, <2>4, <2>5 DEF Complete
  <1>2. CASE Control
    <2>1. review \in Review /\ Complete(review)
      BY <1>2 DEF Control, Editable, CompleteInv, TypeInv, TypeOK
    <2>2. /\ review'.errors = review.errors /\ review'.cases = review.cases
          /\ review'.sheet = review.sheet
      BY <1>2, <2>1 DEF Control, Review
    <2>3. QED
      BY <2>1, <2>2 DEF Complete
  <1>3. CASE Archive
    BY <1>3 DEF Archive
  <1>4. QED
    BY <1>1, <1>2, <1>3 DEF Secretary

LEMMA GenerateComplete ==
    ASSUME CompleteInv, NEW g \in Generates, Generate(g)
    PROVE  /\ review' # None => Complete(review')
           /\ \A h \in Generates : built'[h] # None => Complete(built'[h])
  <1>a. /\ review # None => Complete(review)
        /\ \A h \in Generates : built[h] # None => Complete(built[h])
        /\ built \in [Generates -> Review \cup {None}]
    BY DEF CompleteInv, TypeInv, TypeOK
  <1>1. CASE Look(g)
    BY <1>1, <1>a DEF Look
  <1>2. CASE Build(g)
    <2>1. PICK found \in [LineSet -> UNION Range(Findings)], rows \in Readings :
            built' = [built EXCEPT ![g] = Workbook(g, found, rows)]
      BY <1>2 DEF Build
    <2>2. \A h \in Generates : built'[h] # None => Complete(built'[h])
      BY <1>a, <2>1, WorkbookComplete
    <2>3. QED
      BY <1>2, <1>a, <2>2 DEF Build
  <1>3. CASE Upload(g)
    BY <1>3, <1>a DEF Upload
  <1>4. CASE GenerateFails(g)
    BY <1>4, <1>a DEF GenerateFails
  <1>5. QED
    BY <1>1, <1>2, <1>3, <1>4 DEF Generate

LEMMA FinalizeComplete ==
    ASSUME CompleteInv, NEW f \in Finalizes, Finalize(f)
    PROVE  /\ history' # None => Complete(history')
           /\ \A h \in Finalizes : snap'[h] # None => Complete(snap'[h])
  <1>1. history' \in {history, snap[f]}
    BY DEF Finalize, Read, ListFolder, PostFolder, Routes, Exists, GetBook, PutBook,
           PutHistory, PutSupport, FinalizeFails, Published
  <1>2. \/ UNCHANGED snap
        \/ snap' = [snap EXCEPT ![f] = None]
        \/ snap' = [snap EXCEPT ![f] = review] /\ review # None
    BY DEF Finalize, Read, ListFolder, PostFolder, Routes, Exists, GetBook, PutBook,
           PutHistory, PutSupport, FinalizeFails, Ends
  <1>3. QED
    BY <1>1, <1>2 DEF CompleteInv, TypeInv, TypeOK

LEMMA CompleteNext == CompleteInv /\ [Next]_vars => CompleteInv'
  <1> SUFFICES ASSUME CompleteInv, [Next]_vars PROVE CompleteInv'
    OBVIOUS
  <1>t. TypeInv'
    BY TypeInvNext DEF CompleteInv
  <1>1. ASSUME NEW f \in Finalizes, Finalize(f) PROVE CompleteInv'
    BY <1>1, <1>t, FinalizeComplete DEF CompleteInv, Finalize
  <1>2. ASSUME NEW g \in Generates, Generate(g) PROVE CompleteInv'
    BY <1>2, <1>t, GenerateComplete DEF CompleteInv, Generate, mine
  <1>3. ASSUME Secretary PROVE CompleteInv'
    BY <1>3, <1>t, SecretaryComplete DEF CompleteInv, Secretary, mine
  <1>4. CASE UNCHANGED vars
    BY <1>4, <1>t DEF CompleteInv, vars, files, mine
  <1>5. ASSUME NEW e \in Elsewhere, FinalizeElsewhere(e) PROVE CompleteInv'
    BY <1>5, <1>t DEF CompleteInv, FinalizeElsewhere, mine
  <1>6. QED
    BY <1>1, <1>2, <1>3, <1>4, <1>5 DEF Next

\* No payment of the bank is lost on the way to the history: one that is not
\* on sheet Errores is a case with a line for every credit of its client,
\* whatever the secretary saves and whichever runs fail or overlap.
THEOREM PaymentsAccountedFor == Spec => []AccountedFor
  <1>1. Init => CompleteInv
    BY TypeInvInit DEF Init, CompleteInv
  <1>2. CompleteInv => AccountedFor
    BY DEF CompleteInv, Complete, AccountedFor
  <1>3. QED
    BY <1>1, <1>2, CompleteNext, PTL DEF Spec

-----------------------------------------------------------------------------
(* Failures                                                                *)

LEMMA FailsNext == TypeInv /\ FailsForCause /\ [Next]_vars => FailsForCause'
  <1> SUFFICES ASSUME TypeInv, FailsForCause, [Next]_vars PROVE FailsForCause'
    OBVIOUS
  <1>1. ASSUME NEW f \in Finalizes, Finalize(f) PROVE FailsForCause'
    <2>1. fpc \in [Finalizes -> FLabels]
      BY DEF TypeInv, TypeOK
    <2>2. CASE Read(f) \/ FinalizeFails(f)
      BY <2>1, <2>2 DEF Read, FinalizeFails, Ends, Goto, FailsForCause
    <2>3. CASE ~(Read(f) \/ FinalizeFails(f))
      <3>1. UNCHANGED blamed /\ \E label \in FLabels \ {"failed"} : Goto(f, label)
        BY <1>1, <2>3 DEF Finalize, ListFolder, PostFolder, Routes, Exists, GetBook,
           PutBook, NextLine, NextBook, PutHistory, PutSupport, Ends, ghost, FLabels,
           FActive
      <3>2. QED
        BY <2>1, <3>1 DEF Goto, FailsForCause
    <2>4. QED
      BY <2>2, <2>3
  <1>2. CASE \/ \E g \in Generates : Generate(g)
             \/ Secretary
             \/ \E e \in Elsewhere : FinalizeElsewhere(e)
             \/ UNCHANGED vars
    <2>1. UNCHANGED <<fpc, blamed>>
      BY <1>2 DEF Generate, Secretary, FinalizeElsewhere, vars, mine, ghost
    <2>2. QED
      BY <2>1 DEF FailsForCause
  <1>3. QED
    BY <1>1, <1>2 DEF Next

\* A finalize fails because the review is not there or not in order, or a call
\* of its own raises: never because another one overlaps.
THEOREM FailuresHaveCauses == Spec => []FailsForCause
  <1>1. Init => TypeInv /\ FailsForCause
    BY TypeInvInit DEF Init, FailsForCause
  <1>2. QED
    BY <1>1, TypeInvNext, FailsNext, PTL DEF Spec

-----------------------------------------------------------------------------
(* Overlapping runs                                                        *)

Apart == ~(Generating /\ Finalizing)

\* Where finalizes may overlap nobody edits meanwhile, so all of them work on
\* the workbook that is there.
Current == ~exclusive => \A f \in Finalizes : fpc[f] \in FActive => snap[f] = review

OverlapInv == TypeInv /\ Reports /\ Apart /\ Current

\* What a run does to the locals of the others and to the files.
Frame2(f) ==
    /\ \A g \in Finalizes \ {f} :
         book'[g] = book[g] /\ copy'[g] = copy[g] /\ warned'[g] = warned[g]
    /\ \/ UNCHANGED pend
       \/ fpc[f] = "put" /\ pend' = [pend EXCEPT ![book[f]] = NewRows(f)]
    /\ \/ UNCHANGED <<history, last>>
       \/ /\ fpc[f] = "history" /\ history' = snap[f] /\ last' = f
          /\ fpc'[f] \in {"support", "failed"}
    /\ \/ UNCHANGED support
       \/ fpc[f] = "support" /\ support' = Validated(snap[f])

LEMMA StepsFrame2 ==
    ASSUME TypeInv, NEW f \in Finalizes, Finalize(f)
    PROVE  Frame2(f)
  <1> USE DEF Frame2, Goto, ghost, mine
  <1>0. /\ fpc \in [Finalizes -> FLabels] /\ DOMAIN book = Finalizes
        /\ DOMAIN copy = Finalizes /\ DOMAIN warned = Finalizes
    BY DEF TypeInv, TypeOK
  <1>1. CASE Read(f)
    BY <1>0, <1>1 DEF Read
  <1>2. CASE ListFolder(f)
    BY <1>0, <1>2 DEF ListFolder, NextLine
  <1>3. CASE PostFolder(f)
    BY <1>0, <1>3 DEF PostFolder, NextLine
  <1>4. CASE Routes(f) \/ Exists(f)
    BY <1>0, <1>4 DEF Routes, Exists
  <1>5. CASE GetBook(f)
    BY <1>0, <1>5 DEF GetBook, NextBook
  <1>6. CASE PutBook(f)
    BY <1>0, <1>6 DEF PutBook, NextBook
  <1>7. CASE PutHistory(f)
    BY <1>0, <1>7 DEF PutHistory, Published
  <1>8. CASE PutSupport(f)
    BY <1>0, <1>8 DEF PutSupport, Ends
  <1>9. CASE FinalizeFails(f)
    <2>1. \A g \in Finalizes \ {f} :
            book'[g] = book[g] /\ copy'[g] = copy[g] /\ warned'[g] = warned[g]
      BY <1>0, <1>9 DEF FinalizeFails, Ends
    <2>2. fpc'[f] = "failed"
      BY <1>0, <1>9 DEF FinalizeFails, Ends
    <2>3. \/ UNCHANGED pend
          \/ fpc[f] = "put" /\ pend' = [pend EXCEPT ![book[f]] = NewRows(f)]
      BY <1>9 DEF FinalizeFails
    <2>4. \/ UNCHANGED support
          \/ fpc[f] = "support" /\ support' = Validated(snap[f])
      BY <1>9 DEF FinalizeFails
    <2>5. \/ UNCHANGED <<history, last>>
          \/ fpc[f] = "history" /\ history' = snap[f] /\ last' = f
      BY <1>9 DEF FinalizeFails, Published
    <2>6. QED
      BY <2>1, <2>2, <2>3, <2>4, <2>5
  <1>10. QED
    BY <1>1, <1>2, <1>3, <1>4, <1>5, <1>6, <1>7, <1>8, <1>9 DEF Finalize

\* A run that stays active keeps the workbook it has read.
LEMMA SnapStays ==
    ASSUME TypeInv, NEW f \in Finalizes, Finalize(f), fpc'[f] \in FActive
    PROVE  \/ snap'[f] = snap[f] /\ fpc[f] \in FActive
           \/ snap'[f] = review /\ ~Generating
  <1> USE DEF FActive, FLabels
  <1>0. fpc \in [Finalizes -> FLabels] /\ DOMAIN snap = Finalizes
    BY DEF TypeInv, TypeOK
  <1>1. CASE Read(f)
    BY <1>0, <1>1 DEF Read, Goto
  <1>2. CASE PutSupport(f) \/ FinalizeFails(f)
    BY <1>0, <1>2 DEF PutSupport, FinalizeFails, Ends, Goto
  <1>3. CASE \/ ListFolder(f) \/ PostFolder(f) \/ Routes(f) \/ Exists(f)
             \/ GetBook(f) \/ PutBook(f) \/ PutHistory(f)
    BY <1>3 DEF ListFolder, PostFolder, Routes, Exists, GetBook, PutBook, PutHistory
  <1>4. QED
    BY <1>1, <1>2, <1>3 DEF Finalize

LEMMA OverlapNext == OverlapInv /\ [Next]_vars => OverlapInv'
  <1> SUFFICES ASSUME OverlapInv, [Next]_vars PROVE OverlapInv'
    OBVIOUS
  <1>a. TypeInv' /\ Reports'
    BY TypeInvNext, ReportsNext DEF OverlapInv
  <1>b. gpc \in [Generates -> GLabels]
    BY DEF OverlapInv, TypeInv, TypeOK
  <1>1. ASSUME NEW f \in Finalizes, Finalize(f) PROVE OverlapInv'
    <2>1. Frame(f) /\ UNCHANGED <<review, gpc, exclusive>>
      BY <1>1, StepsFrame DEF OverlapInv, Reports, Finalize
    <2>2. fpc'[f] \in FActive =>
            \/ snap'[f] = snap[f] /\ fpc[f] \in FActive
            \/ snap'[f] = review /\ ~Generating
      BY <1>1, SnapStays DEF OverlapInv
    <2>3. Apart'
      BY <2>1, <2>2 DEF OverlapInv, Apart, Generating, Finalizing, Frame
    <2>4. Current'
      BY <2>1, <2>2 DEF OverlapInv, Current, Frame
    <2>5. QED
      BY <1>a, <2>3, <2>4 DEF OverlapInv
  <1>2. ASSUME NEW g \in Generates, Generate(g) PROVE OverlapInv'
    <2>1. UNCHANGED <<fpc, snap, exclusive>>
      BY <1>2 DEF Generate, mine
    <2>2. CASE Look(g)
      <3>1. ~Finalizing /\ UNCHANGED review
        BY <2>2 DEF Look
      <3>2. QED
        BY <1>a, <2>1, <3>1 DEF OverlapInv, Apart, Current, Finalizing
    <2>3. CASE ~Look(g)
      <3>1. gpc[g] \in {"build", "put"}
        BY <1>2, <2>3 DEF Generate, Build, Upload, GenerateFails
      <3>2. ~Finalizing
        BY <3>1 DEF OverlapInv, Apart, Generating
      <3>3. QED
        BY <1>a, <2>1, <3>2 DEF OverlapInv, Apart, Current, Finalizing
    <2>4. QED
      BY <2>2, <2>3
  <1>3. ASSUME Secretary PROVE OverlapInv'
    <2>1. UNCHANGED <<gpc, fpc, snap, exclusive>> /\ (exclusive \/ ~Finalizing)
      BY <1>3 DEF Secretary, mine, Fill, Control, Archive, Editable
    <2>2. QED
      BY <1>a, <2>1 DEF OverlapInv, Apart, Current, Generating, Finalizing
  <1>4. CASE (\E e \in Elsewhere : FinalizeElsewhere(e)) \/ UNCHANGED vars
    <2>1. UNCHANGED <<review, gpc, fpc, snap, exclusive>>
      BY <1>4 DEF FinalizeElsewhere, vars, files, mine
    <2>2. QED
      BY <1>a, <2>1 DEF OverlapInv, Apart, Current, Generating, Finalizing
  <1>5. QED
    BY <1>1, <1>2, <1>3, <1>4 DEF Next

LEMMA OverlapInit == Init => OverlapInv
  <1> SUFFICES ASSUME Init PROVE OverlapInv
    OBVIOUS
  <1>1. \A f \in Finalizes : fpc[f] = "idle"
    BY DEF Init
  <1>2. QED
    BY <1>1, TypeInvInit, ReportsInit DEF OverlapInv, Apart, Current, Finalizing, FActive

\* Two active runs work on the same workbook.
LEMMA SameWorkbook ==
    ASSUME OverlapInv, NEW f \in Finalizes, NEW g \in Finalizes,
           fpc[f] \in FActive, fpc[g] \in FActive
    PROVE  snap[f] = snap[g]
  BY DEF OverlapInv, Current, Reports, Alone

\* Between its two uploads a run finds its history, whoever put it.
SupportInv ==
    /\ OverlapInv
    /\ \A f \in Finalizes : fpc[f] = "support" => history = snap[f]
    /\ SupportMatches

LEMMA SupportNext == SupportInv /\ [Next]_vars => SupportInv'
  <1> SUFFICES ASSUME SupportInv, [Next]_vars PROVE SupportInv'
    OBVIOUS
  <1>a. OverlapInv'
    BY OverlapNext DEF SupportInv
  <1>b. TypeInv /\ OverlapInv /\ Shapes
    BY DEF SupportInv, OverlapInv, Reports
  <1>1. ASSUME NEW f \in Finalizes, Finalize(f) PROVE SupportInv'
    <2>1. Frame(f) /\ Frame2(f)
      BY <1>1, <1>b, StepsFrame, StepsFrame2
    <2>2. ASSUME NEW g \in Finalizes, fpc'[g] = "support" PROVE history' = snap'[g]
      <3>1. CASE g = f
        <4>1. PutHistory(f)
          BY <1>1, <1>b, <2>2, <3>1 DEF Finalize, Read, ListFolder, PostFolder, Routes,
             Exists, GetBook, PutBook, PutHistory, PutSupport, FinalizeFails, NextLine,
             NextBook, Ends, Goto, Shapes
        <4>2. QED
          BY <3>1, <4>1 DEF PutHistory, Published
      <3>2. CASE g # f
        <4>1. fpc[g] = "support" /\ snap'[g] = snap[g] /\ history = snap[g]
          BY <2>1, <2>2, <3>2 DEF Frame, SupportInv
        <4>2. CASE UNCHANGED history
          BY <4>1, <4>2
        <4>3. CASE fpc[f] = "history" /\ history' = snap[f]
          BY <4>1, <4>3, <1>b, SameWorkbook DEF FActive
        <4>4. QED
          BY <2>1, <4>2, <4>3 DEF Frame2
      <3>3. QED
        BY <3>1, <3>2
    <2>3. SupportMatches'
      <3>1. CASE fpc[f] = "history" /\ last' = f /\ fpc'[f] \in {"support", "failed"}
        BY <3>1 DEF SupportMatches
      <3>2. CASE UNCHANGED <<history, last>> /\ UNCHANGED support
        <4>1. CASE PutSupport(f)
          <5>1. support' = Validated(snap[f]) /\ fpc[f] = "support"
            BY <4>1 DEF PutSupport
          <5>2. QED
            BY <3>2, <5>1 DEF SupportInv, SupportMatches
        <4>2. CASE ~PutSupport(f)
          <5>1. fpc'[f] # "success"
            BY <1>1, <1>b, <4>2 DEF Finalize, Read, ListFolder, PostFolder, Routes,
               Exists, GetBook, PutBook, PutHistory, FinalizeFails, NextLine,
               NextBook, Ends, Goto, Shapes
          <5>2. last \in Finalizes \cup {None}
            BY <1>b DEF TypeInv, TypeOK
          <5>3. QED
            BY <3>2, <5>1, <5>2, <2>1 DEF SupportInv, SupportMatches, Frame
        <4>3. QED
          BY <4>1, <4>2
      <3>3. CASE /\ UNCHANGED <<history, last>>
                 /\ fpc[f] = "support" /\ support' = Validated(snap[f])
        BY <3>3 DEF SupportInv, SupportMatches
      <3>4. QED
        BY <2>1, <3>1, <3>2, <3>3 DEF Frame2
    <2>4. QED
      BY <1>a, <2>2, <2>3 DEF SupportInv
  <1>2. CASE \/ \E g \in Generates : Generate(g)
             \/ Secretary
             \/ \E e \in Elsewhere : FinalizeElsewhere(e)
             \/ UNCHANGED vars
    <2>1. UNCHANGED <<history, support, last, fpc, snap>>
      BY <1>2 DEF Generate, Secretary, FinalizeElsewhere, vars, files, mine, ghost
    <2>2. QED
      BY <1>a, <2>1 DEF SupportInv, SupportMatches
  <1>3. QED
    BY <1>1, <1>2 DEF Next

\* Once the run that published last has succeeded, the accounting support
\* lists the lines of the history, however many finalizes overlap or fail
\* between the two uploads.
THEOREM SupportFollowsHistory == Spec => []SupportMatches
  <1>1. Init => SupportInv
    BY OverlapInit DEF Init, SupportInv, SupportMatches
  <1>2. SupportInv => SupportMatches
    BY DEF SupportInv
  <1>3. QED
    BY <1>1, <1>2, SupportNext, PTL DEF Spec

-----------------------------------------------------------------------------
(* The sheets of the follow-ups                                            *)

\* Of a copy of the rows a run holds, all are still there, and of what others
\* have put since it lacks only rows the run has to put itself.
Fits(old, rows, new) ==
    /\ \A i \in DOMAIN old : Has(rows, old[i])
    /\ \A i \in DOMAIN rows : Has(old, rows[i]) \/ \E p \in new : SameKey(p, rows[i])

\* What a run is about to put: a copy without repeated keys, that fits unless
\* a run of another date has put since, or copies have crossed before.
Held(run, bk, old, new) ==
    /\ pend[bk] # None
    /\ Keyed(old)
    /\ run \notin overtaken /\ bk \notin crossed => Fits(old, pend[bk], new)

HeldThen(run, bk, old, new) ==
    /\ pend'[bk] # None
    /\ Keyed(old)
    /\ run \notin overtaken' /\ bk \notin crossed' => Fits(old, pend'[bk], new)

CopyFits(f) ==
    fpc[f] = "put" => Held(f, book[f], copy[f], RowsFor(snap[f], book[f]))
AwayFits(e) ==
    epc[e] = "put" => Held(e, e.book, away[e], {e.row})

SheetInv ==
    /\ OverlapInv
    /\ KeyedOnce
    /\ \A f \in Finalizes : CopyFits(f)
    /\ \A e \in Elsewhere : AwayFits(e)

\* Every row is still there, by its key, unless copies have crossed.
Grown ==
    /\ crossed \subseteq crossed'
    /\ \A bk \in Books : pend[bk] # None =>
         /\ pend'[bk] # None
         /\ bk \notin crossed' => \A i \in DOMAIN pend[bk] : Has(pend'[bk], pend[bk][i])

LEMMA HasIsByKey ==
    ASSUME NEW rows, NEW p, NEW q, Has(rows, p), SameKey(p, q)
    PROVE  Has(rows, q)
  BY SameKeyIsEquivalence DEF Has

LEMMA HasItsOwn == \A rows : \A i \in DOMAIN rows : Has(rows, rows[i])
  BY DEF Has, SameKey

\* What the put of a copy leaves in the workbook of its follow-up, and what a
\* copy that fits leaves of the rows that were there.
LEMMA UpsertLeaves ==
    ASSUME NEW old \in Seq(Pendiente), NEW rows, NEW new, Keyed(old), Rowset(new)
    PROVE  /\ Upsert(old, new) \in Seq(Pendiente) /\ Upsert(old, new) # None
           /\ Keyed(Upsert(old, new))
           /\ \A p \in new : Has(Upsert(old, new), p)
           /\ Fits(old, rows, new) =>
                /\ \A i \in DOMAIN rows : Has(Upsert(old, new), rows[i])
                /\ \A i \in DOMAIN Upsert(old, new) :
                     \/ Has(rows, Upsert(old, new)[i])
                     \/ \E p \in new : SameKey(p, Upsert(old, new)[i])
  <1> DEFINE put == Upsert(old, new)
  <1>1. /\ put \in Seq(Pendiente) /\ Keyed(put)
        /\ \A i \in DOMAIN old : Has(put, old[i])
        /\ \A p \in new : Has(put, p)
        /\ \A i \in DOMAIN put : Has(old, put[i]) \/ \E p \in new : SameKey(p, put[i])
    BY UpsertKeeps
  <1> HIDE DEF put
  <1>2. put # None
    BY <1>1, FlowAssumption
  <1>3. ASSUME Fits(old, rows, new), NEW i \in DOMAIN rows PROVE Has(put, rows[i])
    <2>1. CASE Has(old, rows[i])
      <3>1. PICK j \in DOMAIN old : SameKey(old[j], rows[i])
        BY <2>1 DEF Has
      <3>2. QED
        BY <3>1, <1>1, HasIsByKey
    <2>2. CASE \E p \in new : SameKey(p, rows[i])
      BY <2>2, <1>1, HasIsByKey
    <2>3. QED
      BY <2>1, <2>2, <1>3 DEF Fits
  <1>4. ASSUME Fits(old, rows, new), NEW i \in DOMAIN put
        PROVE  Has(rows, put[i]) \/ \E p \in new : SameKey(p, put[i])
    <2>1. CASE Has(old, put[i])
      <3>1. PICK j \in DOMAIN old : SameKey(old[j], put[i])
        BY <2>1 DEF Has
      <3>2. QED
        BY <3>1, <1>4, HasIsByKey DEF Fits
    <2>2. CASE \E p \in new : SameKey(p, put[i])
      BY <2>2
    <2>3. QED
      BY <2>1, <2>2, <1>1
  <1>5. QED
    BY <1>1, <1>2, <1>3, <1>4 DEF put

\* A copy fits until it is overtaken: where the one that is put lacks nothing
\* but rows both runs put.
LEMMA FitsStays ==
    ASSUME NEW old, NEW rows, NEW put, NEW new, Fits(old, rows, new),
           \A i \in DOMAIN rows : Has(put, rows[i]),
           \A i \in DOMAIN put : Has(rows, put[i]) \/ \E p \in new : SameKey(p, put[i])
    PROVE  Fits(old, put, new)
  <1>1. ASSUME NEW i \in DOMAIN old PROVE Has(put, old[i])
    <2>1. PICK j \in DOMAIN rows : SameKey(rows[j], old[i])
      BY DEF Fits, Has
    <2>2. QED
      BY <2>1, HasIsByKey
  <1>2. ASSUME NEW i \in DOMAIN put
        PROVE  Has(old, put[i]) \/ \E p \in new : SameKey(p, put[i])
    <2>1. CASE Has(rows, put[i])
      <3>1. PICK j \in DOMAIN rows : SameKey(rows[j], put[i])
        BY <2>1 DEF Has
      <3>2. CASE Has(old, rows[j])
        BY <3>1, <3>2, HasIsByKey
      <3>3. CASE \E p \in new : SameKey(p, rows[j])
        BY <3>1, <3>3, SameKeyIsEquivalence
      <3>4. QED
        BY <3>2, <3>3 DEF Fits
    <2>2. CASE \E p \in new : SameKey(p, put[i])
      BY <2>2
    <2>3. QED
      BY <2>1, <2>2
  <1>3. QED
    BY <1>1, <1>2 DEF Fits

\* A run that has the copy of a sheet: unchanged since, or just taken.
LEMMA CopyStays ==
    ASSUME TypeInv, NEW f \in Finalizes, Finalize(f), fpc'[f] = "put"
    PROVE  GetBook(f) /\ UNCHANGED <<pend, book, snap>> /\ pend[book[f]] # None
             /\ copy'[f] = pend[book[f]]
  <1>1. fpc \in [Finalizes -> FLabels] /\ DOMAIN copy = Finalizes
    BY DEF TypeInv, TypeOK
  <1>2. GetBook(f)
    BY <1>1 DEF Finalize, Read, ListFolder, PostFolder, Routes, Exists,
       PutBook, PutHistory, PutSupport, FinalizeFails, NextLine, NextBook, Ends, Goto
  <1>3. QED
    BY <1>1, <1>2 DEF GetBook, NextBook, Goto

\* The put of a run: what it leaves in each workbook, whose copies it overtakes.
Stored(run, bk, readers, new) ==
    /\ bk \in Books
    /\ pend'[bk] \in Seq(Pendiente) /\ pend'[bk] # None
    /\ Keyed(pend'[bk])
    /\ \A p \in new : Has(pend'[bk], p)
    /\ \A other \in Books \ {bk} : pend'[other] = pend[other]
    /\ crossed \subseteq crossed'
    /\ (overtaken \cup readers) \ {run} \subseteq overtaken'
    /\ bk \notin crossed' =>
         /\ \A i \in DOMAIN pend[bk] : Has(pend'[bk], pend[bk][i])
         /\ \A i \in DOMAIN pend'[bk] :
              Has(pend[bk], pend'[bk][i]) \/ \E p \in new : SameKey(p, pend'[bk][i])

LEMMA PutLeaves ==
    ASSUME pend \in [Books -> Seq(Pendiente) \cup {None}],
           NEW run, NEW bk \in Books, NEW readers, NEW old \in Seq(Pendiente), NEW new,
           Rowset(new), Held(run, bk, old, new), Crosses(run, bk, readers),
           pend' = [pend EXCEPT ![bk] = Upsert(old, new)], pend' # pend
    PROVE  Stored(run, bk, readers, new)
  <1> DEFINE rows == pend[bk]
             put == Upsert(old, new)
  <1>1. pend'[bk] = put /\ \A other \in Books \ {bk} : pend'[other] = pend[other]
    OBVIOUS
  <1>2. /\ overtaken' = (overtaken \cup readers) \ {run}
        /\ crossed' = crossed \cup IF run \in overtaken THEN {bk} ELSE {}
    BY DEF Crosses
  <1>3. bk \notin crossed' => Fits(old, rows, new)
    BY <1>2 DEF Held
  <1>4. Keyed(old)
    BY DEF Held
  <1> HIDE DEF rows, put
  <1>5. /\ put \in Seq(Pendiente) /\ put # None /\ Keyed(put)
        /\ \A p \in new : Has(put, p)
        /\ Fits(old, rows, new) =>
             /\ \A i \in DOMAIN rows : Has(put, rows[i])
             /\ \A i \in DOMAIN put : Has(rows, put[i]) \/ \E p \in new : SameKey(p, put[i])
    BY <1>4, UpsertLeaves DEF put
  <1>6. QED
    BY <1>1, <1>2, <1>3, <1>5 DEF Stored, rows

\* The copies the other runs hold survive such a put.
LEMMA HeldStays ==
    ASSUME NEW run, NEW bk \in Books, NEW readers, NEW own, Stored(run, bk, readers, own),
           NEW other, other # run, NEW ob \in Books, NEW old, NEW new,
           Held(other, ob, old, new),
           ob = bk => other \in readers \/ new = own
    PROVE  HeldThen(other, ob, old, new)
  <1>1. /\ other \notin overtaken' => other \notin overtaken \cup readers
        /\ ob \notin crossed' => ob \notin crossed
    BY DEF Stored
  <1>2. CASE ob # bk
    BY <1>1, <1>2 DEF Stored, Held, HeldThen
  <1>3. CASE ob = bk
    <2>1. pend'[ob] # None /\ Keyed(old)
      BY <1>3 DEF Stored, Held
    <2>2. ASSUME other \notin overtaken', ob \notin crossed' PROVE Fits(old, pend'[ob], new)
      <3>1. Fits(old, pend[ob], new) /\ new = own
        BY <1>1, <1>3, <2>2 DEF Held
      <3>2. /\ \A i \in DOMAIN pend[ob] : Has(pend'[ob], pend[ob][i])
            /\ \A i \in DOMAIN pend'[ob] :
                 Has(pend[ob], pend'[ob][i]) \/ \E p \in new : SameKey(p, pend'[ob][i])
        BY <1>3, <2>2, <3>1 DEF Stored
      <3>3. QED
        BY <3>1, <3>2, FitsStays
    <2>3. QED
      BY <2>1, <2>2 DEF HeldThen
  <1>4. QED
    BY <1>2, <1>3

\* A step without a put overtakes and crosses nothing.
LEMMA HeldUnlessPut ==
    ASSUME NEW run, NEW bk, NEW readers, Crosses(run, bk, readers), pend' = pend,
           NEW other, other # run, NEW ob, NEW old, NEW new, Held(other, ob, old, new)
    PROVE  HeldThen(other, ob, old, new)
  <1>1. overtaken' = overtaken \ {run} /\ crossed' = crossed
    BY DEF Crosses
  <1>2. QED
    BY <1>1 DEF Held, HeldThen

LEMMA StoredGrows ==
    ASSUME NEW run, NEW bk, NEW readers, NEW new, Stored(run, bk, readers, new)
    PROVE  Grown
  BY HasItsOwn DEF Grown, Stored

LEMMA StoredKeyed ==
    ASSUME KeyedOnce, NEW run, NEW bk, NEW readers, NEW new, Stored(run, bk, readers, new)
    PROVE  KeyedOnce'
  BY DEF KeyedOnce, Keyed, Stored

LEMMA RunsDiffer == \A f \in Finalizes, e \in Elsewhere : f # e
  BY FlowAssumption

\* Which of the copies a finalize of this date overtakes, and which it does not.
LEMMA FinalizePuts ==
    ASSUME SheetInv, NEW f \in Finalizes, Finalize(f), pend' # pend
    PROVE  /\ fpc[f] = "put"
           /\ Stored(f, book[f], Away(book[f]), RowsFor(snap[f], book[f]))
  <1>a. TypeInv /\ Crosses(f, book[f], Away(book[f]))
    BY DEF SheetInv, OverlapInv, Finalize
  <1>1. fpc[f] = "put" /\ pend' = [pend EXCEPT ![book[f]] = NewRows(f)]
    BY <1>a, StepsFrame2 DEF Frame2
  <1>2. /\ snap[f] \in Review /\ book[f] \in Books /\ copy[f] \in Seq(Pendiente)
        /\ pend \in [Books -> Seq(Pendiente) \cup {None}]
    BY <1>a, <1>1 DEF TypeInv, TypeOK, FActive
  <1>3. Rowset(RowsFor(snap[f], book[f])) /\ Held(f, book[f], copy[f], RowsFor(snap[f], book[f]))
    BY <1>1, <1>2, RowsForIsRowset DEF SheetInv, CopyFits
  <1>4. QED
    BY <1>a, <1>1, <1>2, <1>3, PutLeaves DEF NewRows

LEMMA ElsewherePuts ==
    ASSUME SheetInv, NEW e \in Elsewhere, FinalizeElsewhere(e), pend' # pend
    PROVE  /\ epc[e] = "put"
           /\ Stored(e, e.book, Here(e.book) \cup (Away(e.book) \ {e}), {e.row})
  <1>a. /\ pend \in [Books -> Seq(Pendiente) \cup {None}] /\ e.book \in Books
        /\ away \in [Elsewhere -> Seq(Pendiente)]
        /\ Crosses(e, e.book, Here(e.book) \cup (Away(e.book) \ {e}))
    BY FlowAssumption DEF SheetInv, OverlapInv, TypeInv, TypeOK, FinalizeElsewhere
  <1>1. epc[e] = "put" /\ pend' = [pend EXCEPT ![e.book] = Upsert(away[e], {e.row})]
    BY DEF FinalizeElsewhere, GetElsewhere, PutElsewhere
  <1>2. Rowset({e.row}) /\ Held(e, e.book, away[e], {e.row})
    BY <1>1, RowIsRowset DEF SheetInv, AwayFits
  <1>3. QED
    BY <1>a, <1>1, <1>2, PutLeaves

\* The copies after a step of a finalize of this date.
LEMMA FinalizeFits ==
    ASSUME SheetInv, NEW f \in Finalizes, Finalize(f)
    PROVE  (\A g \in Finalizes : CopyFits(g)') /\ (\A e \in Elsewhere : AwayFits(e)')
  <1>a. /\ TypeInv /\ OverlapInv /\ Shapes
        /\ Crosses(f, book[f], Away(book[f])) /\ UNCHANGED <<epc, away>>
    BY DEF SheetInv, OverlapInv, Reports, Finalize
  <1>b. Frame(f) /\ Frame2(f)
    BY <1>a, StepsFrame, StepsFrame2
  <1>1. ASSUME NEW g \in Finalizes \ {f}, fpc'[g] = "put" PROVE CopyFits(g)'
    <2>1. /\ fpc[g] = "put" /\ snap'[g] = snap[g] /\ book'[g] = book[g]
          /\ copy'[g] = copy[g] /\ book[g] \in Books
      BY <1>a, <1>b, <1>1 DEF Frame, Frame2, TypeInv, TypeOK
    <2>2. Held(g, book[g], copy[g], RowsFor(snap[g], book[g]))
      BY <2>1 DEF SheetInv, CopyFits
    <2>3. HeldThen(g, book[g], copy[g], RowsFor(snap[g], book[g]))
      <3>1. CASE pend' = pend
        BY <1>a, <2>1, <2>2, <3>1, HeldUnlessPut
      <3>2. CASE pend' # pend
        <4>1. fpc[f] = "put" /\ Stored(f, book[f], Away(book[f]), RowsFor(snap[f], book[f]))
          BY <3>2, FinalizePuts
        <4>2. snap[f] = snap[g]
          BY <1>a, <2>1, <4>1, SameWorkbook DEF FActive
        <4>3. book[f] \in Books
          BY <4>1 DEF Stored
        <4>4. QED
          BY <2>1, <2>2, <4>1, <4>2, <4>3, HeldStays
      <3>3. QED
        BY <3>1, <3>2
    <2>4. QED
      BY <2>1, <2>3 DEF CopyFits, Held, HeldThen
  <1>2. ASSUME fpc'[f] = "put" PROVE CopyFits(f)'
    <2>1. /\ UNCHANGED <<pend, book, snap>> /\ pend[book[f]] # None
          /\ copy'[f] = pend[book[f]] /\ book[f] \in Books
      BY <1>a, <1>2, CopyStays DEF TypeInv, TypeOK
    <2>2. Keyed(copy'[f])
      BY <2>1 DEF SheetInv, KeyedOnce, Keyed
    <2>3. QED
      BY <2>1, <2>2, HasItsOwn DEF CopyFits, Held, Fits
  <1>3. ASSUME NEW e \in Elsewhere, epc'[e] = "put" PROVE AwayFits(e)'
    <2>1. epc[e] = "put" /\ away'[e] = away[e] /\ e.book \in Books /\ f # e
      BY <1>a, <1>3, RunsDiffer, FlowAssumption
    <2>2. Held(e, e.book, away[e], {e.row})
      BY <2>1 DEF SheetInv, AwayFits
    <2>3. HeldThen(e, e.book, away[e], {e.row})
      <3>1. CASE pend' = pend
        BY <1>a, <2>1, <2>2, <3>1, HeldUnlessPut
      <3>2. CASE pend' # pend
        <4>1. Stored(f, book[f], Away(book[f]), RowsFor(snap[f], book[f])) /\ book[f] \in Books
          BY <3>2, FinalizePuts DEF Stored
        <4>2. e.book = book[f] => e \in Away(book[f])
          BY <2>1 DEF Away
        <4>3. QED
          BY <2>1, <2>2, <4>1, <4>2, HeldStays
      <3>3. QED
        BY <3>1, <3>2
    <2>4. QED
      BY <2>1, <2>3 DEF AwayFits, Held, HeldThen
  <1>4. QED
    BY <1>1, <1>2, <1>3 DEF CopyFits, AwayFits

\* The copies after a step of a finalize of another date.
LEMMA ElsewhereFits ==
    ASSUME SheetInv, NEW e \in Elsewhere, FinalizeElsewhere(e)
    PROVE  (\A f \in Finalizes : CopyFits(f)') /\ (\A d \in Elsewhere : AwayFits(d)')
  <1> DEFINE readers == Here(e.book) \cup (Away(e.book) \ {e})
  <1>a. /\ Crosses(e, e.book, readers) /\ UNCHANGED <<fpc, snap, book, copy>>
        /\ e.book \in Books /\ book \in [Finalizes -> Books]
        /\ DOMAIN epc = Elsewhere /\ DOMAIN away = Elsewhere
    BY FlowAssumption DEF SheetInv, OverlapInv, TypeInv, TypeOK, FinalizeElsewhere, mine
  <1>p. pend' # pend => Stored(e, e.book, readers, {e.row})
    BY ElsewherePuts
  <1>r. /\ \A f \in Finalizes : fpc[f] = "put" /\ book[f] = e.book => f \in readers
        /\ \A d \in Elsewhere \ {e} : epc[d] = "put" /\ d.book = e.book => d \in readers
    BY DEF Here, Away
  <1> HIDE DEF readers
  <1>1. ASSUME NEW f \in Finalizes, fpc'[f] = "put" PROVE CopyFits(f)'
    <2>1. Held(f, book[f], copy[f], RowsFor(snap[f], book[f])) /\ fpc[f] = "put"
      BY <1>a, <1>1 DEF SheetInv, CopyFits
    <2>2. f # e /\ book[f] \in Books
      BY <1>a, RunsDiffer
    <2>3. HeldThen(f, book[f], copy[f], RowsFor(snap[f], book[f]))
      <3>1. CASE pend' = pend
        BY <1>a, <2>1, <2>2, <3>1, HeldUnlessPut
      <3>2. CASE pend' # pend
        BY <1>a, <1>p, <1>r, <2>1, <2>2, <3>2, HeldStays
      <3>3. QED
        BY <3>1, <3>2
    <2>4. QED
      BY <1>a, <2>1, <2>3 DEF CopyFits, Held, HeldThen
  <1>2. ASSUME NEW d \in Elsewhere \ {e}, epc'[d] = "put" PROVE AwayFits(d)'
    <2>1. epc[d] = "put" /\ away'[d] = away[d]
      BY <1>a, <1>2 DEF FinalizeElsewhere, GetElsewhere, PutElsewhere
    <2>2. Held(d, d.book, away[d], {d.row}) /\ d.book \in Books
      BY <2>1, FlowAssumption DEF SheetInv, AwayFits
    <2>3. HeldThen(d, d.book, away[d], {d.row})
      <3>1. CASE pend' = pend
        BY <1>a, <2>1, <2>2, <3>1, HeldUnlessPut
      <3>2. CASE pend' # pend
        BY <1>a, <1>p, <1>r, <2>1, <2>2, <3>2, HeldStays
      <3>3. QED
        BY <3>1, <3>2
    <2>4. QED
      BY <2>1, <2>3 DEF AwayFits, Held, HeldThen
  <1>3. ASSUME epc'[e] = "put" PROVE AwayFits(e)'
    <2>1. GetElsewhere(e)
      BY <1>a, <1>3 DEF FinalizeElsewhere, PutElsewhere
    <2>2. pend' = pend /\ pend[e.book] # None /\ away'[e] = pend[e.book]
      BY <1>a, <2>1 DEF GetElsewhere
    <2>3. Keyed(away'[e])
      BY <1>a, <2>2 DEF SheetInv, KeyedOnce, Keyed
    <2>4. QED
      BY <2>2, <2>3, HasItsOwn DEF AwayFits, Held, Fits
  <1>4. QED
    BY <1>1, <1>2, <1>3 DEF CopyFits, AwayFits

LEMMA SheetNext == SheetInv /\ [Next]_vars => SheetInv' /\ Grown
  <1> SUFFICES ASSUME SheetInv, [Next]_vars PROVE SheetInv' /\ Grown
    OBVIOUS
  <1>a. OverlapInv'
    BY OverlapNext DEF SheetInv
  <1>1. ASSUME UNCHANGED <<pend, fpc, snap, book, copy, dates>> PROVE SheetInv' /\ Grown
    <2>1. Grown
      BY <1>1, HasItsOwn DEF Grown, dates
    <2>2. KeyedOnce'
      BY <1>1 DEF SheetInv, KeyedOnce
    <2>3. ASSUME NEW g \in Finalizes PROVE CopyFits(g)'
      BY <1>1 DEF SheetInv, CopyFits, Held, dates
    <2>4. ASSUME NEW e \in Elsewhere PROVE AwayFits(e)'
      BY <1>1 DEF SheetInv, AwayFits, Held, dates
    <2>5. QED
      BY <1>a, <2>1, <2>2, <2>3, <2>4 DEF SheetInv
  <1>2. ASSUME pend' = pend, NEW run, NEW bk, NEW readers, Crosses(run, bk, readers)
        PROVE  KeyedOnce' /\ Grown
    BY <1>2, HasItsOwn DEF SheetInv, KeyedOnce, Grown, Crosses
  <1>3. ASSUME NEW f \in Finalizes, Finalize(f) PROVE SheetInv' /\ Grown
    <2>1. (\A g \in Finalizes : CopyFits(g)') /\ (\A e \in Elsewhere : AwayFits(e)')
      BY <1>3, FinalizeFits
    <2>2. Crosses(f, book[f], Away(book[f]))
      BY <1>3 DEF Finalize
    <2>3. KeyedOnce' /\ Grown
      <3>1. CASE pend' = pend
        BY <1>2, <2>2, <3>1
      <3>2. CASE pend' # pend
        BY <1>3, <3>2, FinalizePuts, StoredKeyed, StoredGrows DEF SheetInv
      <3>3. QED
        BY <3>1, <3>2
    <2>4. QED
      BY <1>a, <2>1, <2>3 DEF SheetInv
  <1>4. ASSUME NEW e \in Elsewhere, FinalizeElsewhere(e) PROVE SheetInv' /\ Grown
    <2>1. (\A f \in Finalizes : CopyFits(f)') /\ (\A d \in Elsewhere : AwayFits(d)')
      BY <1>4, ElsewhereFits
    <2>2. Crosses(e, e.book, Here(e.book) \cup (Away(e.book) \ {e}))
      BY <1>4 DEF FinalizeElsewhere
    <2>3. KeyedOnce' /\ Grown
      <3>1. CASE pend' = pend
        BY <1>2, <2>2, <3>1
      <3>2. CASE pend' # pend
        BY <1>4, <3>2, ElsewherePuts, StoredKeyed, StoredGrows DEF SheetInv
      <3>3. QED
        BY <3>1, <3>2
    <2>4. QED
      BY <1>a, <2>1, <2>3 DEF SheetInv
  <1>5. CASE \/ \E g \in Generates : Generate(g)
             \/ Secretary
             \/ UNCHANGED vars
    <2>1. UNCHANGED <<pend, fpc, snap, book, copy, dates>>
      BY <1>5 DEF Generate, Secretary, vars, files, mine
    <2>2. QED
      BY <1>1, <2>1
  <1>6. QED
    BY <1>3, <1>4, <1>5 DEF Next

LEMMA SheetInit == Init => SheetInv
  <1> SUFFICES ASSUME Init PROVE SheetInv
    OBVIOUS
  <1>1. \A bk \in Books : pend[bk] # None => pend[bk] = <<>>
    BY DEF Init
  <1>2. KeyedOnce
    BY <1>1 DEF KeyedOnce
  <1>3. \A f \in Finalizes : CopyFits(f)
    BY DEF Init, CopyFits
  <1>4. \A e \in Elsewhere : AwayFits(e)
    BY DEF Init, AwayFits
  <1>5. QED
    BY <1>2, <1>3, <1>4, OverlapInit DEF SheetInv

\* A payment has one row per credit in a follow-up workbook, however often
\* finalize is repeated, fails on its way or runs twice at the same time, and
\* whatever the finalizes of other dates put over it.
THEOREM FollowUpsKeyed == Spec => []KeyedOnce
  <1>1. SheetInv => KeyedOnce
    BY DEF SheetInv
  <1>2. QED
    BY <1>1, SheetInit, SheetNext, PTL DEF Spec

\* No finalize removes a payment from a follow-up workbook: neither one of this
\* date that puts a copy which it read before the put of another one of this
\* date, because both put the rows of one review, nor one of another date,
\* unless runs of two dates have put their copies of that workbook across each
\* other: then rows may be lost, as the puts have no condition.
THEOREM FollowUpsAreKept == Spec => FollowUpsStay
  <1> DEFINE Stay == \A bk \in Books \ crossed' : pend[bk] # None =>
                       /\ pend'[bk] # None
                       /\ \A i \in DOMAIN pend[bk] : Has(pend'[bk], pend[bk][i])
  <1>1. SheetInv /\ [Next]_vars => [Stay]_vars
    <2> SUFFICES ASSUME SheetInv, [Next]_vars PROVE Stay
      OBVIOUS
    <2>1. Grown
      BY SheetNext
    <2>2. QED
      BY <2>1 DEF Grown
  <1> HIDE DEF Stay
  <1>2. Spec => [][Stay]_vars
    BY <1>1, SheetInit, SheetNext, PTL DEF Spec
  <1>3. QED
    BY <1>2 DEF FollowUpsStay, Stay

-----------------------------------------------------------------------------
(* What a run has registered                                               *)

\* The sheet of a follow-up has every row of a review for it.
Registered(r, bk, sheet) == \A p \in RowsFor(r, bk) : sheet # None /\ Has(sheet, p)

\* The follow-ups a run is done with are registered or warned about, or copies
\* of them have crossed, and the run that published last has published what it
\* registered.
Follows(f) ==
    /\ fpc[f] \in {"idle", "folder", "post", "routes", "exists"} => book[f] = "ADELANTADO"
    /\ fpc[f] \in {"get", "put"} /\ book[f] = "INCOMPLETO" =>
         \/ "ADELANTADO" \in warned[f] \cup crossed
         \/ Registered(snap[f], "ADELANTADO", pend["ADELANTADO"])
    /\ fpc[f] \in {"history", "support"} =>
         \A bk \in Books \ (warned[f] \cup crossed) : Registered(snap[f], bk, pend[bk])
    /\ last = f /\ fpc[f] \in {"support", "success"} =>
         \A bk \in Books \ (warned[f] \cup crossed) : Registered(history, bk, pend[bk])

FollowInv == SheetInv /\ \A f \in Finalizes : Follows(f)

LEMMA RegisteredStays ==
    ASSUME Grown, NEW r, NEW bk \in Books \ crossed', Registered(r, bk, pend[bk])
    PROVE  Registered(r, bk, pend'[bk])
  <1> SUFFICES ASSUME NEW p \in RowsFor(r, bk) PROVE pend'[bk] # None /\ Has(pend'[bk], p)
    BY DEF Registered
  <1>1. PICK i \in DOMAIN pend[bk] : pend[bk] # None /\ SameKey(pend[bk][i], p)
    BY DEF Registered, Has
  <1>2. pend'[bk] # None /\ Has(pend'[bk], pend[bk][i])
    BY <1>1 DEF Grown
  <1>3. QED
    BY <1>1, <1>2, HasIsByKey

LEMMA FollowsStays ==
    ASSUME Grown, NEW f \in Finalizes, Follows(f),
           UNCHANGED <<fpc[f], snap[f], book[f], warned[f]>>,
           UNCHANGED <<history, last>> \/ last' # f
    PROVE  Follows(f)'
  <1>1. "ADELANTADO" \in Books /\ crossed \subseteq crossed'
    BY DEF Books, Grown
  <1>2. QED
    BY <1>1, RegisteredStays DEF Follows

\* A step of NextBook with the follow-up in turn registered or warned about.
LEMMA NextBookFollows ==
    ASSUME FollowInv, Grown, NEW f \in Finalizes, NextBook(f), fpc[f] \in {"get", "put"},
           UNCHANGED <<snap, last>>, warned[f] \subseteq warned'[f],
           book[f] \in warned'[f] \/ Registered(snap[f], book[f], pend'[book[f]])
    PROVE  Follows(f)'
  <1>1. /\ book \in [Finalizes -> Books] /\ fpc \in [Finalizes -> FLabels]
        /\ Books = {"ADELANTADO", "INCOMPLETO"}
        /\ Follows(f) /\ crossed \subseteq crossed'
    BY DEF FollowInv, SheetInv, OverlapInv, TypeInv, TypeOK, Books, Grown
  <1>2. CASE book[f] = "ADELANTADO"
    <2>1. fpc'[f] = "get" /\ book'[f] = "INCOMPLETO"
      BY <1>1, <1>2 DEF NextBook, Goto
    <2>2. QED
      BY <1>2, <2>1 DEF Follows
  <1>3. CASE book[f] = "INCOMPLETO"
    <2>1. fpc'[f] = "history"
      BY <1>1, <1>3 DEF NextBook, Goto
    <2>2. \/ "ADELANTADO" \in warned'[f] \cup crossed'
          \/ Registered(snap[f], "ADELANTADO", pend'["ADELANTADO"])
      BY <1>1, <1>3, RegisteredStays DEF Follows
    <2>3. \A bk \in Books \ (warned'[f] \cup crossed') : Registered(snap[f], bk, pend'[bk])
      BY <1>1, <1>3, <2>2
    <2>4. QED
      BY <2>1, <2>3 DEF Follows
  <1>4. QED
    BY <1>1, <1>2, <1>3

LEMMA OwnFollows ==
    ASSUME FollowInv, NEW f \in Finalizes, Finalize(f), Grown
    PROVE  Follows(f)'
  <1> USE DEF Goto, FLabels, FActive
  <1>a. /\ fpc \in [Finalizes -> FLabels] /\ book \in [Finalizes -> Books]
        /\ DOMAIN warned = Finalizes /\ DOMAIN snap = Finalizes
        /\ Follows(f) /\ crossed \subseteq crossed'
    BY DEF FollowInv, SheetInv, OverlapInv, TypeInv, TypeOK, Grown
  <1>1. CASE Read(f)
    <2>1. fpc'[f] \in {"folder", "failed"} /\ book'[f] = book[f] /\ fpc[f] = "idle"
      BY <1>1, <1>a DEF Read
    <2>2. QED
      BY <1>a, <2>1 DEF Follows
  <1>2. CASE ListFolder(f) \/ PostFolder(f) \/ Routes(f)
    <2>1. /\ fpc'[f] \in {"folder", "post", "routes", "exists"} /\ book'[f] = book[f]
          /\ fpc[f] \in {"folder", "post", "routes"}
      BY <1>2, <1>a DEF ListFolder, PostFolder, Routes, NextLine
    <2>2. QED
      BY <1>a, <2>1 DEF Follows
  <1>3. CASE Exists(f)
    <2>1. fpc'[f] = "get" /\ book'[f] = book[f] /\ fpc[f] = "exists"
      BY <1>3, <1>a DEF Exists
    <2>2. QED
      BY <1>a, <2>1 DEF Follows
  <1>4. CASE GetBook(f)
    <2>1. /\ fpc[f] = "get" /\ UNCHANGED <<snap, last>> /\ warned[f] \subseteq warned'[f]
      BY <1>4, <1>a DEF GetBook, ghost
    <2>2. CASE RowsFor(snap[f], book[f]) = {} /\ NextBook(f)
      BY <2>1, <2>2, NextBookFollows DEF Registered
    <2>3. CASE warned' = [warned EXCEPT ![f] = @ \cup {book[f]}] /\ NextBook(f)
      <3>1. book[f] \in warned'[f]
        BY <1>a, <2>3
      <3>2. QED
        BY <2>1, <2>3, <3>1, NextBookFollows
    <2>4. CASE Goto(f, "put") /\ UNCHANGED <<book, warned, pend>>
      BY <1>a, <2>1, <2>4 DEF Follows
    <2>5. QED
      BY <1>4, <2>2, <2>3, <2>4 DEF GetBook
  <1>5. CASE PutBook(f)
    <2>1. /\ fpc[f] = "put" /\ pend' = [pend EXCEPT ![book[f]] = NewRows(f)]
          /\ NextBook(f) /\ UNCHANGED <<snap, last, warned>>
      BY <1>5 DEF PutBook, ghost
    <2>2. Registered(snap[f], book[f], pend'[book[f]])
      <3>1. /\ snap[f] \in Review /\ book[f] \in Books /\ copy[f] \in Seq(Pendiente)
            /\ DOMAIN pend = Books
        BY <2>1 DEF FollowInv, SheetInv, OverlapInv, TypeInv, TypeOK
      <3>2. Rowset(RowsFor(snap[f], book[f])) /\ Keyed(copy[f])
        BY <2>1, <3>1, RowsForIsRowset DEF FollowInv, SheetInv, CopyFits, Held
      <3>3. pend'[book[f]] = Upsert(copy[f], RowsFor(snap[f], book[f]))
        BY <2>1, <3>1 DEF NewRows
      <3>4. QED
        BY <3>1, <3>2, <3>3, UpsertLeaves DEF Registered
    <2>3. QED
      BY <2>1, <2>2, NextBookFollows
  <1>6. CASE PutHistory(f)
    <2>1. /\ fpc[f] = "history" /\ fpc'[f] = "support" /\ history' = snap[f]
          /\ UNCHANGED <<pend, snap, warned>>
      BY <1>6, <1>a DEF PutHistory, Published
    <2>2. QED
      BY <1>a, <2>1 DEF Follows
  <1>7. CASE PutSupport(f)
    <2>1. /\ fpc[f] = "support" /\ fpc'[f] = "success"
          /\ UNCHANGED <<pend, history, last, warned>>
      BY <1>7, <1>a DEF PutSupport, Ends, ghost
    <2>2. QED
      BY <1>a, <2>1 DEF Follows
  <1>8. CASE FinalizeFails(f)
    <2>1. fpc'[f] = "failed"
      BY <1>8, <1>a DEF FinalizeFails, Ends
    <2>2. QED
      BY <2>1 DEF Follows
  <1>9. QED
    BY <1>1, <1>2, <1>3, <1>4, <1>5, <1>6, <1>7, <1>8 DEF Finalize

LEMMA FollowNext == FollowInv /\ [Next]_vars => FollowInv'
  <1> SUFFICES ASSUME FollowInv, [Next]_vars PROVE FollowInv'
    OBVIOUS
  <1>a. SheetInv' /\ Grown
    BY SheetNext DEF FollowInv
  <1>b. TypeInv /\ Shapes
    BY DEF FollowInv, SheetInv, OverlapInv, Reports
  <1>1. ASSUME NEW f \in Finalizes, Finalize(f) PROVE FollowInv'
    <2>1. Frame(f) /\ Frame2(f)
      BY <1>1, <1>b, StepsFrame, StepsFrame2
    <2>2. ASSUME NEW g \in Finalizes \ {f} PROVE Follows(g)'
      <3>1. UNCHANGED <<fpc[g], snap[g], book[g], warned[g]>>
        BY <2>1 DEF Frame, Frame2
      <3>2. UNCHANGED <<history, last>> \/ last' # g
        BY <2>1 DEF Frame2
      <3>3. QED
        BY <1>a, <3>1, <3>2, FollowsStays DEF FollowInv
    <2>3. Follows(f)'
      BY <1>1, <1>a, OwnFollows
    <2>4. \A g \in Finalizes : Follows(g)'
      BY <2>2, <2>3
    <2>5. QED
      BY <1>a, <2>4 DEF FollowInv
  <1>2. CASE \/ \E g \in Generates : Generate(g)
             \/ Secretary
             \/ \E e \in Elsewhere : FinalizeElsewhere(e)
             \/ UNCHANGED vars
    <2>1. UNCHANGED <<history, last, fpc, snap, book, warned>>
      BY <1>2 DEF Generate, Secretary, FinalizeElsewhere, vars, files, mine, ghost
    <2>2. ASSUME NEW f \in Finalizes PROVE Follows(f)'
      BY <2>1, <1>a, FollowsStays DEF FollowInv
    <2>3. QED
      BY <1>a, <2>2 DEF FollowInv
  <1>3. QED
    BY <1>1, <1>2 DEF Next

\* The run that published last and succeeded has every advance and incomplete
\* payment of the history in its follow-up workbook, or has warned about that
\* workbook: nothing another run puts later takes one out again, unless runs of
\* two dates have put their copies of that workbook across each other.
THEOREM FollowUpsRegistered == Spec => []FollowedUp
  <1>1. Init => FollowInv
    <2> SUFFICES ASSUME Init PROVE FollowInv
      OBVIOUS
    <2>1. \A f \in Finalizes : Follows(f)
      BY DEF Init, Follows
    <2>2. QED
      BY <2>1, SheetInit DEF FollowInv
  <1>2. FollowInv => FollowedUp
    <2> SUFFICES ASSUME FollowInv, last # None, fpc[last] = "success",
                        NEW bk \in Books \ (warned[last] \cup crossed)
                 PROVE  Registered(history, bk, pend[bk])
      BY DEF FollowedUp, Registered
    <2>1. last \in Finalizes
      BY DEF FollowInv, SheetInv, OverlapInv, TypeInv, TypeOK
    <2>2. Follows(last)
      BY <2>1 DEF FollowInv
    <2>3. QED
      BY <2>2 DEF Follows
  <1>3. QED
    BY <1>1, <1>2, FollowNext, PTL DEF Spec
=============================================================================
