------------------------- MODULE AmortizationProofs -------------------------
(***************************************************************************)
(* Proofs about AmortizationApply, for every set of asientos, tables, rows *)
(* and apply jobs, whatever accounting edits and whichever calls fail.     *)
(***************************************************************************)
EXTENDS AmortizationApply, WellFoundedInduction, TLAPS

-----------------------------------------------------------------------------
(* Types                                                                   *)

RunState == [pc : Labels, left : Seq(Events), plan : SUBSET Item,
             at : Tables \cup {None}, batch : SUBSET Item,
             base : Book, book : Book, done : SUBSET Item]

\* Some empty row or some agreeing row: the search finds the first one.
LEMMA FirstIsThere ==
    ASSUME NEW T \in SUBSET Rows, T # {}
    PROVE  First(T) \in T
  <1>1. T \subseteq Nat
    BY ApplyAssumption
  <1>2. PICK x \in T : \A y \in T : <<y, x>> \notin OpToRel(<, Nat)
    BY <1>1, NatLessThanWellFounded, WFMin
  <1>3. \A y \in T : x <= y
    <2> SUFFICES ASSUME NEW y \in T PROVE x <= y
      OBVIOUS
    <2>1. x \in Nat /\ y \in Nat
      BY <1>1
    <2>2. ~(y < x)
      BY <1>2, <2>1 DEF OpToRel
    <2>3. QED
      BY <2>1, <2>2
  <1>4. QED
    BY <1>3 DEF First

LEMMA EmptyTypes ==
    /\ EmptyBook \in Book
    /\ Fresh \in RunState
    /\ Nothing \in [Events -> Outcomes]
  <1>1. EmptyBook \in Book
    BY DEF EmptyBook, Book, Cell
  <1>2. Fresh \in RunState
    BY <1>1 DEF Fresh, RunState, Labels
  <1>3. QED
    BY <1>1, <1>2 DEF Nothing, Outcomes

LEMMA PlannedType ==
    ASSUME TypeOK, NEW e \in Events, NEW plan \in SUBSET Item
    PROVE  Planned(e, plan) \in Item
  <1> DEFINE reserved == {i.row : i \in {j \in plan : /\ j.status = "WOULD_APPLY"
                                                   /\ TableOf[j.event] = TableOf[e]}}
             content == Content[e][pdf[e]]
             cells == table[TableOf[e]].cells
             below == {r \in Rows : r >= Due[e]}
             same  == {r \in below : Compare(cells[r], content) = "ADOPTADO_EXISTENTE"}
             empty == {r \in below \ reserved : Compare(cells[r], content) = "APLICADO"}
             found == FindRow(e, content, reserved)
  <1>1. /\ found.row \in Rows \cup {None}
        /\ found.status \in {"WOULD_APPLY", "WOULD_ADOPT_EXISTING", "BLOCKED"}
    <2> HIDE DEF reserved, content
    <2>1. CASE same # {}
      <3>1. First(same) \in Rows
        BY <2>1, FirstIsThere
      <3>2. found = [status |-> "WOULD_ADOPT_EXISTING", row |-> First(same)]
        BY <2>1 DEF FindRow
      <3>3. QED
        BY <3>1, <3>2
    <2>2. CASE same = {} /\ empty # {}
      <3>1. First(empty) \in Rows
        BY <2>2, FirstIsThere
      <3>2. found = [status |-> "WOULD_APPLY", row |-> First(empty)]
        BY <2>2 DEF FindRow
      <3>3. QED
        BY <3>1, <3>2
    <2>3. CASE same = {} /\ empty = {}
      <3>1. found = [status |-> "BLOCKED", row |-> None]
        BY <2>3 DEF FindRow
      <3>2. QED
        BY <3>1
    <2>4. QED
      BY <2>1, <2>2, <2>3
  <1>2. PlanIbr(e, plan) \in
          {"WOULD_WRITE_IBR", "WOULD_SKIP_IBR_ALREADY_PLANNED", "PENDING_IBR"}
    BY DEF PlanIbr
  <1>3. pdf[e] \in Prints
    BY DEF TypeOK
  <1>4. Planned(e, plan) = [event |-> e, print |-> pdf[e], row |-> found.row,
                            status |-> found.status, ibr |-> PlanIbr(e, plan)]
    BY DEF Planned
  <1>5. QED
    BY <1>1, <1>2, <1>3, <1>4 DEF Item

LEMMA EditedType ==
    ASSUME NEW book \in Book, NEW i \in Item
    PROVE  Edited(i, book) \in Book
  <1>1. /\ i.event \in Events /\ i.print \in Prints
        /\ Content[i.event][i.print] \subseteq Marks
    BY DEF Item, Marks
  <1>2. [marks |-> Content[i.event][i.print], by |-> i.event] \in Cell
    BY <1>1 DEF Cell
  <1>3. Edited(i, book).cells \in [Rows -> Cell]
    BY <1>2 DEF Edited, Book
  <1>4. Edited(i, book).log \in [Events -> Prints \cup {None}]
    BY <1>1 DEF Edited, Book
  <1>5. Edited(i, book).ibr \subseteq Rows
    BY <1>1, ApplyAssumption DEF Edited, Book
  <1>6. QED
    BY <1>3, <1>4, <1>5 DEF Edited, Book

\* What a job does to its own state and reports keeps their types.
LEMMA BecomeType ==
    ASSUME TypeOK, NEW r \in Runs, NEW state \in RunState, Become(r, state)
    PROVE  me' \in [Runs -> RunState]
  BY DEF TypeOK, RunState, Become

LEMMA SaysType ==
    ASSUME TypeOK, NEW r \in Runs, NEW E, NEW o \in Outcomes, Says(r, E, o)
    PROVE  said' \in [Runs -> [Events -> Outcomes]]
  BY DEF TypeOK, Says

LEMMA NextTableType ==
    ASSUME TypeOK, NEW r \in Runs, NextTable(r)
    PROVE  me' \in [Runs -> RunState]
  <1>1. me[r] \in RunState
    BY DEF TypeOK, RunState
  <1>2. [me[r] EXCEPT !.pc = "tables", !.at = None, !.batch = {}, !.done = {},
                      !.base = EmptyBook, !.book = EmptyBook] \in RunState
    BY <1>1, EmptyTypes DEF RunState, Labels
  <1>3. QED
    BY <1>2, BecomeType DEF NextTable

LEMMA TableFailsType ==
    ASSUME TypeOK, NEW r \in Runs, TableFails(r)
    PROVE  /\ me' \in [Runs -> RunState]
           /\ said' \in [Runs -> [Events -> Outcomes]]
  <1>1. "error" \in Outcomes
    BY DEF Outcomes
  <1>2. QED
    BY <1>1, NextTableType, SaysType DEF TableFails

LEMMA StoredType ==
    ASSUME TypeOK, NEW r \in Runs, Stored(r)
    PROVE  table' \in [Tables -> Book] /\ stale' \in BOOLEAN
  BY DEF TypeOK, Stored

LEMMA TypeInit == Init => TypeOK
  <1> SUFFICES ASSUME Init PROVE TypeOK
    OBVIOUS
  <1>1. rates \subseteq Rows
    BY ApplyAssumption DEF Init
  <1>2. edits \in 0..MaxEdits
    BY ApplyAssumption DEF Init
  <1>3. QED
    BY <1>1, <1>2, EmptyTypes DEF Init, TypeOK, RunState

\* The steps of the apply jobs that touch no table.
LEMMA PrivateSteps ==
    ASSUME TypeOK, NEW r \in Runs,
           \/ Begin(r) \/ PlanEvent(r) \/ Preflight(r) \/ PlanFails(r)
           \/ Download(r) \/ DownloadRaises(r) \/ Finish(r) \/ ApplyItem(r)
           \/ ItemsDone(r) \/ PutLocked(r) \/ Verify(r) \/ VerifyRaises(r)
           \/ Crash(r)
    PROVE  TypeOK'
  <1> DEFINE Kept == /\ me' \in [Runs -> RunState]
                     /\ said' \in [Runs -> [Events -> Outcomes]]
  <1>a. me[r] \in RunState
    BY DEF TypeOK, RunState
  <1>b. {"none", "planned", "applied", "adopted", "skipped", "error"} \subseteq Outcomes
    BY DEF Outcomes
  <1>c. said \in [Runs -> [Events -> Outcomes]]
    BY DEF TypeOK
  <1>d. [Fresh EXCEPT !.pc = "ended"] \in RunState
    BY EmptyTypes DEF RunState, Labels
  <1>e. ASSUME NEW t \in Tables, NEW batch \in SUBSET Item
        PROVE  [me[r] EXCEPT !.pc = "items", !.at = t, !.batch = batch,
                             !.plan = @ \ batch, !.base = table[t],
                             !.book = table[t]] \in RunState
    BY <1>a DEF RunState, Labels, TypeOK
  <1>1. CASE Begin(r)
    <2>1. PICK m \in Manifests : Become(r, [Fresh EXCEPT !.pc = "plan", !.left = m])
      BY <1>1 DEF Begin
    <2>2. [Fresh EXCEPT !.pc = "plan", !.left = m] \in RunState
      BY EmptyTypes, ApplyAssumption DEF RunState, Labels
    <2>3. said' \in [Runs -> [Events -> Outcomes]]
      BY <1>1, <1>c, EmptyTypes DEF Begin
    <2>4. QED
      BY <1>1, <2>1, <2>2, <2>3, BecomeType DEF Begin, Accounting, TypeOK, RunState
  <1>2. CASE PlanEvent(r)
    <2>1. Head(me[r].left) \in Events /\ Tail(me[r].left) \in Seq(Events)
      BY <1>2, <1>a DEF PlanEvent, RunState
    <2>2. Planned(Head(me[r].left), me[r].plan) \in Item
      BY <2>1, <1>a, PlannedType DEF RunState
    <2>3. [me[r] EXCEPT !.left = Tail(@),
                        !.plan = @ \cup {Planned(Head(me[r].left), @)}] \in RunState
      BY <2>1, <2>2, <1>a DEF RunState
    <2>4. QED
      BY <1>2, <2>3, BecomeType DEF PlanEvent, Accounting, TypeOK, RunState
  <1>3. CASE Preflight(r) \/ PlanFails(r) \/ Finish(r)
    <2>1. [me[r] EXCEPT !.pc = "tables"] \in RunState
      BY <1>a DEF RunState, Labels
    <2>2. me' \in [Runs -> RunState]
      BY <1>3, <2>1, <1>d, BecomeType DEF Preflight, PlanFails, Finish
    <2>3. QED
      BY <1>3, <2>2 DEF Preflight, PlanFails, Finish, Accounting, TypeOK, RunState
  <1>4. CASE Download(r)
    <2>1. PICK t \in {TableOf[i.event] : i \in me[r].plan} :
            LET batch == {i \in me[r].plan : TableOf[i.event] = t} IN
            /\ Become(r, [me[r] EXCEPT !.pc = "items", !.at = t, !.batch = batch,
                                       !.plan = @ \ batch,
                                       !.base = table[t], !.book = table[t]])
            /\ Says(r, EventsOf(batch), "planned")
      BY <1>4 DEF Download
    <2>2. t \in Tables
      BY <1>a, ApplyAssumption DEF RunState, Item
    <2>3. {i \in me[r].plan : TableOf[i.event] = t} \in SUBSET Item
      BY <1>a DEF RunState
    <2>4. Kept
      BY <2>1, <2>2, <2>3, <1>b, <1>e, BecomeType, SaysType
    <2>5. QED
      BY <1>4, <2>4 DEF Download, Accounting, TypeOK, RunState
  <1>5. CASE DownloadRaises(r)
    <2>1. PICK t : LET batch == {i \in me[r].plan : TableOf[i.event] = t} IN
                   /\ Become(r, [me[r] EXCEPT !.plan = @ \ batch])
                   /\ Says(r, EventsOf(batch), "error")
      BY <1>5 DEF DownloadRaises
    <2>2. [me[r] EXCEPT !.plan = @ \ {i \in me[r].plan : TableOf[i.event] = t}]
            \in RunState
      BY <1>a DEF RunState
    <2>3. Kept
      BY <2>1, <2>2, <1>b, BecomeType, SaysType
    <2>4. QED
      BY <1>5, <2>3 DEF DownloadRaises, Accounting, TypeOK, RunState
  <1>6. CASE ApplyItem(r)
    <2>1. PICK i \in me[r].batch :
            LET verdict == Verdict(i, me[r].base.log, me[r].book)
                rest    == [me[r] EXCEPT !.batch = @ \ {i}]
            IN \/ /\ verdict \in {"applied", "adopted"}
                  /\ Become(r, [rest EXCEPT !.book = Edited(i, @), !.done = @ \cup {i}])
                  /\ Says(r, {i.event}, verdict)
               \/ /\ verdict \in {"skipped", "error"}
                  /\ Become(r, rest)
                  /\ Says(r, {i.event}, verdict)
               \/ verdict = "abort" /\ TableFails(r)
      BY <1>6 DEF ApplyItem
    <2> DEFINE rest == [me[r] EXCEPT !.batch = @ \ {i}]
    <2>2. i \in Item /\ rest \in RunState
      BY <1>a DEF RunState
    <2>3. [rest EXCEPT !.book = Edited(i, @), !.done = @ \cup {i}] \in RunState
      <3>1. Edited(i, rest.book) \in Book
        BY <2>2, EditedType DEF RunState
      <3>2. QED
        BY <2>2, <3>1 DEF RunState
    <2>4. Kept
      BY <2>1, <2>2, <2>3, <1>b, BecomeType, SaysType, TableFailsType
    <2>5. QED
      BY <1>6, <2>4 DEF ApplyItem, Accounting, TypeOK, RunState
  <1>7. CASE ItemsDone(r)
    <2>1. [me[r] EXCEPT !.pc = "put"] \in RunState
      BY <1>a DEF RunState, Labels
    <2>2. me' \in [Runs -> RunState]
      BY <1>7, <2>1, NextTableType, BecomeType DEF ItemsDone
    <2>3. QED
      BY <1>7, <2>2 DEF ItemsDone, Accounting, TypeOK, RunState
  <1>8. CASE PutLocked(r) \/ Verify(r)
    <2>1. Kept
      BY <1>8, <1>b, NextTableType, SaysType DEF PutLocked, Verify
    <2>2. QED
      BY <1>8, <2>1 DEF PutLocked, Verify, Accounting, TypeOK, RunState
  <1>9. CASE VerifyRaises(r)
    BY <1>9, TableFailsType DEF VerifyRaises, Accounting, TypeOK, RunState
  <1>10. CASE Crash(r)
    <2>1. Kept
      BY <1>10, <1>c, EmptyTypes, BecomeType DEF Crash
    <2>2. QED
      BY <1>10, <2>1 DEF Crash, Accounting, TypeOK, RunState
  <1>11. QED
    BY <1>1, <1>2, <1>3, <1>4, <1>5, <1>6, <1>7, <1>8, <1>9, <1>10

LEMMA TypeNext == TypeOK /\ [Next]_vars => TypeOK'
  <1> SUFFICES ASSUME TypeOK, [Next]_vars PROVE TypeOK'
    OBVIOUS
  <1>1. ASSUME NEW r \in Runs, Put(r) PROVE TypeOK'
    <2>1. [me[r] EXCEPT !.pc = "verify"] \in RunState
      BY DEF TypeOK, RunState, Labels
    <2>2. me' \in [Runs -> RunState]
      BY <1>1, <2>1, BecomeType DEF Put
    <2>3. table' \in [Tables -> Book] /\ stale' \in BOOLEAN
      BY <1>1, StoredType DEF Put
    <2>4. QED
      BY <1>1, <2>2, <2>3 DEF Put, Accounting, TypeOK, RunState
  <1>2. ASSUME NEW r \in Runs, PutRaises(r) PROVE TypeOK'
    <2>1. /\ me' \in [Runs -> RunState]
          /\ said' \in [Runs -> [Events -> Outcomes]]
      BY <1>2, TableFailsType DEF PutRaises
    <2>2. table' \in [Tables -> Book] /\ stale' \in BOOLEAN
      BY <1>2, StoredType DEF PutRaises, TypeOK
    <2>3. QED
      BY <1>2, <2>1, <2>2 DEF PutRaises, Accounting, TypeOK, RunState
  <1>3. ASSUME NEW t \in Tables, NEW row \in Rows, Edit(t, row) PROVE TypeOK'
    <2>1. PICK f \in Fillings : table' = [table EXCEPT ![t].cells[row].marks = f]
      BY <1>3 DEF Edit
    <2>2. f \in SUBSET Marks
      BY DEF Marks
    <2>3. table' \in [Tables -> Book]
      <3>1. table[t] \in Book
        BY DEF TypeOK
      <3>2. [table[t].cells[row] EXCEPT !.marks = f] \in Cell
        BY <2>2, <3>1 DEF Book, Cell
      <3>3. [table[t] EXCEPT !.cells[row].marks = f] \in Book
        BY <3>1, <3>2 DEF Book
      <3>4. table' = [table EXCEPT ![t] = [table[t] EXCEPT !.cells[row].marks = f]]
        BY <2>1
      <3>5. QED
        BY <3>3, <3>4 DEF TypeOK
    <2>4. edits' \in 0..MaxEdits
      BY <1>3, ApplyAssumption DEF Edit, TypeOK
    <2>5. QED
      BY <1>3, <2>3, <2>4 DEF Edit, TypeOK
  <1>4. ASSUME NEW e \in Events, Refile(e) PROVE TypeOK'
    <2>1. edits' \in 0..MaxEdits
      BY <1>4, ApplyAssumption DEF Refile, TypeOK
    <2>2. QED
      BY <1>4, <2>1 DEF Refile, TypeOK
  <1>5. ASSUME NEW e \in Events, Publish(Due[e]) PROVE TypeOK'
    <2>1. rates' \subseteq Rows
      <3>1. Due[e] \in Rows
        BY ApplyAssumption
      <3>2. rates \subseteq Rows
        BY DEF TypeOK
      <3>3. rates' = rates \cup {Due[e]}
        BY <1>5 DEF Publish
      <3>4. QED
        BY <3>1, <3>2, <3>3
    <2>2. QED
      BY <1>5, <2>1 DEF Publish, TypeOK
  <1>6. CASE UNCHANGED vars
    BY <1>6 DEF vars, TypeOK
  <1>7. QED
    BY <1>1, <1>2, <1>3, <1>4, <1>5, <1>6, PrivateSteps DEF Next, RunStep, RunFault

(* Tables, rows, plans and reports keep their types: in particular every   *)
(* row an apply job works on is a row of the table or None.                *)
THEOREM TablesTypeCorrect == Spec => []TypeOK
  <1>1. QED
    BY TypeInit, TypeNext, PTL DEF Spec

-----------------------------------------------------------------------------
(* One row per asiento                                                     *)

\* PostedOnce says nothing of the copies the jobs hold, and those replace the
\* tables. What the stored tables and the copies have in common is that an
\* asiento the log does not name has no row and no asiento has two.
Sound(b) ==
    \A e \in Events :
        /\ b.log[e] = None => \A row \in Rows : b.cells[row].by # e
        /\ \A row, other \in Rows :
              b.cells[row].by = e /\ b.cells[other].by = e => row = other

\* The idempotency check asks the log as it was downloaded, so it speaks of the
\* copy only because a manifest names no asiento twice: what is still to be
\* planned, planned and to be applied are one item per asiento, and the copy's
\* log has of those to be applied what the downloaded one has.
Single(s) ==
    /\ \A m, n \in DOMAIN s.left : s.left[m] = s.left[n] => m = n
    /\ \A i \in s.plan, n \in DOMAIN s.left : s.left[n] # i.event
    /\ \A i, j \in s.plan : i.event = j.event => i = j
    /\ \A i, j \in s.batch : i.event = j.event => i = j
    /\ \A i \in s.batch : s.book.log[i.event] = s.base.log[i.event]

SingleInv == TypeOK /\ \A r \in Runs : Single(me[r])

LEMMA SingleBecome ==
    ASSUME SingleInv, NEW r \in Runs, NEW state, Become(r, state), Single(state)
    PROVE  \A s \in Runs : Single(me'[s])
  BY DEF SingleInv, TypeOK, Become

LEMMA SingleFresh ==
    ASSUME NEW s, s.left = <<>>, s.plan = {}, s.batch = {}
    PROVE  Single(s)
  BY DEF Single

LEMMA SingleNextTable ==
    ASSUME SingleInv, NEW r \in Runs, NextTable(r)
    PROVE  \A s \in Runs : Single(me'[s])
  <1> DEFINE state == [me[r] EXCEPT !.pc = "tables", !.at = None, !.batch = {},
                          !.done = {}, !.base = EmptyBook, !.book = EmptyBook]
  <1>1. state.left = me[r].left /\ state.plan = me[r].plan /\ state.batch = {}
    BY DEF SingleInv, TypeOK
  <1>2. Single(state)
    BY <1>1 DEF Single, SingleInv
  <1>3. QED
    BY <1>2, SingleBecome DEF NextTable

\* The head of what is left joins the plan.
LEMMA SinglePlans ==
    ASSUME NEW s \in RunState, Single(s), s.left # <<>>, NEW new \in Item,
           new.event = Head(s.left)
    PROVE  Single([s EXCEPT !.left = Tail(@), !.plan = @ \cup {new}])
  <1> DEFINE after == [s EXCEPT !.left = Tail(@), !.plan = @ \cup {new}]
  <1>1. /\ after.left = Tail(s.left) /\ after.plan = s.plan \cup {new}
        /\ after.batch = s.batch /\ after.book = s.book /\ after.base = s.base
        /\ s.left \in Seq(Events)
    BY DEF RunState
  <1>2. /\ \A n \in DOMAIN Tail(s.left) :
              n + 1 \in DOMAIN s.left /\ n + 1 # 1 /\ Tail(s.left)[n] = s.left[n + 1]
        /\ 1 \in DOMAIN s.left /\ Head(s.left) = s.left[1]
        /\ DOMAIN Tail(s.left) \subseteq Int
    BY <1>1
  <1>3. \A m, n \in DOMAIN Tail(s.left) : Tail(s.left)[m] = Tail(s.left)[n] => m = n
    BY <1>2 DEF Single
  <1>4. \A i \in after.plan, n \in DOMAIN Tail(s.left) : Tail(s.left)[n] # i.event
    BY <1>1, <1>2 DEF Single
  <1>5. \A i, j \in after.plan : i.event = j.event => i = j
    BY <1>1, <1>2 DEF Single
  <1>6. QED
    BY <1>1, <1>3, <1>4, <1>5 DEF Single

\* Editing for one item leaves the log entries of the others.
LEMMA SingleEdits ==
    ASSUME NEW s \in RunState, Single(s), NEW i \in s.batch
    PROVE  /\ Single([s EXCEPT !.batch = @ \ {i}])
           /\ Single([[s EXCEPT !.batch = @ \ {i}]
                         EXCEPT !.book = Edited(i, @), !.done = @ \cup {i}])
  <1> DEFINE rest == [s EXCEPT !.batch = @ \ {i}]
             after == [rest EXCEPT !.book = Edited(i, @), !.done = @ \cup {i}]
  <1>1. /\ i \in Item /\ s.batch \subseteq Item /\ s.book \in Book
        /\ i.event \in Events
    BY DEF RunState, Item
  <1>2. /\ rest.left = s.left /\ rest.plan = s.plan /\ rest.batch = s.batch \ {i}
        /\ rest.book = s.book /\ rest.base = s.base
    BY DEF RunState
  <1>3. /\ after.left = s.left /\ after.plan = s.plan /\ after.batch = s.batch \ {i}
        /\ after.book = Edited(i, s.book) /\ after.base = s.base
    BY DEF RunState
  <1>4. Single(rest)
    BY <1>2 DEF Single
  <1>5. \A j \in s.batch \ {i} : Edited(i, s.book).log[j.event] = s.book.log[j.event]
    <2> SUFFICES ASSUME NEW j \in s.batch \ {i}
                 PROVE  Edited(i, s.book).log[j.event] = s.book.log[j.event]
      OBVIOUS
    <2>1. j.event # i.event /\ j.event \in Events
      BY <1>1 DEF Single, Item
    <2>2. QED
      BY <2>1, <1>1 DEF Edited, Book
  <1>6. Single(after)
    BY <1>3, <1>5 DEF Single
  <1>7. QED
    BY <1>4, <1>6

LEMMA SingleNext == SingleInv /\ [Next]_vars => SingleInv'
  <1> SUFFICES ASSUME SingleInv, [Next]_vars PROVE SingleInv'
    OBVIOUS
  <1> DEFINE AllSingle == \A s \in Runs : Single(me'[s])
  <1>t. TypeOK'
    BY TypeNext DEF SingleInv
  <1>a. TypeOK /\ \A s \in Runs : me[s] \in RunState
    BY DEF SingleInv, TypeOK, RunState
  <1>b. \A s \in Runs : Single(me[s])
    BY DEF SingleInv
  <1>c. AllSingle => SingleInv'
    BY <1>t DEF SingleInv
  <1>d. Fresh.left = <<>> /\ Fresh.plan = {} /\ Fresh.batch = {}
    BY DEF Fresh
  <1>1. ASSUME NEW r \in Runs, Begin(r) PROVE SingleInv'
    <2>1. PICK m \in Manifests : Become(r, [Fresh EXCEPT !.pc = "plan", !.left = m])
      BY <1>1 DEF Begin
    <2> DEFINE after == [Fresh EXCEPT !.pc = "plan", !.left = m]
    <2>2. after.left = m /\ after.plan = {} /\ after.batch = {}
      BY DEF Fresh
    <2>3. \A j, k \in DOMAIN m : m[j] = m[k] => j = k
      BY ApplyAssumption
    <2>4. Single(after)
      BY <2>2, <2>3 DEF Single
    <2>5. QED
      BY <2>1, <2>4, <1>c, SingleBecome
  <1>2. ASSUME NEW r \in Runs, PlanEvent(r) PROVE SingleInv'
    <2> DEFINE new == Planned(Head(me[r].left), me[r].plan)
    <2>1. Head(me[r].left) \in Events /\ me[r].left # <<>>
      BY <1>2, <1>a DEF PlanEvent, RunState
    <2>2. new \in Item
      BY <2>1, <1>a, PlannedType DEF RunState
    <2>3. new.event = Head(me[r].left)
      BY DEF Planned
    <2>4. Single([me[r] EXCEPT !.left = Tail(@), !.plan = @ \cup {new}])
      BY <2>1, <2>2, <2>3, <1>a, <1>b, SinglePlans
    <2>5. Become(r, [me[r] EXCEPT !.left = Tail(@), !.plan = @ \cup {new}])
      BY <1>2, <1>a DEF PlanEvent, RunState
    <2>6. QED
      BY <2>4, <2>5, <1>c, SingleBecome
  <1>3. ASSUME NEW r \in Runs, Preflight(r) \/ PlanFails(r) \/ Finish(r) PROVE SingleInv'
    <2>1. Single([Fresh EXCEPT !.pc = "ended"])
      BY <1>d, SingleFresh DEF Fresh
    <2>2. Single([me[r] EXCEPT !.pc = "tables"])
      BY <1>a, <1>b DEF Single, RunState
    <2>3. QED
      BY <1>3, <2>1, <2>2, <1>c, SingleBecome DEF Preflight, PlanFails, Finish
  <1>4. ASSUME NEW r \in Runs, Download(r) PROVE SingleInv'
    <2>1. PICK t : Become(r, [me[r] EXCEPT !.pc = "items", !.at = t,
                          !.batch = {i \in me[r].plan : TableOf[i.event] = t},
                          !.plan = @ \ {i \in me[r].plan : TableOf[i.event] = t},
                          !.base = table[t], !.book = table[t]])
      BY <1>4 DEF Download
    <2> DEFINE batch == {i \in me[r].plan : TableOf[i.event] = t}
               after == [me[r] EXCEPT !.pc = "items", !.at = t, !.batch = batch,
                            !.plan = @ \ batch, !.base = table[t], !.book = table[t]]
    <2>2. /\ after.left = me[r].left /\ after.plan = me[r].plan \ batch
          /\ after.batch = batch /\ after.base = table[t] /\ after.book = table[t]
      BY <1>a DEF RunState
    <2>3. Single(after)
      BY <2>2, <1>b DEF Single
    <2>4. QED
      BY <2>1, <2>3, <1>c, SingleBecome
  <1>5. ASSUME NEW r \in Runs, DownloadRaises(r) PROVE SingleInv'
    <2>1. PICK t : Become(r, [me[r] EXCEPT
                       !.plan = @ \ {i \in me[r].plan : TableOf[i.event] = t}])
      BY <1>5 DEF DownloadRaises
    <2>2. Single([me[r] EXCEPT !.plan = @ \ {i \in me[r].plan : TableOf[i.event] = t}])
      BY <1>a, <1>b DEF Single, RunState
    <2>3. QED
      BY <2>1, <2>2, <1>c, SingleBecome
  <1>6. ASSUME NEW r \in Runs, ApplyItem(r) PROVE SingleInv'
    <2>1. PICK i \in me[r].batch :
            \/ Become(r, [[me[r] EXCEPT !.batch = @ \ {i}]
                             EXCEPT !.book = Edited(i, @), !.done = @ \cup {i}])
            \/ Become(r, [me[r] EXCEPT !.batch = @ \ {i}])
            \/ NextTable(r)
      BY <1>6 DEF ApplyItem, TableFails
    <2>2. QED
      BY <2>1, <1>a, <1>b, <1>c, SingleEdits, SingleBecome, SingleNextTable
  <1>7. ASSUME NEW r \in Runs, ItemsDone(r) \/ Put(r) PROVE SingleInv'
    <2>1. /\ Single([me[r] EXCEPT !.pc = "put"])
          /\ Single([me[r] EXCEPT !.pc = "verify"])
      BY <1>a, <1>b DEF Single, RunState
    <2>2. QED
      BY <1>7, <2>1, <1>c, SingleBecome, SingleNextTable DEF ItemsDone, Put
  <1>8. ASSUME NEW r \in Runs,
               PutRaises(r) \/ PutLocked(r) \/ Verify(r) \/ VerifyRaises(r)
        PROVE  SingleInv'
    BY <1>8, <1>c, SingleNextTable
       DEF PutRaises, PutLocked, Verify, VerifyRaises, TableFails
  <1>9. ASSUME NEW r \in Runs, Crash(r) PROVE SingleInv'
    BY <1>9, <1>c, <1>d, SingleFresh, SingleBecome DEF Crash
  <1>10. CASE UNCHANGED me
    BY <1>10, <1>b, <1>c
  <1>11. QED
    BY <1>1, <1>2, <1>3, <1>4, <1>5, <1>6, <1>7, <1>8, <1>9, <1>10
       DEF Next, RunStep, RunFault, Edit, Refile, Publish, vars

LEMMA SingleInit == Init => SingleInv
  <1>1. Fresh.left = <<>> /\ Fresh.plan = {} /\ Fresh.batch = {}
    BY DEF Fresh
  <1>2. QED
    BY <1>1, TypeInit, SingleFresh DEF Init, SingleInv

OnceInv ==
    /\ SingleInv
    /\ \A t \in Tables : Sound(table[t])
    /\ \A r \in Runs : Sound(me[r].book)

\* The idempotency check lets only asientos pass that its log does not name.
LEMMA VerdictIsLogged ==
    ASSUME NEW i, NEW log, NEW book, Verdict(i, log, book) \in {"applied", "adopted"}
    PROVE  log[i.event] = None
  BY DEF Verdict

LEMMA EditedSound ==
    ASSUME NEW i \in Item, NEW book \in Book, Sound(book), book.log[i.event] = None
    PROVE  Sound(Edited(i, book))
  <1> DEFINE after == Edited(i, book)
  <1>1. i.event \in Events /\ i.print \in Prints /\ i.print # None
    BY ApplyAssumption DEF Item
  <1>3. \A row \in Rows : book.cells[row].by # i.event
    BY <1>1 DEF Sound
  <1>4. /\ after.log[i.event] # None
        /\ \A e \in Events \ {i.event} : after.log[e] = book.log[e]
    BY <1>1 DEF Edited, Book
  <1>5. \A row \in Rows :
          \/ after.cells[row].by = book.cells[row].by
          \/ row = i.row /\ after.cells[row].by = i.event
    BY DEF Edited, Book
  <1>6. ASSUME NEW e \in Events, after.log[e] = None, NEW row \in Rows
        PROVE  after.cells[row].by # e
    BY <1>4, <1>5, <1>6 DEF Sound
  <1>7. ASSUME NEW e \in Events, NEW row \in Rows, NEW other \in Rows,
               after.cells[row].by = e, after.cells[other].by = e
        PROVE  row = other
    BY <1>3, <1>5, <1>7 DEF Sound
  <1>8. QED
    BY <1>6, <1>7 DEF Sound

LEMMA EmptyIsSound == Sound(EmptyBook)
  <1>1. None \notin Events
    BY ApplyAssumption
  <1>2. QED
    BY <1>1 DEF Sound, EmptyBook

\* A job that goes on, or starts anew, keeps its copy sound.
LEMMA BecomeSound ==
    ASSUME OnceInv, NEW r \in Runs, NEW state, Become(r, state), Sound(state.book)
    PROVE  \A s \in Runs : Sound(me'[s].book)
  BY DEF OnceInv, SingleInv, TypeOK, Become

LEMMA NextTableSound ==
    ASSUME OnceInv, NEW r \in Runs, NextTable(r)
    PROVE  \A s \in Runs : Sound(me'[s].book)
  <1> DEFINE state == [me[r] EXCEPT !.pc = "tables", !.at = None, !.batch = {},
                          !.done = {}, !.base = EmptyBook, !.book = EmptyBook]
  <1>1. state.book = EmptyBook
    BY DEF OnceInv, SingleInv, TypeOK
  <1>2. QED
    BY <1>1, EmptyIsSound, BecomeSound DEF NextTable

LEMMA StoredSound ==
    ASSUME OnceInv, NEW r \in Runs, Stored(r)
    PROVE  \A t \in Tables : Sound(table'[t])
  BY DEF OnceInv, SingleInv, TypeOK, Stored

LEMMA OnceNext == OnceInv /\ [Next]_vars => OnceInv'
  <1> SUFFICES ASSUME OnceInv, [Next]_vars PROVE OnceInv'
    OBVIOUS
  <1> DEFINE TablesSound == \A t \in Tables : Sound(table'[t])
             CopiesSound == \A s \in Runs : Sound(me'[s].book)
  <1>t. SingleInv'
    BY SingleNext DEF OnceInv
  <1>a. TypeOK /\ \A s \in Runs : me[s] \in RunState
    BY DEF OnceInv, SingleInv, TypeOK, RunState
  <1>b. /\ \A t \in Tables : Sound(table[t])
        /\ \A s \in Runs : Sound(me[s].book)
    BY DEF OnceInv
  <1>c. UNCHANGED table => TablesSound
    BY <1>b
  <1>d. UNCHANGED me => CopiesSound
    BY <1>b
  <1>f. Fresh.book = EmptyBook
    BY DEF Fresh
  <1>1. ASSUME NEW r \in Runs, Begin(r) PROVE OnceInv'
    <2>1. PICK m \in Manifests : Become(r, [Fresh EXCEPT !.pc = "plan", !.left = m])
      BY <1>1 DEF Begin
    <2>2. [Fresh EXCEPT !.pc = "plan", !.left = m].book = EmptyBook
      BY DEF Fresh
    <2>3. CopiesSound
      BY <2>1, <2>2, EmptyIsSound, BecomeSound
    <2>4. QED
      BY <1>1, <1>t, <1>c, <2>3 DEF Begin, OnceInv
  <1>2. ASSUME NEW r \in Runs, PlanEvent(r) PROVE OnceInv'
    <2>1. [me[r] EXCEPT !.left = Tail(@),
                        !.plan = @ \cup {Planned(Head(me[r].left), @)}].book = me[r].book
      BY <1>a DEF RunState
    <2>2. CopiesSound
      BY <1>2, <2>1, <1>b, BecomeSound DEF PlanEvent
    <2>3. QED
      BY <1>2, <1>t, <1>c, <2>2 DEF PlanEvent, OnceInv
  <1>3. ASSUME NEW r \in Runs, Preflight(r) \/ PlanFails(r) \/ Finish(r) PROVE OnceInv'
    <2>1. /\ [Fresh EXCEPT !.pc = "ended"].book = EmptyBook
          /\ [me[r] EXCEPT !.pc = "tables"].book = me[r].book
      BY <1>a DEF Fresh, RunState
    <2>2. CopiesSound
      BY <1>3, <2>1, <1>b, EmptyIsSound, BecomeSound DEF Preflight, PlanFails, Finish
    <2>3. QED
      BY <1>3, <1>t, <1>c, <2>2 DEF Preflight, PlanFails, Finish, OnceInv
  <1>4. ASSUME NEW r \in Runs, Download(r) PROVE OnceInv'
    <2>1. PICK t \in {TableOf[i.event] : i \in me[r].plan} :
            Become(r, [me[r] EXCEPT !.pc = "items", !.at = t,
                          !.batch = {i \in me[r].plan : TableOf[i.event] = t},
                          !.plan = @ \ {i \in me[r].plan : TableOf[i.event] = t},
                          !.base = table[t], !.book = table[t]])
      BY <1>4 DEF Download
    <2>2. t \in Tables
      BY <1>a, ApplyAssumption DEF RunState, Item
    <2>3. [me[r] EXCEPT !.pc = "items", !.at = t,
              !.batch = {i \in me[r].plan : TableOf[i.event] = t},
              !.plan = @ \ {i \in me[r].plan : TableOf[i.event] = t},
              !.base = table[t], !.book = table[t]].book = table[t]
      BY <1>a DEF RunState
    <2>4. CopiesSound
      BY <2>1, <2>2, <2>3, <1>b, BecomeSound
    <2>5. QED
      BY <1>4, <1>t, <1>c, <2>4 DEF Download, OnceInv
  <1>5. ASSUME NEW r \in Runs, DownloadRaises(r) PROVE OnceInv'
    <2>1. PICK t : Become(r, [me[r] EXCEPT
                       !.plan = @ \ {i \in me[r].plan : TableOf[i.event] = t}])
      BY <1>5 DEF DownloadRaises
    <2>2. [me[r] EXCEPT !.plan = @ \ {i \in me[r].plan : TableOf[i.event] = t}].book
            = me[r].book
      BY <1>a DEF RunState
    <2>3. CopiesSound
      BY <2>1, <2>2, <1>b, BecomeSound
    <2>4. QED
      BY <1>5, <1>t, <1>c, <2>3 DEF DownloadRaises, OnceInv
  <1>6. ASSUME NEW r \in Runs, ApplyItem(r) PROVE OnceInv'
    <2>1. PICK i \in me[r].batch :
            \/ /\ Verdict(i, me[r].base.log, me[r].book) \in {"applied", "adopted"}
               /\ Become(r, [[me[r] EXCEPT !.batch = @ \ {i}]
                                EXCEPT !.book = Edited(i, @), !.done = @ \cup {i}])
            \/ Become(r, [me[r] EXCEPT !.batch = @ \ {i}])
            \/ TableFails(r)
      BY <1>6 DEF ApplyItem
    <2>2. i \in Item /\ me[r].book \in Book
      BY <1>a DEF RunState
    <2>3. /\ [me[r] EXCEPT !.batch = @ \ {i}].book = me[r].book
          /\ [[me[r] EXCEPT !.batch = @ \ {i}]
                EXCEPT !.book = Edited(i, @), !.done = @ \cup {i}].book
              = Edited(i, me[r].book)
      BY <1>a DEF RunState
    <2>4. Verdict(i, me[r].base.log, me[r].book) \in {"applied", "adopted"}
            => Sound(Edited(i, me[r].book))
      <3>1. me[r].book.log[i.event] = me[r].base.log[i.event]
        BY DEF OnceInv, SingleInv, Single
      <3>2. QED
        BY <2>2, <3>1, <1>b, VerdictIsLogged, EditedSound
    <2>5. CopiesSound
      BY <2>1, <2>3, <2>4, <1>b, BecomeSound, NextTableSound DEF TableFails
    <2>6. QED
      BY <1>6, <1>t, <1>c, <2>5 DEF ApplyItem, OnceInv
  <1>7. ASSUME NEW r \in Runs, ItemsDone(r) PROVE OnceInv'
    <2>1. [me[r] EXCEPT !.pc = "put"].book = me[r].book
      BY <1>a DEF RunState
    <2>2. CopiesSound
      BY <1>7, <2>1, <1>b, BecomeSound, NextTableSound DEF ItemsDone
    <2>3. QED
      BY <1>7, <1>t, <1>c, <2>2 DEF ItemsDone, OnceInv
  <1>8. ASSUME NEW r \in Runs, Put(r) PROVE OnceInv'
    <2>1. [me[r] EXCEPT !.pc = "verify"].book = me[r].book
      BY <1>a DEF RunState
    <2>2. CopiesSound
      BY <1>8, <2>1, <1>b, BecomeSound DEF Put
    <2>3. QED
      BY <1>8, <1>t, <2>2, StoredSound DEF Put, OnceInv
  <1>9. ASSUME NEW r \in Runs, PutRaises(r) PROVE OnceInv'
    <2>1. CopiesSound
      BY <1>9, NextTableSound DEF PutRaises, TableFails
    <2>2. TablesSound
      BY <1>9, <1>c, StoredSound DEF PutRaises
    <2>3. QED
      BY <1>t, <2>1, <2>2 DEF OnceInv
  <1>10. ASSUME NEW r \in Runs, PutLocked(r) \/ Verify(r) \/ VerifyRaises(r)
         PROVE  OnceInv'
    <2>1. CopiesSound
      BY <1>10, NextTableSound DEF PutLocked, Verify, VerifyRaises, TableFails
    <2>2. QED
      BY <1>10, <1>t, <1>c, <2>1 DEF PutLocked, Verify, VerifyRaises, OnceInv
  <1>11. ASSUME NEW r \in Runs, Crash(r) PROVE OnceInv'
    <2>1. CopiesSound
      BY <1>11, <1>f, EmptyIsSound, BecomeSound DEF Crash
    <2>2. QED
      BY <1>11, <1>t, <1>c, <2>1 DEF Crash, OnceInv
  <1>12. ASSUME NEW t \in Tables, NEW row \in Rows, Edit(t, row) PROVE OnceInv'
    <2>1. /\ UNCHANGED me
          /\ \E f \in Fillings : table' = [table EXCEPT ![t].cells[row].marks = f]
      BY <1>12 DEF Edit
    <2>2. ASSUME NEW u \in Tables
          PROVE  /\ table'[u].log = table[u].log
                 /\ \A s \in Rows : table'[u].cells[s].by = table[u].cells[s].by
      BY <2>1, <1>a DEF TypeOK, Book, Cell
    <2>3. TablesSound
      BY <2>2, <1>b DEF Sound
    <2>4. QED
      BY <1>t, <1>d, <2>1, <2>3 DEF OnceInv
  <1>13. ASSUME NEW e \in Events, Refile(e) \/ Publish(Due[e]) PROVE OnceInv'
    BY <1>13, <1>t, <1>c, <1>d DEF Refile, Publish, OnceInv
  <1>14. CASE UNCHANGED vars
    BY <1>14, <1>t, <1>c, <1>d DEF vars, OnceInv
  <1>15. QED
    BY <1>1, <1>2, <1>3, <1>4, <1>5, <1>6, <1>7, <1>8, <1>9, <1>10, <1>11, <1>12,
       <1>13, <1>14 DEF Next, RunStep, RunFault

(* No asiento is written into its table twice, however many apply jobs     *)
(* overlap, whatever accounting edits or files again, and whichever puts   *)
(* raise or jobs are killed: the log travels with the rows it accounts for.*)
THEOREM AsientosPostedOnce == Spec => []PostedOnce
  <1>1. Init => OnceInv
    <2> SUFFICES ASSUME Init PROVE OnceInv
      OBVIOUS
    <2>1. \A t \in Tables : table[t] = EmptyBook
      BY DEF Init
    <2>2. \A r \in Runs : me[r].book = EmptyBook
      BY DEF Init, Fresh
    <2>3. QED
      BY <2>1, <2>2, SingleInit, EmptyIsSound DEF OnceInv
  <1>2. OnceInv => PostedOnce
    <2> SUFFICES ASSUME OnceInv, NEW e \in Events,
                        NEW row \in WrittenFor(e), NEW other \in WrittenFor(e)
                 PROVE  row = other
      BY DEF PostedOnce
    <2>1. TableOf[e] \in Tables
      BY ApplyAssumption
    <2>2. QED
      BY <2>1 DEF OnceInv, Sound, WrittenFor
  <1>3. QED
    BY <1>1, <1>2, OnceNext, PTL DEF Spec

-----------------------------------------------------------------------------
(* The copies of the tables                                                *)

\* A row somebody wrote is not empty: an asiento has marks, and accounting
\* types some.
Filled(b) == \A row \in Rows : b.cells[row].by # None => b.cells[row].marks # {}

\* A copy differs from the table it was downloaded as only where that was
\* empty, and names in its log no other asientos than those done since.
Derived(s) ==
    /\ \A row \in Rows : s.base.cells[row].marks # {}
          => s.book.cells[row] = s.base.cells[row]
    /\ \A e \in Events : s.base.log[e] # None => s.book.log[e] # None
    /\ \A e \in Events : s.book.log[e] # None
          => s.base.log[e] # None \/ e \in EventsOf(s.done)

\* What is planned to be written has a row.
Placed(I) == \A i \in I : i.status = "WOULD_APPLY" => i.row \in Rows

Batched(s) == \A i \in s.batch : TableOf[i.event] = s.at

Copied(s) ==
    /\ Filled(s.base) /\ Filled(s.book)
    /\ Derived(s)
    /\ Placed(s.plan) /\ Placed(s.batch)
    /\ Batched(s)

CopyInv ==
    /\ TypeOK
    /\ \A t \in Tables : Filled(table[t])
    /\ \A r \in Runs : Copied(me[r])

LEMMA PlannedPlaced ==
    ASSUME NEW e, NEW plan, Planned(e, plan).status = "WOULD_APPLY"
    PROVE  Planned(e, plan).row \in Rows
  <1> DEFINE reserved == {i.row : i \in {j \in plan : /\ j.status = "WOULD_APPLY"
                                                   /\ TableOf[j.event] = TableOf[e]}}
             content == Content[e][pdf[e]]
             cells == table[TableOf[e]].cells
             below == {r \in Rows : r >= Due[e]}
             same  == {r \in below : Compare(cells[r], content) = "ADOPTADO_EXISTENTE"}
             empty == {r \in below \ reserved : Compare(cells[r], content) = "APLICADO"}
             found == FindRow(e, content, reserved)
  <1>1. Planned(e, plan).status = found.status /\ Planned(e, plan).row = found.row
    BY DEF Planned
  <1> HIDE DEF reserved, content
  <1>2. CASE same # {}
    <2>1. found = [status |-> "WOULD_ADOPT_EXISTING", row |-> First(same)]
      BY <1>2 DEF FindRow
    <2>2. QED
      BY <2>1, <1>1
  <1>3. CASE same = {} /\ empty # {}
    <2>1. First(empty) \in Rows
      BY <1>3, FirstIsThere
    <2>2. found = [status |-> "WOULD_APPLY", row |-> First(empty)]
      BY <1>3 DEF FindRow
    <2>3. QED
      BY <2>1, <2>2, <1>1
  <1>4. CASE same = {} /\ empty = {}
    <2>1. found = [status |-> "BLOCKED", row |-> None]
      BY <1>4 DEF FindRow
    <2>2. QED
      BY <2>1, <1>1
  <1>5. QED
    BY <1>2, <1>3, <1>4

\* Only a planned application is applied, and only to an empty row.
LEMMA AppliedWasEmpty ==
    ASSUME NEW i, NEW log, NEW book, Verdict(i, log, book) \in {"applied", "adopted"}
    PROVE  /\ Verdict(i, log, book) = "applied" <=> i.status = "WOULD_APPLY"
           /\ i.status = "WOULD_APPLY" => book.cells[i.row].marks = {}
  <1> DEFINE compare == Compare(book.cells[i.row], Content[i.event][i.print])
  <1>1. compare \in {"APLICADO", "ADOPTADO_EXISTENTE", "REVISION_MANUAL"}
    BY DEF Compare
  <1>2. compare = "APLICADO" => book.cells[i.row].marks = {}
    BY DEF Compare
  <1>3. QED
    BY <1>1, <1>2 DEF Verdict

LEMMA EmptyCopied ==
    /\ Filled(EmptyBook)
    /\ \A s : s.base = EmptyBook /\ s.book = EmptyBook => Derived(s)
    /\ Placed({})
  BY DEF Filled, Derived, EmptyBook, Placed

LEMMA CopiedBecome ==
    ASSUME CopyInv, NEW r \in Runs, NEW state, Become(r, state), Copied(state)
    PROVE  \A s \in Runs : Copied(me'[s])
  BY DEF CopyInv, TypeOK, Become

LEMMA CopiedNextTable ==
    ASSUME CopyInv, NEW r \in Runs, NextTable(r)
    PROVE  \A s \in Runs : Copied(me'[s])
  <1> DEFINE state == [me[r] EXCEPT !.pc = "tables", !.at = None, !.batch = {},
                          !.done = {}, !.base = EmptyBook, !.book = EmptyBook]
  <1>1. /\ state.book = EmptyBook /\ state.base = EmptyBook
        /\ state.batch = {} /\ state.plan = me[r].plan
    BY DEF CopyInv, TypeOK
  <1>2. Placed(me[r].plan)
    BY DEF CopyInv, Copied
  <1>3. Copied(state)
    BY <1>1, <1>2, EmptyCopied DEF Copied, Batched
  <1>4. QED
    BY <1>3, CopiedBecome DEF NextTable

LEMMA CopiedEdited ==
    ASSUME NEW s \in RunState, Copied(s), NEW i \in s.batch,
           Verdict(i, s.base.log, s.book) \in {"applied", "adopted"}
    PROVE  Copied([[s EXCEPT !.batch = @ \ {i}]
                       EXCEPT !.book = Edited(i, @), !.done = @ \cup {i}])
  <1> DEFINE after == [[s EXCEPT !.batch = @ \ {i}]
                          EXCEPT !.book = Edited(i, @), !.done = @ \cup {i}]
             book == Edited(i, s.book)
  <1>1. /\ i \in Item /\ s.book \in Book /\ s.base \in Book
        /\ i.event \in Events /\ i.print \in Prints /\ i.print # None
    BY ApplyAssumption DEF RunState, Item
  <1>2. /\ after.book = book /\ after.base = s.base /\ after.at = s.at
        /\ after.plan = s.plan /\ after.batch = s.batch \ {i}
        /\ after.done = s.done \cup {i}
    BY DEF RunState
  <1>3. i.status = "WOULD_APPLY" => s.book.cells[i.row].marks = {}
    BY AppliedWasEmpty
  <1>4. Content[i.event][i.print] # {}
    BY <1>1, ApplyAssumption
  <1>5. \A row \in Rows :
          \/ book.cells[row] = s.book.cells[row]
          \/ /\ row = i.row /\ i.status = "WOULD_APPLY"
             /\ book.cells[row] = [marks |-> Content[i.event][i.print], by |-> i.event]
    BY <1>1 DEF Edited, Book
  <1>6. /\ book.log[i.event] = i.print
        /\ \A e \in Events \ {i.event} : book.log[e] = s.book.log[e]
    BY <1>1 DEF Edited, Book
  <1>7. Filled(book)
    BY <1>4, <1>5 DEF Filled, Copied
  <1>8. i.event \in EventsOf(after.done)
           /\ EventsOf(s.done) \subseteq EventsOf(after.done)
    BY <1>2 DEF EventsOf
  <1>9. Derived(after)
    <2>1. Derived(s)
      BY DEF Copied
    <2>2. ASSUME NEW row \in Rows, s.base.cells[row].marks # {}
          PROVE  book.cells[row] = s.base.cells[row]
      BY <2>1, <2>2, <1>3, <1>5 DEF Derived
    <2>3. ASSUME NEW e \in Events, s.base.log[e] # None PROVE book.log[e] # None
      BY <2>1, <2>3, <1>1, <1>6 DEF Derived
    <2>4. ASSUME NEW e \in Events, book.log[e] # None
          PROVE  s.base.log[e] # None \/ e \in EventsOf(after.done)
      BY <2>1, <2>4, <1>6, <1>8 DEF Derived
    <2>5. QED
      BY <2>2, <2>3, <2>4, <1>2 DEF Derived
  <1>10. Placed(after.plan) /\ Placed(after.batch) /\ Batched(after)
    BY <1>2 DEF Copied, Placed, Batched
  <1>11. QED
    BY <1>2, <1>7, <1>9, <1>10 DEF Copied

LEMMA CopyNext == CopyInv /\ [Next]_vars => CopyInv'
  <1> SUFFICES ASSUME CopyInv, [Next]_vars PROVE CopyInv'
    OBVIOUS
  <1> DEFINE TablesFilled == \A t \in Tables : Filled(table'[t])
             AllCopied == \A s \in Runs : Copied(me'[s])
  <1>t. TypeOK'
    BY TypeNext DEF CopyInv
  <1>a. TypeOK /\ \A s \in Runs : me[s] \in RunState
    BY DEF CopyInv, TypeOK, RunState
  <1>b. (\A t \in Tables : Filled(table[t])) /\ \A s \in Runs : Copied(me[s])
    BY DEF CopyInv
  <1>c. UNCHANGED table => TablesFilled
    BY <1>b
  <1>d. UNCHANGED me => AllCopied
    BY <1>b
  <1>e. ASSUME NEW state, state.base = EmptyBook, state.book = EmptyBook,
               state.plan = {}, state.batch = {}
        PROVE  Copied(state)
    BY <1>e, EmptyCopied DEF Copied, Batched
  <1>f. ASSUME NEW r \in Runs, Stored(r) PROVE TablesFilled
    BY <1>a, <1>b, <1>f DEF Stored, Copied, TypeOK
  <1>g. ASSUME TablesFilled, AllCopied PROVE CopyInv'
    BY <1>t, <1>g DEF CopyInv
  <1>1. ASSUME NEW r \in Runs, Begin(r) PROVE CopyInv'
    <2>1. PICK m \in Manifests : Become(r, [Fresh EXCEPT !.pc = "plan", !.left = m])
      BY <1>1 DEF Begin
    <2>2. Copied([Fresh EXCEPT !.pc = "plan", !.left = m])
      BY <1>e DEF Fresh
    <2>3. QED
      BY <1>1, <1>c, <1>g, <2>1, <2>2, CopiedBecome DEF Begin
  <1>2. ASSUME NEW r \in Runs, PlanEvent(r) PROVE CopyInv'
    <2> DEFINE new == Planned(Head(me[r].left), me[r].plan)
               after == [me[r] EXCEPT !.left = Tail(@), !.plan = @ \cup {new}]
    <2>1. /\ after.base = me[r].base /\ after.book = me[r].book
          /\ after.batch = me[r].batch /\ after.at = me[r].at
          /\ after.done = me[r].done /\ after.plan = me[r].plan \cup {new}
      BY <1>a DEF RunState
    <2>2. Placed(after.plan)
      BY <2>1, <1>b, PlannedPlaced DEF Placed, Copied
    <2>3. Copied(after)
      BY <2>1, <2>2, <1>b DEF Copied, Derived, Batched
    <2>4. QED
      BY <1>2, <1>c, <1>g, <2>3, CopiedBecome DEF PlanEvent
  <1>3. ASSUME NEW r \in Runs, Preflight(r) \/ PlanFails(r) \/ Finish(r) PROVE CopyInv'
    <2>1. Copied([Fresh EXCEPT !.pc = "ended"])
      BY <1>e DEF Fresh
    <2>2. Copied([me[r] EXCEPT !.pc = "tables"])
      BY <1>a, <1>b DEF Copied, Derived, Batched, RunState
    <2>3. AllCopied
      BY <1>3, <2>1, <2>2, CopiedBecome DEF Preflight, PlanFails, Finish
    <2>4. QED
      BY <1>3, <1>c, <1>g, <2>3 DEF Preflight, PlanFails, Finish
  <1>4. ASSUME NEW r \in Runs, Download(r) PROVE CopyInv'
    <2>1. PICK t \in {TableOf[i.event] : i \in me[r].plan} :
            Become(r, [me[r] EXCEPT !.pc = "items", !.at = t,
                          !.batch = {i \in me[r].plan : TableOf[i.event] = t},
                          !.plan = @ \ {i \in me[r].plan : TableOf[i.event] = t},
                          !.base = table[t], !.book = table[t]])
      BY <1>4 DEF Download
    <2> DEFINE batch == {i \in me[r].plan : TableOf[i.event] = t}
               after == [me[r] EXCEPT !.pc = "items", !.at = t, !.batch = batch,
                            !.plan = @ \ batch, !.base = table[t], !.book = table[t]]
    <2>2. t \in Tables
      BY <1>a, ApplyAssumption DEF RunState, Item
    <2>3. /\ after.base = table[t] /\ after.book = table[t]
          /\ after.batch = batch /\ after.plan = me[r].plan \ batch /\ after.at = t
      BY <1>a DEF RunState
    <2>4. Copied(after)
      BY <2>2, <2>3, <1>b DEF Copied, Derived, Batched, Placed
    <2>5. QED
      BY <1>4, <1>c, <1>g, <2>1, <2>4, CopiedBecome DEF Download
  <1>5. ASSUME NEW r \in Runs, DownloadRaises(r) PROVE CopyInv'
    <2>1. PICK t : Become(r, [me[r] EXCEPT
                       !.plan = @ \ {i \in me[r].plan : TableOf[i.event] = t}])
      BY <1>5 DEF DownloadRaises
    <2>2. Copied([me[r] EXCEPT !.plan = @ \ {i \in me[r].plan : TableOf[i.event] = t}])
      BY <1>a, <1>b DEF Copied, Derived, Batched, Placed, RunState
    <2>3. QED
      BY <1>5, <1>c, <1>g, <2>1, <2>2, CopiedBecome DEF DownloadRaises
  <1>6. ASSUME NEW r \in Runs, ApplyItem(r) PROVE CopyInv'
    <2>1. PICK i \in me[r].batch :
            \/ /\ Verdict(i, me[r].base.log, me[r].book) \in {"applied", "adopted"}
               /\ Become(r, [[me[r] EXCEPT !.batch = @ \ {i}]
                                EXCEPT !.book = Edited(i, @), !.done = @ \cup {i}])
            \/ Become(r, [me[r] EXCEPT !.batch = @ \ {i}])
            \/ TableFails(r)
      BY <1>6 DEF ApplyItem
    <2>2. Copied([me[r] EXCEPT !.batch = @ \ {i}])
      BY <1>a, <1>b DEF Copied, Derived, Batched, Placed, RunState
    <2>3. AllCopied
      BY <2>1, <2>2, <1>a, <1>b, CopiedEdited, CopiedBecome, CopiedNextTable
         DEF TableFails
    <2>4. QED
      BY <1>6, <1>c, <1>g, <2>3 DEF ApplyItem
  <1>7. ASSUME NEW r \in Runs, ItemsDone(r) PROVE CopyInv'
    <2>1. Copied([me[r] EXCEPT !.pc = "put"])
      BY <1>a, <1>b DEF Copied, Derived, Batched, RunState
    <2>2. QED
      BY <1>7, <1>c, <1>g, <2>1, CopiedBecome, CopiedNextTable DEF ItemsDone
  <1>8. ASSUME NEW r \in Runs, Put(r) PROVE CopyInv'
    <2>1. Copied([me[r] EXCEPT !.pc = "verify"])
      BY <1>a, <1>b DEF Copied, Derived, Batched, RunState
    <2>2. QED
      BY <1>8, <1>f, <1>g, <2>1, CopiedBecome DEF Put
  <1>9. ASSUME NEW r \in Runs, PutRaises(r) PROVE CopyInv'
    BY <1>9, <1>c, <1>f, <1>g, CopiedNextTable DEF PutRaises, TableFails
  <1>10. ASSUME NEW r \in Runs, PutLocked(r) \/ Verify(r) \/ VerifyRaises(r)
         PROVE  CopyInv'
    BY <1>10, <1>c, <1>g, CopiedNextTable DEF PutLocked, Verify, VerifyRaises, TableFails
  <1>11. ASSUME NEW r \in Runs, Crash(r) PROVE CopyInv'
    <2>1. Copied(Fresh)
      BY <1>e DEF Fresh
    <2>2. QED
      BY <1>11, <1>c, <1>g, <2>1, CopiedBecome DEF Crash
  <1>12. ASSUME NEW t \in Tables, NEW row \in Rows, Edit(t, row) PROVE CopyInv'
    <2>1. PICK f \in Fillings : table' = [table EXCEPT ![t].cells[row].marks = f]
      BY <1>12 DEF Edit
    <2>2. f # {}
      BY ApplyAssumption
    <2>3. ASSUME NEW u \in Tables, NEW s \in Rows
          PROVE  /\ table'[u].cells[s].by = table[u].cells[s].by
                 /\ \/ table'[u].cells[s].marks = table[u].cells[s].marks
                    \/ table'[u].cells[s].marks = f
      BY <2>1, <1>a DEF TypeOK, Book, Cell
    <2>4. TablesFilled
      BY <2>2, <2>3, <1>b DEF Filled
    <2>5. QED
      BY <1>12, <1>d, <1>g, <2>4 DEF Edit
  <1>13. ASSUME NEW e \in Events, Refile(e) \/ Publish(Due[e]) PROVE CopyInv'
    BY <1>13, <1>c, <1>d, <1>g DEF Refile, Publish
  <1>14. CASE UNCHANGED vars
    BY <1>14, <1>c, <1>d, <1>g DEF vars
  <1>15. QED
    BY <1>1, <1>2, <1>3, <1>4, <1>5, <1>6, <1>7, <1>8, <1>9, <1>10, <1>11, <1>12,
       <1>13, <1>14 DEF Next, RunStep, RunFault

LEMMA CopyInit == Init => CopyInv
  <1> SUFFICES ASSUME Init PROVE CopyInv
    OBVIOUS
  <1>1. \A t \in Tables : Filled(table[t])
    BY EmptyCopied DEF Init
  <1>2. Copied(Fresh)
    <2>1. /\ Fresh.base = EmptyBook /\ Fresh.book = EmptyBook
          /\ Fresh.plan = {} /\ Fresh.batch = {}
      BY DEF Fresh
    <2>2. QED
      BY <2>1, EmptyCopied DEF Copied, Batched
  <1>3. \A r \in Runs : Copied(me[r])
    BY <1>2 DEF Init
  <1>4. QED
    BY <1>1, <1>3, TypeInit DEF CopyInv

\* A put of an unchanged table keeps its filled rows and its log.
LEMMA StoredKeeps ==
    ASSUME CopyInv, NEW r \in Runs, Stored(r), ~stale', NEW t \in Tables
    PROVE  /\ \A row \in Rows : table[t].cells[row].marks # {}
                => table'[t].cells[row] = table[t].cells[row]
           /\ \A e \in Events : table[t].log[e] # None => table'[t].log[e] # None
  <1>1. CASE t = me[r].at
    <2>1. table[t] = me[r].base /\ table'[t] = me[r].book
      BY <1>1 DEF Stored, CopyInv, TypeOK
    <2>2. Derived(me[r])
      BY DEF CopyInv, Copied
    <2>3. QED
      BY <2>1, <2>2 DEF Derived
  <1>2. CASE t # me[r].at
    BY <1>2 DEF Stored, CopyInv, TypeOK
  <1>3. QED
    BY <1>1, <1>2

\* What a step does to a table: a put, or an edit of accounting.
LEMMA TablesGrow ==
    ASSUME CopyInv, [Next]_vars, ~stale', NEW t \in Tables
    PROVE  /\ \A row \in Rows : table[t].cells[row].marks # {}
                => table'[t].cells[row].by = table[t].cells[row].by
           /\ \A e \in Events : table[t].log[e] # None => table'[t].log[e] # None
  <1>1. CASE \E r \in Runs : Stored(r)
    BY <1>1, StoredKeeps
  <1>2. CASE UNCHANGED table
    BY <1>2
  <1>3. CASE \E u \in Tables, row \in Rows : Edit(u, row)
    <2>1. PICK u \in Tables, row \in Rows, f \in Fillings :
            table' = [table EXCEPT ![u].cells[row].marks = f]
      BY <1>3 DEF Edit
    <2>2. /\ \A s \in Rows : table'[t].cells[s].by = table[t].cells[s].by
          /\ table'[t].log = table[t].log
      BY <2>1 DEF CopyInv, TypeOK, Book, Cell
    <2>3. QED
      BY <2>2
  <1>4. QED
    <2>1. \A r \in Runs : RunStep(r) => Stored(r) \/ UNCHANGED table
      BY DEF RunStep, PlanEvent, Preflight, Download, ApplyItem, ItemsDone, Put,
             Verify, Finish
    <2>2. \A r \in Runs : RunFault(r) => Stored(r) \/ UNCHANGED table
      BY DEF RunFault, PlanFails, DownloadRaises, PutLocked, PutRaises,
             VerifyRaises, Crash
    <2>3. QED
      BY <1>1, <1>2, <1>3, <2>1, <2>2 DEF Next, Begin, Refile, Publish, vars

(* As long as no put replaced a table that had changed since it was        *)
(* downloaded, no step takes a filled row from whom it belongs to, for     *)
(* every set of tables, rows, jobs and asientos.                           *)
THEOREM FilledRowsStay == Spec => EntriesStay
  <1> DEFINE A == ~stale' => \A t \in Tables, row \in Rows :
                    table[t].cells[row].marks # {}
                       => table'[t].cells[row].by = table[t].cells[row].by
  <1>1. CopyInv /\ [Next]_vars => [A]_vars
    BY TablesGrow
  <1>2. Spec => [][A]_vars
    <2> HIDE DEF A
    <2>1. QED
      BY <1>1, CopyInit, CopyNext, PTL DEF Spec
  <1>3. QED
    BY <1>2 DEF EntriesStay

-----------------------------------------------------------------------------
(* What a job reports                                                      *)

Claims == {"applied", "adopted", "skipped"}

\* The workbook has what the outcome says of the asiento.
InBook(outcome, e, book) ==
    /\ outcome = "applied" => \E row \in Rows : book.cells[row].by = e
    /\ book.log[e] # None

\* The outcome is of an item the job has edited in its copy and not put yet:
\* whatever fails from here on, the item is one of those marked as errors.
InCopy(r, e) ==
    /\ me[r].pc \in {"items", "put"}
    /\ TableOf[e] = me[r].at
    /\ e \in EventsOf(me[r].done)
    /\ InBook(said[r][e], e, me[r].book)

\* The log a job started from is still in the table.
BaseStored(r) ==
    me[r].pc \in {"items", "put"} =>
        \A e \in Events : TableOf[e] = me[r].at /\ me[r].base.log[e] # None
                             => table[TableOf[e]].log[e] # None

Reported(r) ==
    /\ BaseStored(r)
    /\ \A e \in Events : said[r][e] \in Claims
          => InBook(said[r][e], e, table[TableOf[e]]) \/ InCopy(r, e)

ReportInv == CopyInv /\ (~stale => \A r \in Runs : Reported(r))

\* What is stored of an outcome stays stored.
LEMMA InBookStays ==
    ASSUME CopyInv, [Next]_vars, ~stale', NEW e \in Events, NEW outcome,
           InBook(outcome, e, table[TableOf[e]])
    PROVE  InBook(outcome, e, table'[TableOf[e]])
  <1>1. TableOf[e] \in Tables /\ e # None
    BY ApplyAssumption
  <1>2. Filled(table[TableOf[e]])
    BY <1>1 DEF CopyInv
  <1>3. QED
    BY <1>1, <1>2, TablesGrow DEF InBook, Filled

\* The other jobs, and every job in a step that is not an apply job's.
LEMMA OthersReported ==
    ASSUME ReportInv, [Next]_vars, ~stale, ~stale', NEW s \in Runs,
           me'[s] = me[s], said'[s] = said[s]
    PROVE  Reported(s)'
  <1>1. Reported(s)
    BY DEF ReportInv
  <1>2. \A e \in Events : table[TableOf[e]].log[e] # None
                             => table'[TableOf[e]].log[e] # None
    BY TablesGrow, ApplyAssumption DEF ReportInv
  <1>3. BaseStored(s)'
    BY <1>1, <1>2 DEF Reported, BaseStored
  <1>4. ASSUME NEW e \in Events, said'[s][e] \in Claims
        PROVE  InBook(said'[s][e], e, table'[TableOf[e]]) \/ InCopy(s, e)'
    <2>1. InBook(said[s][e], e, table[TableOf[e]]) \/ InCopy(s, e)
      BY <1>1, <1>4 DEF Reported
    <2>2. InCopy(s, e) => InCopy(s, e)'
      BY DEF InCopy
    <2>3. QED
      BY <2>1, <2>2, InBookStays DEF ReportInv
  <1>5. QED
    BY <1>3, <1>4 DEF Reported

\* A job that is not between a download and its put: what it still claims
\* has to be stored.
LEMMA OwnReported ==
    ASSUME ReportInv, [Next]_vars, ~stale, ~stale', NEW r \in Runs,
           me'[r].pc \notin {"items", "put"},
           \A e \in Events : said'[r][e] \in Claims
              => /\ said'[r][e] = said[r][e]
                 /\ InCopy(r, e) => InBook(said[r][e], e, table'[TableOf[e]])
    PROVE  Reported(r)'
  <1>1. Reported(r)
    BY DEF ReportInv
  <1>2. BaseStored(r)'
    BY DEF BaseStored
  <1>3. ASSUME NEW e \in Events, said'[r][e] \in Claims
        PROVE  InBook(said'[r][e], e, table'[TableOf[e]])
    <2>1. InBook(said[r][e], e, table[TableOf[e]]) \/ InCopy(r, e)
      BY <1>1, <1>3 DEF Reported
    <2>2. QED
      BY <2>1, <1>3, InBookStays DEF ReportInv
  <1>4. QED
    BY <1>2, <1>3 DEF Reported

\* Every item of the table is an error.
LEMMA TableFailsReported ==
    ASSUME ReportInv, [Next]_vars, ~stale, ~stale', NEW r \in Runs, TableFails(r)
    PROVE  Reported(r)'
  <1>1. me'[r].pc = "tables"
    BY DEF TableFails, NextTable, Become, ReportInv, CopyInv, TypeOK
  <1>2. \A e \in Events : said'[r][e] =
          IF TableOf[e] = me[r].at /\ said[r][e] # "none" THEN "error" ELSE said[r][e]
    BY DEF TableFails, Says, ReportInv, CopyInv, TypeOK
  <1>3. \A e \in Events : said'[r][e] \in Claims
           => said'[r][e] = said[r][e] /\ ~InCopy(r, e)
    BY <1>2 DEF Claims, InCopy
  <1>4. QED
    BY <1>1, <1>3, OwnReported

LEMMA ApplyItemReported ==
    ASSUME ReportInv, [Next]_vars, ~stale, ~stale', NEW r \in Runs, ApplyItem(r)
    PROVE  Reported(r)'
  <1> DEFINE rest(i) == [me[r] EXCEPT !.batch = @ \ {i}]
  <1>1. PICK i \in me[r].batch :
          \/ /\ Verdict(i, me[r].base.log, me[r].book) \in {"applied", "adopted"}
             /\ Become(r, [rest(i) EXCEPT !.book = Edited(i, @), !.done = @ \cup {i}])
             /\ Says(r, {i.event}, Verdict(i, me[r].base.log, me[r].book))
          \/ /\ Verdict(i, me[r].base.log, me[r].book) \in {"skipped", "error"}
             /\ Become(r, rest(i))
             /\ Says(r, {i.event}, Verdict(i, me[r].base.log, me[r].book))
          \/ TableFails(r)
    BY DEF ApplyItem
  <1>a. /\ me \in [Runs -> RunState] /\ me[r] \in RunState
        /\ said \in [Runs -> [Events -> Outcomes]]
    BY DEF ReportInv, CopyInv, TypeOK, RunState
  <1>b. /\ i \in Item /\ i.event \in Events /\ i.print \in Prints /\ i.print # None
        /\ me[r].book \in Book
    BY <1>a, ApplyAssumption DEF RunState, Item
  <1>c. /\ TableOf[i.event] = me[r].at
        /\ i.status = "WOULD_APPLY" => i.row \in Rows
        /\ Derived(me[r])
    BY DEF ReportInv, CopyInv, Copied, Batched, Placed
  <1>d. Reported(r) /\ me[r].pc = "items"
    BY DEF ReportInv, ApplyItem, At
  <1>e. UNCHANGED table
    BY DEF ApplyItem
  <1>2. CASE TableFails(r)
    BY <1>2, TableFailsReported
  <1>3. CASE /\ Verdict(i, me[r].base.log, me[r].book) \in {"skipped", "error"}
             /\ Become(r, rest(i))
             /\ Says(r, {i.event}, Verdict(i, me[r].base.log, me[r].book))
    <2>1. /\ me'[r].pc = "items" /\ me'[r].at = me[r].at
          /\ me'[r].base = me[r].base /\ me'[r].book = me[r].book
          /\ me'[r].done = me[r].done
      BY <1>3, <1>a, <1>d DEF Become, RunState
    <2>2. \A e \in Events : said'[r][e] =
            IF e = i.event THEN Verdict(i, me[r].base.log, me[r].book) ELSE said[r][e]
      BY <1>3, <1>a DEF Says
    <2>3. BaseStored(r)'
      BY <2>1, <1>d, <1>e DEF Reported, BaseStored
    <2>4. ASSUME NEW e \in Events, e # i.event, said'[r][e] \in Claims
          PROVE  InBook(said'[r][e], e, table'[TableOf[e]]) \/ InCopy(r, e)'
      BY <2>1, <2>2, <2>4, <1>d, <1>e DEF Reported, InCopy
    <2>5. ASSUME said'[r][i.event] \in Claims
          PROVE  \/ InBook(said'[r][i.event], i.event, table'[TableOf[i.event]])
                 \/ InCopy(r, i.event)'
      <3>1. Verdict(i, me[r].base.log, me[r].book) = "skipped" /\ said'[r][i.event] = "skipped"
        BY <2>2, <2>5, <1>3, <1>b DEF Claims
      <3>2. me[r].base.log[i.event] # None
        BY <3>1, <1>b DEF Verdict
      <3>3. QED
        BY <3>1, <3>2, <1>b, <1>c, <1>d, <1>e DEF Reported, BaseStored, InBook
    <2>6. QED
      BY <2>3, <2>4, <2>5 DEF Reported
  <1>4. CASE /\ Verdict(i, me[r].base.log, me[r].book) \in {"applied", "adopted"}
             /\ Become(r, [rest(i) EXCEPT !.book = Edited(i, @), !.done = @ \cup {i}])
             /\ Says(r, {i.event}, Verdict(i, me[r].base.log, me[r].book))
    <2> DEFINE book == Edited(i, me[r].book)
    <2>1. /\ me'[r].pc = "items" /\ me'[r].at = me[r].at
          /\ me'[r].base = me[r].base /\ me'[r].book = book
          /\ me'[r].done = me[r].done \cup {i}
      BY <1>4, <1>a, <1>d DEF Become, RunState
    <2>2. \A e \in Events : said'[r][e] =
            IF e = i.event THEN Verdict(i, me[r].base.log, me[r].book) ELSE said[r][e]
      BY <1>4, <1>a DEF Says
    <2>3. BaseStored(r)'
      BY <2>1, <1>d, <1>e DEF Reported, BaseStored
    <2>4. /\ i.event \in EventsOf(me'[r].done)
          /\ EventsOf(me[r].done) \subseteq EventsOf(me'[r].done)
      BY <2>1 DEF EventsOf
    <2>5. /\ \A e \in Events : me[r].book.log[e] # None => book.log[e] # None
          /\ book.log[i.event] # None
      BY <1>b DEF Edited, Book
    <2>6. /\ i.status = "WOULD_APPLY" => me[r].book.cells[i.row].marks = {}
          /\ Verdict(i, me[r].base.log, me[r].book) = "applied" => i.status = "WOULD_APPLY"
      BY <1>4, AppliedWasEmpty
    <2>7. \A row \in Rows : \A e \in Events :
            me[r].book.cells[row].by = e => book.cells[row].by = e
      <3>1. Filled(me[r].book) /\ None \notin Events
        BY ApplyAssumption DEF ReportInv, CopyInv, Copied
      <3>2. QED
        BY <3>1, <2>6, <1>b DEF Filled, Edited, Book
    <2>8. InBook(Verdict(i, me[r].base.log, me[r].book), i.event, book)
      <3>1. i.status = "WOULD_APPLY" => book.cells[i.row].by = i.event
        BY <1>b, <1>c DEF Edited, Book
      <3>2. QED
        BY <3>1, <2>5, <2>6, <1>c DEF InBook
    <2>9. ASSUME NEW e \in Events, said'[r][e] \in Claims
          PROVE  InBook(said'[r][e], e, table'[TableOf[e]]) \/ InCopy(r, e)'
      <3>1. CASE e = i.event
        BY <3>1, <2>1, <2>2, <2>4, <2>8, <1>c DEF InCopy
      <3>2. CASE e # i.event /\ InBook(said[r][e], e, table[TableOf[e]])
        BY <3>2, <2>2, <1>e
      <3>3. CASE e # i.event /\ InCopy(r, e)
        <4>1. InBook(said[r][e], e, book)
          BY <3>3, <2>5, <2>7 DEF InCopy, InBook
        <4>2. QED
          BY <3>3, <4>1, <2>1, <2>2, <2>4 DEF InCopy
      <3>4. QED
        BY <3>1, <3>2, <3>3, <2>2, <2>9, <1>d DEF Reported
    <2>10. QED
      BY <2>3, <2>9 DEF Reported
  <1>5. QED
    BY <1>1, <1>2, <1>3, <1>4

LEMMA ReportNext == ReportInv /\ [Next]_vars => ReportInv'
  <1> SUFFICES ASSUME ReportInv, [Next]_vars PROVE ReportInv'
    OBVIOUS
  <1>a. CopyInv /\ TypeOK /\ \A s \in Runs : me[s] \in RunState
    BY DEF ReportInv, CopyInv, TypeOK, RunState
  <1>b. CopyInv'
    BY <1>a, CopyNext
  <1>s. stale => stale'
    <2>1. \A r \in Runs : RunStep(r) \/ RunFault(r) => UNCHANGED stale \/ Stored(r)
      BY DEF RunStep, PlanEvent, Preflight, Download, ApplyItem, ItemsDone, Put,
             Verify, Finish, RunFault, PlanFails, DownloadRaises, PutLocked,
             PutRaises, VerifyRaises, Crash
    <2>2. QED
      BY <2>1 DEF Stored, Next, Begin, Edit, Refile, Publish, vars
  <1> SUFFICES ASSUME ~stale', ~stale, NEW s \in Runs PROVE Reported(s)'
    BY <1>b, <1>s DEF ReportInv
  <1>c. ASSUME NEW r \in Runs, s # r,
               \/ \E state : Become(r, state)
               \/ NextTable(r),
               \/ UNCHANGED said
               \/ \E v : said' = [said EXCEPT ![r] = v]
        PROVE  Reported(s)'
    <2>1. me'[s] = me[s] /\ said'[s] = said[s]
      BY <1>a, <1>c DEF NextTable, Become, TypeOK
    <2>2. QED
      BY <2>1, OthersReported
  <1>d. ASSUME NEW r \in Runs, NEW state, Become(r, state) PROVE me'[r] = state
    BY <1>a, <1>d DEF Become, TypeOK
  <1>e. ASSUME NEW r \in Runs, NextTable(r) PROVE me'[r].pc = "tables"
    BY <1>a, <1>e DEF NextTable, Become, TypeOK
  <1>f. ASSUME NEW r \in Runs, NEW E, Says(r, E, "error"), NEW e \in Events,
               said'[r][e] \in Claims
        PROVE  said'[r][e] = said[r][e] /\ e \notin E
    BY <1>a, <1>f DEF Says, TypeOK, Claims
  <1>g. Fresh.pc = "idle" /\ Nothing \in [Events -> {"none"}]
    BY DEF Fresh, Nothing
  <1>1. ASSUME NEW r \in Runs, Begin(r) PROVE Reported(s)'
    <2>1. PICK m \in Manifests : Become(r, [Fresh EXCEPT !.pc = "plan", !.left = m])
      BY <1>1 DEF Begin
    <2>2. me'[r].pc = "plan" /\ said'[r] = Nothing
      BY <2>1, <1>1, <1>a, <1>d DEF Begin, Fresh, TypeOK
    <2>3. s = r => Reported(s)'
      BY <2>2, <1>g, OwnReported DEF Claims
    <2>4. QED
      BY <2>1, <2>3, <1>1, <1>c DEF Begin
  <1>2. ASSUME NEW r \in Runs, PlanEvent(r) PROVE Reported(s)'
    <2>1. me'[r].pc = "plan" /\ UNCHANGED said
      BY <1>2, <1>a, <1>d DEF PlanEvent, At, RunState
    <2>2. s = r => Reported(s)'
      BY <2>1, <1>2, OwnReported DEF InCopy, PlanEvent, At
    <2>3. QED
      BY <2>2, <1>2, <1>c DEF PlanEvent
  <1>3. ASSUME NEW r \in Runs, Preflight(r) \/ PlanFails(r) \/ Finish(r)
        PROVE  Reported(s)'
    <2>1. /\ me'[r].pc \in {"tables", "ended"} /\ UNCHANGED said
          /\ me[r].pc \notin {"items", "put"}
      BY <1>3, <1>a, <1>d DEF Preflight, PlanFails, Finish, At, RunState, Fresh
    <2>2. s = r => Reported(s)'
      BY <2>1, OwnReported DEF InCopy
    <2>3. QED
      BY <2>2, <1>3, <1>c DEF Preflight, PlanFails, Finish
  <1>4. ASSUME NEW r \in Runs, Download(r) PROVE Reported(s)'
    <2>1. PICK t \in {TableOf[i.event] : i \in me[r].plan} :
            /\ Become(r, [me[r] EXCEPT !.pc = "items", !.at = t,
                          !.batch = {i \in me[r].plan : TableOf[i.event] = t},
                          !.plan = @ \ {i \in me[r].plan : TableOf[i.event] = t},
                          !.base = table[t], !.book = table[t]])
            /\ Says(r, EventsOf({i \in me[r].plan : TableOf[i.event] = t}), "planned")
      BY <1>4 DEF Download
    <2>2. me'[r].at = t /\ me'[r].base = table[t] /\ me[r].pc = "tables"
      BY <2>1, <1>a, <1>d, <1>4 DEF RunState, Download, At
    <2>3. BaseStored(r)'
      BY <2>2, <1>4 DEF BaseStored, Download
    <2>4. ASSUME NEW e \in Events, said'[r][e] \in Claims
          PROVE  InBook(said'[r][e], e, table'[TableOf[e]])
      <3>1. said'[r][e] = said[r][e]
        BY <2>1, <2>4, <1>a DEF Says, TypeOK, Claims
      <3>2. ~InCopy(r, e)
        BY <2>2 DEF InCopy
      <3>3. QED
        BY <3>1, <3>2, <2>4, <1>4 DEF ReportInv, Reported, Download
    <2>5. s = r => Reported(s)'
      BY <2>3, <2>4 DEF Reported
    <2>6. QED
      BY <2>1, <2>5, <1>c DEF Says
  <1>5. ASSUME NEW r \in Runs, DownloadRaises(r) PROVE Reported(s)'
    <2>1. PICK t : LET batch == {i \in me[r].plan : TableOf[i.event] = t} IN
                   /\ Become(r, [me[r] EXCEPT !.plan = @ \ batch])
                   /\ Says(r, EventsOf(batch), "error")
      BY <1>5 DEF DownloadRaises
    <2>2. me'[r].pc = "tables" /\ me[r].pc = "tables"
      BY <2>1, <1>a, <1>d, <1>5 DEF RunState, DownloadRaises, At
    <2>3. s = r => Reported(s)'
      BY <2>1, <2>2, <1>f, OwnReported DEF InCopy
    <2>4. QED
      BY <2>1, <2>3, <1>c DEF Says
  <1>6. ASSUME NEW r \in Runs, ApplyItem(r) PROVE Reported(s)'
    <2>1. PICK i \in me[r].batch :
            /\ (\E state : Become(r, state)) \/ NextTable(r)
            /\ \E v : said' = [said EXCEPT ![r] = v]
      BY <1>6 DEF ApplyItem, TableFails, Says
    <2>2. QED
      BY <2>1, <1>6, <1>c, ApplyItemReported
  <1>7. ASSUME NEW r \in Runs, ItemsDone(r) PROVE Reported(s)'
    <2>1. CASE me[r].done = {}
      <3>1. NextTable(r) /\ UNCHANGED said
        BY <1>7, <2>1 DEF ItemsDone
      <3>2. \A e \in Events : ~InCopy(r, e)
        BY <2>1 DEF InCopy, EventsOf
      <3>3. QED
        BY <3>1, <3>2, <1>c, <1>e, OwnReported
    <2>2. CASE me[r].done # {}
      <3>1. Become(r, [me[r] EXCEPT !.pc = "put"]) /\ UNCHANGED <<said, table>>
        BY <1>7, <2>2 DEF ItemsDone
      <3>2. /\ me[r].pc = "items" /\ me'[r].pc = "put"
            /\ me'[r].at = me[r].at /\ me'[r].base = me[r].base
            /\ me'[r].book = me[r].book /\ me'[r].done = me[r].done
        BY <3>1, <1>a, <1>d, <1>7 DEF RunState, ItemsDone, At
      <3>3. Reported(r)
        BY DEF ReportInv
      <3>4. BaseStored(r)' /\ \A e \in Events : InCopy(r, e) => InCopy(r, e)'
        BY <3>1, <3>2, <3>3 DEF Reported, BaseStored, InCopy
      <3>5. Reported(r)'
        BY <3>1, <3>3, <3>4 DEF Reported
      <3>6. QED
        BY <3>1, <3>5, <1>c
    <2>3. QED
      BY <2>1, <2>2
  <1>8. ASSUME NEW r \in Runs, Put(r) PROVE Reported(s)'
    <2>1. me'[r].pc = "verify" /\ UNCHANGED said
      BY <1>8, <1>a, <1>d DEF RunState, Put
    <2>2. ASSUME NEW e \in Events, InCopy(r, e)
          PROVE  InBook(said[r][e], e, table'[TableOf[e]])
      <3>1. table'[TableOf[e]] = me[r].book
        BY <1>8, <1>a, <2>2, ApplyAssumption DEF Put, Stored, InCopy, TypeOK
      <3>2. QED
        BY <3>1, <2>2 DEF InCopy
    <2>3. s = r => Reported(s)'
      BY <2>1, <2>2, OwnReported
    <2>4. QED
      BY <2>3, <1>8, <1>c DEF Put
  <1>9. ASSUME NEW r \in Runs, PutRaises(r) \/ VerifyRaises(r) PROVE Reported(s)'
    <2>1. TableFails(r)
      BY <1>9 DEF PutRaises, VerifyRaises
    <2>2. QED
      BY <2>1, <1>c, TableFailsReported DEF TableFails, Says
  <1>10. ASSUME NEW r \in Runs, PutLocked(r) PROVE Reported(s)'
    <2>1. NextTable(r) /\ Says(r, EventsOf(me[r].done), "error")
      BY <1>10 DEF PutLocked
    <2>2. s = r => Reported(s)'
      BY <2>1, <1>e, <1>f, OwnReported DEF InCopy
    <2>3. QED
      BY <2>1, <2>2, <1>c DEF Says
  <1>11. ASSUME NEW r \in Runs, Verify(r) PROVE Reported(s)'
    <2>1. /\ me[r].pc = "verify" /\ NextTable(r)
          /\ \E E : Says(r, E, "error")
      BY <1>11 DEF Verify, At
    <2>2. s = r => Reported(s)'
      BY <2>1, <1>e, <1>f, OwnReported DEF InCopy
    <2>3. QED
      BY <2>1, <2>2, <1>c DEF Says
  <1>12. ASSUME NEW r \in Runs, Crash(r) PROVE Reported(s)'
    <2>1. me'[r].pc = "idle" /\ said'[r] = Nothing
      BY <1>12, <1>a, <1>d, <1>g DEF Crash, TypeOK
    <2>2. s = r => Reported(s)'
      BY <2>1, <1>g, OwnReported DEF Claims
    <2>3. QED
      BY <2>2, <1>12, <1>c DEF Crash
  <1>13. ASSUME UNCHANGED <<me, said>> PROVE Reported(s)'
    BY <1>13, OthersReported
  <1>14. QED
    BY <1>1, <1>2, <1>3, <1>4, <1>5, <1>6, <1>7, <1>8, <1>9, <1>10, <1>11, <1>12,
       <1>13 DEF Next, RunStep, RunFault, Edit, Refile, Publish, vars

(* What an ended job reports is in its tables, as long as no put replaced  *)
(* a table that had changed meanwhile: every job, whatever overlaps it and *)
(* whichever calls fail, marks what it could not store as an error.        *)
THEOREM ReportsAreStored == Spec => []ReportedIsStored
  <1>1. Init => ReportInv
    <2> SUFFICES ASSUME Init PROVE ReportInv
      OBVIOUS
    <2>1. \A r \in Runs : me[r].pc = "idle" /\ \A e \in Events : said[r][e] = "none"
      BY DEF Init, Fresh, Nothing
    <2>2. \A r \in Runs : Reported(r)
      BY <2>1 DEF Reported, BaseStored, Claims
    <2>3. QED
      BY <2>2, CopyInit DEF ReportInv
  <1>2. ReportInv => ReportedIsStored
    <2> SUFFICES ASSUME ReportInv, NEW r \in Runs, NEW e \in Events, ~stale,
                        me[r].pc = "ended", said[r][e] \in Claims
                 PROVE  InBook(said[r][e], e, table[TableOf[e]])
      BY DEF ReportedIsStored, At, Claims, InBook, WrittenFor
    <2>1. ~InCopy(r, e)
      BY DEF InCopy
    <2>2. QED
      BY <2>1 DEF ReportInv, Reported
  <1>3. QED
    BY <1>1, <1>2, ReportNext, PTL DEF Spec
=============================================================================
