-------------------------- MODULE CreditTreeProofs --------------------------
(***************************************************************************)
(* Lemmas about the folder of a client and the rules by which it is read:  *)
(* what they return, and what one step of accounting does to a path.       *)
(***************************************************************************)
EXTENDS CreditTree, FiniteSetTheorems, NaturalsInduction, TLAPS

\* The folders are those of the choices, and no place has two files of a name.
OneEach ==
    \A x, y \in Extracts :
        tree[x] = tree[y] /\ tree[x] # Nowhere /\ About[x].file = About[y].file => x = y

TreeInv ==
    /\ name \in NameChoices
    /\ tree \in [Extracts -> Places \cup {Nowhere}]
    /\ moves \in 0 .. MaxMoves
    /\ OneEach

NatOrNone == Nat \cup {None}

-----------------------------------------------------------------------------
(***************************************************************************)
(* Least elements.                                                         *)
(***************************************************************************)
\* A set of naturals that is not empty has its smallest element.
LEMMA SmallestIsLeast ==
    ASSUME NEW S, S \subseteq Nat, S # {}
    PROVE  SmallestOf(S) \in S /\ \A y \in S : SmallestOf(S) <= y
  <1>1. PICK x \in S : \A y \in S : <<y, x>> \notin OpToRel(<, Nat)
    BY NatLessThanWellFounded, WFMin
  <1>2. \A y \in S : x <= y
    <2> SUFFICES ASSUME NEW y \in S PROVE x <= y
      OBVIOUS
    <2>1. ~(y < x)
      BY <1>1 DEF OpToRel
    <2> QED
      BY <2>1
  <1> QED
    BY <1>2 DEF SmallestOf

\* A strict order on a finite set has a least element.
LEMMA FiniteLeast ==
    ASSUME NEW S, IsFiniteSet(S), S # {}, NEW R,
           \A x, y, z \in S : <<x, y>> \in R /\ <<y, z>> \in R => <<x, z>> \in R,
           \A x \in S : <<x, x>> \notin R
    PROVE  \E x \in S : \A y \in S : <<y, x>> \notin R
  <1> DEFINE Below(x) == {y \in S : <<y, x>> \in R}
             size == [x \in S |-> Cardinality(Below(x))]
  <1>1. \A x \in S : IsFiniteSet(Below(x)) /\ size[x] = Cardinality(Below(x)) /\ size[x] \in Nat
    <2> SUFFICES ASSUME NEW x \in S
                 PROVE  /\ IsFiniteSet(Below(x))
                        /\ size[x] = Cardinality(Below(x)) /\ size[x] \in Nat
      OBVIOUS
    <2>1. IsFiniteSet(Below(x))
      BY FS_Subset, Below(x) \in SUBSET S
    <2> QED
      BY <2>1, FS_CardinalityType
  <1>2. \A x \in S : size[x] \in Nat
    BY <1>1
  <1>3. PICK x \in S : \A y \in S : size[x] <= size[y]
    <2> HIDE DEF size, Below
    <2> DEFINE sizes == {size[x] : x \in S}
    <2>1. sizes \subseteq Nat /\ sizes # {}
      BY <1>2
    <2>2. SmallestOf(sizes) \in sizes /\ \A n \in sizes : SmallestOf(sizes) <= n
      <3> HIDE DEF sizes
      <3> QED
        BY <2>1, SmallestIsLeast
    <2>3. PICK x \in S : size[x] = SmallestOf(sizes)
      BY <2>2
    <2>4. \A y \in S : size[y] \in sizes
      OBVIOUS
    <2> HIDE DEF sizes
    <2> QED
      BY <2>2, <2>3, <2>4
  <1>4. ASSUME NEW y \in S, <<y, x>> \in R
        PROVE  FALSE
    <2>1. Below(y) \in SUBSET Below(x) /\ y \in Below(x) /\ y \notin Below(y)
      BY <1>4
    <2>2. Cardinality(Below(y)) <= Cardinality(Below(x))
          /\ Cardinality(Below(x)) # Cardinality(Below(y))
      BY <1>1, <2>1, FS_Subset
    <2>3. size[y] <= size[x] /\ size[x] # size[y]
      BY <1>1, <2>2
    <2> HIDE DEF size, Below
    <2> QED
      BY <1>2, <1>3, <2>3
  <1> QED
    BY <1>4

-----------------------------------------------------------------------------
(***************************************************************************)
(* What is read in texts, names and labels.                                *)
(***************************************************************************)
LEMMA ValueAfterType ==
    ASSUME NEW text \in Text, NEW i \in Nat, NEW n \in Nat, NEW kind
    PROVE  ValueAfter(text, i, n, kind) \in NatOrNone
  <1> DEFINE places == {j \in i + 1 .. i + n : j <= Len(text) /\ text[j].kind = kind}
  <1>1. CASE places = {}
    BY <1>1 DEF ValueAfter, NatOrNone
  <1>2. CASE places # {}
    <2>1. SmallestOf(places) \in places
      <3>1. places \subseteq Nat
        OBVIOUS
      <3> HIDE DEF places
      <3> QED
        BY <1>2, <3>1, SmallestIsLeast
    <2>2. SmallestOf(places) \in 1 .. Len(text)
      BY <2>1
    <2>3. text[SmallestOf(places)] \in Token
      BY <2>2 DEF Text
    <2> QED
      BY <1>2, <2>3 DEF ValueAfter, NatOrNone, Token
  <1> QED
    BY <1>1, <1>2

LEMMA ValueAtType ==
    ASSUME NEW text \in Text, NEW label, NEW n \in Nat, NEW kind
    PROVE  ValueAt(text, label, n, kind) \in NatOrNone
  <1> DEFINE places == {i \in DOMAIN text : /\ text[i].kind = label
                                            /\ ValueAfter(text, i, n, kind) # None}
  <1>1. places \subseteq Nat
    <2>1. DOMAIN text \subseteq Nat
      BY DEF Text
    <2> QED
      BY <2>1
  <1>2. CASE places = {}
    BY <1>2 DEF ValueAt, NatOrNone
  <1>3. CASE places # {}
    <2>1. SmallestOf(places) \in Nat
      BY <1>1, <1>3, SmallestIsLeast
    <2> QED
      BY <1>3, <2>1, ValueAfterType DEF ValueAt
  <1> QED
    BY <1>2, <1>3

LEMMA FirstLabelledType ==
    ASSUME NEW text \in Text, NEW labels, NEW n \in Nat, NEW kind
    PROVE  FirstLabelled(text, labels, n, kind) \in NatOrNone
  BY ValueAtType DEF FirstLabelled, NatOrNone

LEMMA LooseDayType ==
    ASSUME NEW text \in Text
    PROVE  LooseDay(text) \in NatOrNone
  <1> DEFINE places == {i \in DOMAIN text :
                      /\ text[i].kind = "fecha limite"
                      /\ ~(i < Len(text) /\ text[i + 1].kind = "desembolso")
                      /\ ValueAfter(text, i, 1, "day") # None}
  <1>1. places \subseteq Nat
    <2>1. DOMAIN text \subseteq Nat
      BY DEF Text
    <2> QED
      BY <2>1
  <1>2. CASE places = {}
    BY <1>2 DEF LooseDay, NatOrNone
  <1>3. CASE places # {}
    <2>1. SmallestOf(places) \in Nat
      BY <1>1, <1>3, SmallestIsLeast
    <2> QED
      BY <1>3, <2>1, ValueAfterType DEF LooseDay
  <1> QED
    BY <1>2, <1>3

\* The due day, the credit and the amount of a text are numbers or missing.
LEMMA TextTypes ==
    ASSUME NEW text \in Text
    PROVE  /\ DueDay(text) \in NatOrNone
           /\ CreditIn(text) \in NatOrNone
           /\ TotalToPay(text) \in NatOrNone
  <1>1. Window \in Nat
    BY ExtractAssumption
  <1> QED
    BY <1>1, LooseDayType, FirstLabelledType, ValueAtType DEF DueDay, CreditIn, TotalToPay

LEMMA NameTypes ==
    ASSUME NEW n \in FileName
    PROVE  /\ StatementCredit(n) \in NatOrNone
           /\ DayInName(n) \in NatOrNone
           /\ DayAtEnd(n) \in NatOrNone
  BY DEF FileName, StatementCredit, DayInName, DayAtEnd, NatOrNone

LEMMA NumberType == \A n \in Nat : Number(n) \in Label
  BY DEF Number, Label, Words

\* The rules for the number of a credit give a number or none.
LEMMA LabelTypes ==
    ASSUME NEW l \in Label
    PROVE  /\ Digits(l) \in NatOrNone
           /\ MatchNumber(l) \in NatOrNone
           /\ SegmentNumber(l) \in NatOrNone
           /\ CreditKey(l) \in Label
  <1>1. l.numbers \in Seq(Nat) /\ l.lead \in Nat
    BY DEF Label
  <1>2. l.lead < Len(l.numbers) => l.numbers[l.lead + 1] \in Nat
    BY <1>1
  <1>3. l.numbers # <<>> => Head(l.numbers) \in Nat /\ Last(l.numbers) \in Nat
    BY <1>1 DEF Last
  <1>4. AfterWord(l) \in NatOrNone
    BY <1>2 DEF AfterWord, NatOrNone
  <1>5. Digits(l) \in NatOrNone
    BY <1>3, <1>4 DEF Digits, NatOrNone
  <1>6. MatchNumber(l) \in NatOrNone
    BY <1>3, <1>4 DEF MatchNumber, FirstOf, NatOrNone
  <1>7. SegmentNumber(l) \in NatOrNone
    <2>1. Len(l.numbers) = 1 => Head(l.numbers) \in Nat
      BY <1>1
    <2> QED
      BY <2>1 DEF SegmentNumber, NatOrNone
  <1>8. CreditKey(l) \in Label
    BY <1>5, NumberType DEF CreditKey, NatOrNone
  <1> QED
    BY <1>5, <1>6, <1>7, <1>8

LEMMA FactTypes ==
    ASSUME NEW e \in Extracts
    PROVE  About[e].file \in Nat /\ About[e].name \in FileName /\ About[e].text \in Text
  BY TreeAssumption DEF Facts

\* Column Credito of a unit and an extract is a label.
LEMMA CreditIdType ==
    ASSUME TreeInv, NEW u \in Units, NEW e \in Extracts
    PROVE  CreditId(u, e) \in Label /\ name[u] \in Label
  <1> DEFINE told == FirstOf(CreditIn(About[e].text), StatementCredit(About[e].name))
  <1>1. name[u] \in Label
    BY TreeAssumption DEF TreeInv
  <1>2. told \in NatOrNone
    BY FactTypes, TextTypes, NameTypes DEF FirstOf
  <1>3. told # None => Number(told) \in Label
    BY <1>2, NumberType DEF NatOrNone
  <1> QED
    BY <1>1, <1>3 DEF CreditId

-----------------------------------------------------------------------------
(***************************************************************************)
(* The tree, and what accounting does to it.                               *)
(***************************************************************************)
LEMMA TreeInit == InitTree => TreeInv
  BY TreeAssumption DEF InitTree, TreeInv, OneEach

\* A file of a name is not put where one is already.
LEMMA TreeMove == TreeInv /\ Move => TreeInv'
  <1> SUFFICES ASSUME TreeInv, Move PROVE TreeInv'
    OBVIOUS
  <1>1. PICK e \in Extracts, p \in Places \cup {Nowhere} :
          /\ \A x \in Extracts : tree[x] = p => p = Nowhere \/ About[x].file # About[e].file
          /\ tree' = [tree EXCEPT ![e] = p]
    BY DEF Move
  <1>2. name' = name /\ moves' = moves + 1 /\ moves < MaxMoves
    BY DEF Move
  <1>3. tree' \in [Extracts -> Places \cup {Nowhere}]
    BY <1>1 DEF TreeInv
  <1>4. moves' \in 0 .. MaxMoves
    BY <1>2, TreeAssumption DEF TreeInv
  <1>5. OneEach'
    <2> SUFFICES ASSUME NEW x \in Extracts, NEW y \in Extracts,
                        tree'[x] = tree'[y], tree'[x] # Nowhere,
                        About[x].file = About[y].file
                 PROVE  x = y
      BY DEF OneEach
    <2>1. CASE x = e \/ y = e
      BY <1>1, <2>1 DEF TreeInv
    <2>2. CASE x # e /\ y # e
      BY <1>1, <2>2 DEF TreeInv, OneEach
    <2> QED
      BY <2>1, <2>2
  <1> QED
    BY <1>2, <1>3, <1>4, <1>5 DEF TreeInv

\* The extract at a path is one, and the only one there of that name.
LEMMA DocIs ==
    ASSUME TreeInv, NEW path, path.at \in Places, Has(path)
    PROVE  /\ DocAt(path) \in Extracts
           /\ tree[DocAt(path)] = path.at /\ About[DocAt(path)].file = path.file
           /\ \A e \in Extracts :
                 tree[e] = path.at /\ About[e].file = path.file => e = DocAt(path)
           /\ path.file \in Nat
  <1>1. \E e \in DocsAt(path.at) : About[e].file = path.file
    BY DEF Has, FilesAt
  <1>2. DocAt(path) \in DocsAt(path.at) /\ About[DocAt(path)].file = path.file
    BY <1>1 DEF DocAt
  <1>3. DocAt(path) \in Extracts /\ tree[DocAt(path)] = path.at
    BY <1>2 DEF DocsAt
  <1>4. path.at # Nowhere
    BY TreeAssumption
  <1> QED
    BY <1>2, <1>3, <1>4, FactTypes DEF TreeInv, OneEach

\* An extract where it is said to be is the one at its path.
LEMMA DocHere ==
    ASSUME TreeInv, NEW p \in Places, NEW e \in Extracts, tree[e] = p
    PROVE  /\ Has([at |-> p, file |-> About[e].file])
           /\ DocAt([at |-> p, file |-> About[e].file]) = e
  <1> DEFINE path == [at |-> p, file |-> About[e].file]
  <1>1. path.at = p /\ path.file = About[e].file
    OBVIOUS
  <1>2. Has(path)
    BY <1>1 DEF Has, FilesAt, DocsAt
  <1> HIDE DEF path
  <1>3. DocAt(path) = e
    BY <1>1, <1>2, DocIs
  <1> QED
    BY <1>2, <1>3 DEF path

\* One step of accounting may take the extract from a path or bring one
\* there; it does not exchange it for another.
LEMMA MovedDoc ==
    ASSUME TreeInv, Move, NEW path, path.at \in Places, Has(path), Has(path)'
    PROVE  DocAt(path)' = DocAt(path)
  <1>1. PICK e \in Extracts, p \in Places \cup {Nowhere} :
          /\ \A x \in Extracts : tree[x] = p => p = Nowhere \/ About[x].file # About[e].file
          /\ tree' = [tree EXCEPT ![e] = p]
    BY DEF Move
  <1>2. \E y \in DocsAt(path.at)' : About[y].file = path.file
    BY DEF Has, FilesAt
  <1>3. PICK y : y = DocAt(path)'
    OBVIOUS
  <1>4. y \in DocsAt(path.at)' /\ About[y].file = path.file
    BY <1>2, <1>3 DEF DocAt
  <1>5. y \in Extracts /\ tree'[y] = path.at
    BY <1>4 DEF DocsAt
  <1>6. /\ DocAt(path) \in Extracts
        /\ tree[DocAt(path)] = path.at /\ About[DocAt(path)].file = path.file
        /\ tree[y] = path.at => y = DocAt(path)
    BY <1>4, <1>5, DocIs
  <1>7. y # e
    <2> SUFFICES ASSUME y = e PROVE FALSE
      OBVIOUS
    <2>1. p = path.at /\ p # Nowhere
      BY <1>1, <1>5, TreeAssumption DEF TreeInv
    <2> QED
      BY <1>1, <1>4, <1>6, <2>1
  <1>8. tree[y] = path.at
    BY <1>1, <1>5, <1>7 DEF TreeInv
  <1> QED
    BY <1>3, <1>6, <1>8

\* The files of a place are finitely many numbers.
LEMMA FilesFinite ==
    ASSUME NEW p
    PROVE  IsFiniteSet(FilesAt(p)) /\ FilesAt(p) \subseteq Nat
  <1> DEFINE f == [e \in DocsAt(p) |-> About[e].file]
  <1>1. IsFiniteSet(DocsAt(p))
    BY TreeAssumption, FS_Subset, DocsAt(p) \in SUBSET Extracts DEF DocsAt
  <1>2. f \in Surjection(DocsAt(p), FilesAt(p))
    BY DEF Surjection, FilesAt
  <1>3. IsFiniteSet(FilesAt(p))
    BY <1>1, <1>2, FS_Surjection
  <1> QED
    BY <1>3, FactTypes DEF FilesAt, DocsAt

-----------------------------------------------------------------------------
(***************************************************************************)
(* The extract generate chooses.                                           *)
(***************************************************************************)
LEMMA DueIs ==
    ASSUME TreeInv, NEW path, path.at \in Places
    PROVE  /\ Due(path) \in NatOrNone
           /\ Due(path) # None => Has(path) /\ Due(path) \in Nat
  BY DocIs, FactTypes, TextTypes DEF Due, NatOrNone

\* A choice is the one readable file with the latest due day.
LEMMA SelectedIs ==
    ASSUME TreeInv, NEW p, p.at \in Places,
           Readable(p) # {}, ~(Cardinality(MaxDue(p)) > 1),
           NEW f, f = (CHOOSE g \in MaxDue(p) : TRUE)
    PROVE  /\ f \in p.files /\ Has(PathIn(p, f)) /\ Due(PathIn(p, f)) # None
           /\ \A g \in p.files \ {f} :
                 Due(PathIn(p, g)) # None => Due(PathIn(p, g)) < Due(PathIn(p, f))
  <1> DEFINE R == {r \in Readable(p) \X Readable(p) :
                      Due(PathIn(p, r[2])) < Due(PathIn(p, r[1]))}
  <1>1. \A g : PathIn(p, g).at = p.at /\ PathIn(p, g).file = g
    BY DEF PathIn
  <1>2. \A g \in Readable(p) : Has(PathIn(p, g)) /\ Due(PathIn(p, g)) \in Nat
    BY <1>1, DueIs DEF Readable
  <1>3. IsFiniteSet(Readable(p))
    <2>1. Readable(p) \in SUBSET FilesAt(p.at)
      BY <1>1, <1>2 DEF Has
    <2> QED
      BY <2>1, FilesFinite, FS_Subset
  <1>4. Readable(p) # {} /\ ~(Cardinality(MaxDue(p)) > 1)
    OBVIOUS
  <1>5. PICK x \in Readable(p) : \A y \in Readable(p) : <<y, x>> \notin R
    <2>1. \A a, b, c \in Readable(p) : <<a, b>> \in R /\ <<b, c>> \in R => <<a, c>> \in R
      BY <1>2
    <2>2. \A a \in Readable(p) : <<a, a>> \notin R
      BY <1>2
    <2> HIDE DEF R
    <2> QED
      BY <1>3, <1>4, <2>1, <2>2, FiniteLeast
  <1>6. x \in MaxDue(p)
    <2>1. \A y \in Readable(p) : ~(Due(PathIn(p, x)) < Due(PathIn(p, y)))
      BY <1>5
    <2>2. \A y \in Readable(p) : Due(PathIn(p, y)) <= Due(PathIn(p, x))
      BY <1>2, <2>1
    <2> QED
      BY <2>2 DEF MaxDue
  <1>7. IsFiniteSet(MaxDue(p)) /\ Cardinality(MaxDue(p)) \in Nat
    BY <1>3, FS_Subset, FS_CardinalityType, MaxDue(p) \in SUBSET Readable(p) DEF MaxDue
  <1>8. Cardinality(MaxDue(p)) = 1
    BY <1>4, <1>6, <1>7, FS_EmptySet
  <1>9. MaxDue(p) = {f}
    BY <1>7, <1>8, FS_Singleton
  <1>10. f \in Readable(p) /\ \A g \in Readable(p) : Due(PathIn(p, g)) <= Due(PathIn(p, f))
    BY <1>9 DEF MaxDue
  <1>11. ASSUME NEW g \in p.files \ {f}, Due(PathIn(p, g)) # None
         PROVE  Due(PathIn(p, g)) < Due(PathIn(p, f))
    <2>1. g \in Readable(p) /\ g \notin MaxDue(p)
      BY <1>9, <1>11 DEF Readable
    <2>2. PICK h \in Readable(p) : ~(Due(PathIn(p, h)) <= Due(PathIn(p, g)))
      BY <2>1 DEF MaxDue
    <2> QED
      BY <1>2, <1>10, <2>1, <2>2
  <1> QED
    BY <1>2, <1>10, <1>11 DEF Readable

-----------------------------------------------------------------------------
(***************************************************************************)
(* The extract finalize finds again.                                       *)
(***************************************************************************)
\* A file of the place, the one the link names if it is there.
LEMMA PickExtractIs ==
    ASSUME NEW p, NEW day \in Nat, NEW hint
    PROVE  /\ FilesAt(p) = {} => PickExtract(p, day, hint) = None
           /\ FilesAt(p) # {} => PickExtract(p, day, hint) \in FilesAt(p)
           /\ hint \in FilesAt(p) => PickExtract(p, day, hint) = hint
  <1> DEFINE Day(f) == DayInName(About[DocAt([at |-> p, file |-> f])].name)
             Nearer(f, g) == \/ Day(g) = None /\ Day(f) # None
                             \/ /\ Day(g) = None /\ Day(f) = None /\ f < g
                             \/ /\ Day(g) # None /\ Day(f) # None
                                /\ \/ Distance(Day(f), day) < Distance(Day(g), day)
                                   \/ Distance(Day(f), day) = Distance(Day(g), day) /\ f < g
             F == FilesAt(p)
             R == {r \in F \X F : Nearer(r[1], r[2])}
  <1>1. PickExtract(p, day, hint) =
          IF F = {} THEN None
          ELSE IF hint \in F THEN hint
          ELSE CHOOSE f \in F : \A g \in F \ {f} : Nearer(f, g)
    BY DEF PickExtract
  <1>2. \A f \in F : f \in Nat /\ Day(f) \in NatOrNone
    <2> SUFFICES ASSUME NEW f \in F PROVE f \in Nat /\ Day(f) \in NatOrNone
      OBVIOUS
    <2>1. \E e \in DocsAt(p) : About[e].file = f
      BY DEF FilesAt
    <2>2. DocAt([at |-> p, file |-> f]) \in DocsAt(p)
      BY <2>1 DEF DocAt
    <2>3. DocAt([at |-> p, file |-> f]) \in Extracts
      BY <2>2 DEF DocsAt
    <2> QED
      BY <2>3, FactTypes, NameTypes, FilesFinite
  <1>3. \A f \in F : Day(f) # None => Distance(Day(f), day) \in Nat
    BY <1>2 DEF Distance, NatOrNone
  <1> HIDE DEF Day
  <1>4. ASSUME F # {}
        PROVE  \E f \in F : \A g \in F \ {f} : Nearer(f, g)
    <2>1. \A a, b, c \in F : <<a, b>> \in R /\ <<b, c>> \in R => <<a, c>> \in R
      BY <1>2, <1>3
    <2>2. \A a \in F : <<a, a>> \notin R
      BY <1>2, <1>3
    <2>3. IsFiniteSet(F)
      BY FilesFinite
    <2>4. \A a, b \in F : a # b /\ <<b, a>> \notin R => Nearer(a, b)
      BY <1>2, <1>3
    <2>5. PICK f \in F : \A g \in F : <<g, f>> \notin R
      <3> HIDE DEF R, F
      <3> QED
        BY <1>4, <2>1, <2>2, <2>3, FiniteLeast
    <2> QED
      BY <2>4, <2>5
  <1> HIDE DEF Nearer
  <1>5. F # {} /\ hint \notin F =>
          (CHOOSE f \in F : \A g \in F \ {f} : Nearer(f, g)) \in F
    BY <1>4
  <1> QED
    BY <1>1, <1>5

LEMMA FoldersFinite == IsFiniteSet(Range(Folders))
  <1>1. Folders \in Surjection(1 .. Len(Folders), Range(Folders))
    BY TreeAssumption DEF Surjection, Range
  <1>2. IsFiniteSet(1 .. Len(Folders))
    BY TreeAssumption, FS_Interval
  <1> QED
    BY <1>1, <1>2, FS_Surjection

\* The route found by the credit leads to an extract in the one folder that
\* fits: the file the link names in EXTRACTOS, else what is nearest there,
\* and only with EXTRACTOS empty or missed the same in the folder itself.
LEMMA RouteIs ==
    ASSUME TreeInv, NEW l, NEW day \in Nat, NEW hint, NEW missed \in BOOLEAN, NEW r,
           r = RouteByFolder(l, day, hint, missed), r # None
    PROVE  /\ r \in Paths /\ Has(r)
           /\ \E u \in Range(Folders) :
                /\ CreditFolders(l) = {u}
                /\ ~missed /\ hint \in FilesAt(Inner(u)) => r = [at |-> Inner(u), file |-> hint]
                /\ (missed \/ FilesAt(Inner(u)) = {}) /\ hint \in FilesAt(Own(u))
                      => r = [at |-> Own(u), file |-> hint]
  <1>1. Cardinality(CreditFolders(l)) = 1
    BY DEF RouteByFolder
  <1>2. CreditFolders(l) \in SUBSET Range(Folders)
    BY DEF CreditFolders
  <1>3. PICK u : CreditFolders(l) = {u}
    BY <1>1, <1>2, FoldersFinite, FS_Subset, FS_Singleton
  <1>4. u \in Range(Folders) /\ (CHOOSE f \in CreditFolders(l) : TRUE) = u
    BY <1>2, <1>3
  <1> DEFINE inner == IF missed THEN None ELSE PickExtract(Inner(u), day, hint)
             own   == PickExtract(Own(u), day, hint)
  <1>5. r = IF inner # None THEN [at |-> Inner(u), file |-> inner]
            ELSE IF own # None THEN [at |-> Own(u), file |-> own]
            ELSE None
    <2> DEFINE v   == CHOOSE f \in CreditFolders(l) : TRUE
               inV == IF missed THEN None ELSE PickExtract(Inner(v), day, hint)
               own_ == PickExtract(Own(v), day, hint)
    <2>1. r = IF inV # None THEN [at |-> Inner(v), file |-> inV]
              ELSE IF own_ # None THEN [at |-> Own(v), file |-> own_]
              ELSE None
      BY <1>1 DEF RouteByFolder
    <2>2. v = u
      BY <1>4
    <2> HIDE DEF v
    <2> QED
      BY <2>1, <2>2
  <1>6. /\ inner # None <=> ~missed /\ FilesAt(Inner(u)) # {}
        /\ inner # None => inner \in FilesAt(Inner(u))
        /\ ~missed /\ hint \in FilesAt(Inner(u)) => inner = hint
    BY PickExtractIs, FilesFinite, ExtractAssumption
  <1>7. /\ own # None => own \in FilesAt(Own(u))
        /\ own # None <=> FilesAt(Own(u)) # {}
        /\ hint \in FilesAt(Own(u)) => own = hint
    BY PickExtractIs, FilesFinite, ExtractAssumption
  <1> HIDE DEF inner, own
  <1>8. Inner(u) \in Places /\ Own(u) \in Places
    BY <1>4 DEF Inner, Own, Places, Units
  <1>9. r \in Paths /\ Has(r)
    <2>1. CASE inner # None
      <3>1. r = [at |-> Inner(u), file |-> inner]
        BY <1>5, <2>1
      <3> QED
        BY <1>6, <1>8, <2>1, <3>1, FilesFinite DEF Paths, Has
    <2>2. CASE inner = None
      <3>1. r = [at |-> Own(u), file |-> own] /\ own # None
        BY <1>5, <2>2
      <3> QED
        BY <1>7, <1>8, <3>1, FilesFinite DEF Paths, Has
    <2> QED
      BY <2>1, <2>2
  <1> QED
    BY <1>3, <1>4, <1>5, <1>6, <1>7, <1>9

-----------------------------------------------------------------------------
(***************************************************************************)
(* Subsequences.                                                           *)
(***************************************************************************)
\* What is picked from a sequence is, in some order, each chosen place once.
LEMMA PickedIs ==
    ASSUME NEW S, NEW s \in Seq(S), NEW I \in SUBSET DOMAIN s
    PROVE  /\ Cardinality(I) \in Nat /\ Cardinality(I) <= Len(s)
           /\ Picked(s, I) \in Seq(S) /\ Len(Picked(s, I)) = Cardinality(I)
           /\ \E r \in [1 .. Cardinality(I) -> I] :
                 /\ \A k \in 1 .. Cardinality(I) : Picked(s, I)[k] = s[r[k]]
                 /\ \A k, m \in 1 .. Cardinality(I) : r[k] = r[m] => k = m
                 /\ \A i \in I : \E k \in 1 .. Cardinality(I) : r[k] = i
  <1> DEFINE n == Cardinality(I)
             Upto(i) == {j \in I : j <= i}
             rank == [i \in I |-> Cardinality(Upto(i))]
             r == [k \in 1 .. n |-> CHOOSE i \in I : Cardinality({j \in I : j <= i}) = k]
  <1>1. I \subseteq Nat /\ DOMAIN s = 1 .. Len(s) /\ Len(s) \in Nat
    OBVIOUS
  <1>2. IsFiniteSet(I) /\ n \in Nat /\ n <= Len(s)
    <2>1. IsFiniteSet(1 .. Len(s)) /\ Cardinality(1 .. Len(s)) = Len(s)
      BY <1>1, FS_Interval
    <2>2. IsFiniteSet(I) /\ Cardinality(I) <= Len(s)
      BY <1>1, <2>1, FS_Subset
    <2> QED
      BY <2>2, FS_CardinalityType
  <1>3. \A i \in I : IsFiniteSet(Upto(i)) /\ Cardinality(Upto(i)) \in 1 .. n
    <2> SUFFICES ASSUME NEW i \in I
                 PROVE  IsFiniteSet(Upto(i)) /\ Cardinality(Upto(i)) \in 1 .. n
      OBVIOUS
    <2>1. Upto(i) \in SUBSET I /\ i \in Upto(i)
      BY <1>1
    <2>2. IsFiniteSet(Upto(i)) /\ Cardinality(Upto(i)) <= n
      BY <1>2, <2>1, FS_Subset
    <2>3. Cardinality(Upto(i)) \in Nat /\ Cardinality(Upto(i)) # 0
      BY <2>1, <2>2, FS_CardinalityType, FS_EmptySet
    <2> QED
      BY <1>2, <2>2, <2>3
  <1>4. \A i, j \in I : i < j => Cardinality(Upto(i)) # Cardinality(Upto(j))
    <2> SUFFICES ASSUME NEW i \in I, NEW j \in I, i < j
                 PROVE  Cardinality(Upto(i)) # Cardinality(Upto(j))
      OBVIOUS
    <2>1. Upto(i) \in SUBSET Upto(j) /\ j \in Upto(j) /\ j \notin Upto(i)
      BY <1>1
    <2> QED
      BY <1>3, <2>1, FS_Subset
  <1>5. /\ rank \in [I -> 1 .. n]
        /\ \A i \in I : rank[i] = Cardinality({j \in I : j <= i})
        /\ \A i, j \in I : rank[i] = rank[j] => i = j
    <2>1. \A i, j \in I : i # j => i < j \/ j < i
      BY <1>1
    <2> QED
      BY <1>3, <1>4, <2>1
  <1> HIDE DEF rank
  <1>6. rank \in Surjection(I, 1 .. n)
    <2>1. rank \in Injection(I, 1 .. n)
      BY <1>5 DEF Injection, IsInjective
    <2>2. IsFiniteSet(1 .. n) /\ Cardinality(1 .. n) = n
      BY <1>2, FS_Interval
    <2> QED
      BY <2>1, <2>2, FS_Injection
  <1>7. \A k \in 1 .. n : \E i \in I : rank[i] = k
    BY <1>6 DEF Surjection
  <1>8. \A k \in 1 .. n : r[k] \in I /\ rank[r[k]] = k
    BY <1>5, <1>7
  <1>9. /\ r \in [1 .. n -> I]
        /\ \A k, m \in 1 .. n : r[k] = r[m] => k = m
        /\ \A i \in I : \E k \in 1 .. n : r[k] = i
    <2>1. r \in [1 .. n -> I]
      BY <1>8
    <2> HIDE DEF r
    <2>2. \A k, m \in 1 .. n : r[k] = r[m] => k = m
      BY <1>8
    <2>3. \A i \in I : rank[i] \in 1 .. n /\ r[rank[i]] = i
      BY <1>5, <1>8
    <2> QED
      BY <2>1, <2>2, <2>3
  <1>10. Picked(s, I) = [k \in 1 .. n |-> s[r[k]]]
    BY DEF Picked
  <1> HIDE DEF r, n
  <1>11. \A k \in 1 .. n : s[r[k]] \in S
    BY <1>1, <1>9
  <1>12. Picked(s, I) \in Seq(S) /\ Len(Picked(s, I)) = n
    BY <1>2, <1>10, <1>11
  <1>13. \A k \in 1 .. n : Picked(s, I)[k] = s[r[k]]
    BY <1>10
  <1> QED
    BY <1>2, <1>9, <1>12, <1>13 DEF n
=============================================================================
