-------------------------- MODULE ReportBookProofs --------------------------
(***************************************************************************)
(* Proofs about the bank's report: that the search over all sets of        *)
(* folders finds the best one, types, where an extract the mail attaches   *)
(* comes from, and that the answers name the extracts that explain the     *)
(* amounts best.                                                           *)
(***************************************************************************)
EXTENDS ReportBook, CreditTreeProofs

BookInv ==
    /\ BookTypeOK
    /\ Len(answers) <= Len(Rows) /\ DOMAIN book \subseteq DOMAIN Rows

-----------------------------------------------------------------------------
(***************************************************************************)
(* Induction, with a set where the library has an operator.                *)
(***************************************************************************)
\* A set of naturals with 0 and every successor up to n has all up to n.
LEMMA UptoInduction ==
    ASSUME NEW n \in Nat, NEW T, 0 \in T,
           \A k \in 0 .. n - 1 : k \in T => k + 1 \in T
    PROVE  \A k \in 0 .. n : k \in T
  <1> DEFINE missing == {k \in 0 .. n : k \notin T}
  <1> SUFFICES ASSUME missing # {} PROVE FALSE
    OBVIOUS
  <1>1. PICK k \in missing : \A m \in missing : k <= m
    <2>1. missing \subseteq Nat
      OBVIOUS
    <2> HIDE DEF missing
    <2> QED
      BY <2>1, SmallestIsLeast
  <1>2. k \in 0 .. n /\ k # 0 /\ k - 1 \in 0 .. n - 1
    OBVIOUS
  <1>3. k - 1 \in T
    BY <1>1, <1>2
  <1> QED
    BY <1>2, <1>3

\* A set of subsets that has {}, and a set when it has all that lack one of its
\* elements, has all subsets of a finite set.
LEMMA SubsetInduction ==
    ASSUME NEW S, IsFiniteSet(S), NEW T, {} \in T,
           \A U \in SUBSET S : U # {} /\ (\A x \in U : U \ {x} \in T) => U \in T
    PROVE  \A U \in SUBSET S : U \in T
  <1> DEFINE sized == {k \in Nat : \A U \in SUBSET S : Cardinality(U) = k => U \in T}
  <1>1. \A U \in SUBSET S : IsFiniteSet(U) /\ Cardinality(U) \in Nat
    BY FS_Subset, FS_CardinalityType
  <1>2. 0 \in sized
    BY <1>1, FS_EmptySet
  <1>3. \A k \in Nat : k \in sized => k + 1 \in sized
    <2> SUFFICES ASSUME NEW k \in Nat, k \in sized,
                        NEW U \in SUBSET S, Cardinality(U) = k + 1
                 PROVE  U \in T
      OBVIOUS
    <2>1. U # {}
      BY <1>1, FS_EmptySet
    <2>2. \A x \in U : U \ {x} \in SUBSET S /\ Cardinality(U \ {x}) = k
      BY <1>1, FS_RemoveElement
    <2> QED
      BY <2>1, <2>2
  <1> HIDE DEF sized
  <1>4. Cardinality(S) \in Nat /\ \A U \in SUBSET S : Cardinality(U) \in 0 .. Cardinality(S)
    BY <1>1, FS_Subset, FS_CardinalityType
  <1>5. \A k \in 0 .. Cardinality(S) : k \in sized
    BY <1>2, <1>3, <1>4, UptoInduction
  <1> QED
    BY <1>4, <1>5 DEF sized

-----------------------------------------------------------------------------
(***************************************************************************)
(* Sums.                                                                   *)
(***************************************************************************)
Pick(s) == CHOOSE x \in s : TRUE

\* g sums f over every set of D.
Sums(g, f, D) ==
    g = [s \in D |-> IF s = {} THEN 0 ELSE f[Pick(s)] + g[s \ {Pick(s)}]]

\* There is such a function, so that CHOOSE finds one.
LEMMA SumsExist ==
    ASSUME NEW f, NEW S, IsFiniteSet(S)
    PROVE  \E g : Sums(g, f, SUBSET S)
  <1> DEFINE upto(k) == {s \in SUBSET S : Cardinality(s) <= k}
             good == {k \in Nat : \E g : Sums(g, f, upto(k))}
  <1>1. \A s \in SUBSET S : IsFiniteSet(s) /\ Cardinality(s) \in Nat
    BY FS_Subset, FS_CardinalityType
  <1>2. 0 \in good
    <2> DEFINE g == [s \in upto(0) |-> 0]
    <2>1. \A s \in upto(0) : s = {}
      BY <1>1, FS_EmptySet
    <2>2. g = [s \in upto(0) |-> IF s = {} THEN 0 ELSE f[Pick(s)] + g[s \ {Pick(s)}]]
      BY <2>1
    <2> QED
      BY <2>2 DEF Sums
  <1>3. ASSUME NEW k \in Nat, k \in good
        PROVE  k + 1 \in good
    <2>1. PICK g : Sums(g, f, upto(k))
      BY <1>3
    <2> DEFINE Next(h) == [s \in upto(k + 1) |->
                            IF s = {} THEN 0 ELSE f[Pick(s)] + h[s \ {Pick(s)}]]
    <2>2. \A s \in upto(k + 1) : s # {} => s \ {Pick(s)} \in upto(k)
      <3> SUFFICES ASSUME NEW s \in upto(k + 1), s # {}
                   PROVE  s \ {Pick(s)} \in upto(k)
        OBVIOUS
      <3>1. Pick(s) \in s
        BY DEF Pick
      <3> QED
        BY <1>1, <3>1, FS_RemoveElement
    <2>3. \A s \in upto(k) : s \in upto(k + 1) /\ Next(g)[s] = g[s]
      <3>1. \A s \in upto(k) : s \in upto(k + 1)
        BY <1>1
      <3>2. \A s \in upto(k) :
              g[s] = IF s = {} THEN 0 ELSE f[Pick(s)] + g[s \ {Pick(s)}]
        BY <2>1 DEF Sums
      <3> HIDE DEF upto
      <3> QED
        BY <3>1, <3>2
    <2> DEFINE h == Next(g)
    <2>4. h = [s \in upto(k + 1) |-> IF s = {} THEN 0 ELSE f[Pick(s)] + h[s \ {Pick(s)}]]
      <3> HIDE DEF upto
      <3> SUFFICES ASSUME NEW s \in upto(k + 1), s # {}
                   PROVE  g[s \ {Pick(s)}] = h[s \ {Pick(s)}]
        OBVIOUS
      <3>1. s \ {Pick(s)} \in upto(k)
        BY <2>2
      <3> HIDE DEF Next
      <3> QED
        BY <2>3, <3>1
    <2> HIDE DEF h
    <2>5. Sums(h, f, upto(k + 1))
      BY <2>4 DEF Sums
    <2>6. \E g2 : Sums(g2, f, upto(k + 1))
      BY <2>5
    <2> HIDE DEF upto
    <2> QED
      BY <2>6
  <1> HIDE DEF good
  <1>4. Cardinality(S) \in Nat /\ upto(Cardinality(S)) = SUBSET S
    BY <1>1, FS_Subset, FS_CardinalityType
  <1>5. Cardinality(S) \in good
    BY <1>2, <1>3, <1>4, UptoInduction
  <1> QED
    BY <1>4, <1>5 DEF good

\* The sum of a finite set takes one element after the other.
LEMMA SumUnfolds ==
    ASSUME NEW f, NEW S, IsFiniteSet(S)
    PROVE  SumFunctionOnSet(f, S) =
             IF S = {} THEN 0 ELSE f[Pick(S)] + SumFunctionOnSet(f, S \ {Pick(S)})
  <1> DEFINE Chosen(D) == CHOOSE g : Sums(g, f, SUBSET D)
  <1>1. \A D : SumFunctionOnSet(f, D) = Chosen(D)[D]
    BY DEF SumFunctionOnSet, FoldFunctionOnSet, MapThenFoldSet, Sums, Pick
  <1>2. \A D \in SUBSET S : IsFiniteSet(D) /\ Sums(Chosen(D), f, SUBSET D)
    BY FS_Subset, SumsExist
  <1> HIDE DEF Chosen
  <1>3. CASE S = {}
    <2>1. Chosen(S)[S] = 0
      BY <1>2, <1>3 DEF Sums
    <2> QED
      BY <1>1, <1>3, <2>1
  <1>4. CASE S # {}
    <2> DEFINE D == S \ {Pick(S)}
    <2>1. D \in SUBSET S
      OBVIOUS
    <2>2. Chosen(S)[D] = Chosen(D)[D]
      <3> DEFINE same == {s \in SUBSET D : Chosen(S)[s] = Chosen(D)[s]}
      <3>1. \A s \in SUBSET D :
              /\ Chosen(S)[s] = IF s = {} THEN 0 ELSE f[Pick(s)] + Chosen(S)[s \ {Pick(s)}]
              /\ Chosen(D)[s] = IF s = {} THEN 0 ELSE f[Pick(s)] + Chosen(D)[s \ {Pick(s)}]
        BY <1>2, <2>1 DEF Sums
      <3>2. {} \in same
        BY <3>1
      <3>3. \A s \in SUBSET D : s # {} /\ (\A x \in s : s \ {x} \in same) => s \in same
        BY <3>1 DEF Pick
      <3>4. IsFiniteSet(D)
        BY <1>2, <2>1
      <3> HIDE DEF same, D
      <3>5. \A s \in SUBSET D : s \in same
        BY <3>2, <3>3, <3>4, SubsetInduction
      <3> QED
        BY <3>5 DEF same
    <2>3. Chosen(S)[S] = f[Pick(S)] + Chosen(S)[D]
      BY <1>2, <1>4 DEF Sums
    <2> QED
      BY <1>1, <1>4, <2>2, <2>3
  <1> QED
    BY <1>3, <1>4

\* The sum of naturals is one, and any element may come first.
LEMMA SumIs ==
    ASSUME NEW f, NEW S, IsFiniteSet(S), \A x \in S : f[x] \in Nat
    PROVE  /\ SumFunctionOnSet(f, {}) = 0
           /\ \A U \in SUBSET S :
                 /\ SumFunctionOnSet(f, U) \in Nat
                 /\ \A x \in U :
                       SumFunctionOnSet(f, U) = f[x] + SumFunctionOnSet(f, U \ {x})
  <1> DEFINE sum(U) == SumFunctionOnSet(f, U)
             natural == {U \in SUBSET S : sum(U) \in Nat}
             free == {U \in SUBSET S : \A x \in U : sum(U) = f[x] + sum(U \ {x})}
  <1>1. \A U \in SUBSET S : sum(U) = IF U = {} THEN 0 ELSE f[Pick(U)] + sum(U \ {Pick(U)})
    BY FS_Subset, SumUnfolds
  <1> HIDE DEF sum
  <1>2. \A U \in SUBSET S : U # {} => Pick(U) \in U
    BY DEF Pick
  <1>3. {} \in SUBSET S /\ sum({}) = 0
    <2>1. {} \in SUBSET S
      OBVIOUS
    <2> QED
      BY <1>1, <2>1
  <1>4. \A U \in SUBSET S : U \in natural
    <2>1. \A U \in SUBSET S : U # {} /\ (\A x \in U : U \ {x} \in natural) => U \in natural
      <3> SUFFICES ASSUME NEW U \in SUBSET S, U # {}, \A x \in U : U \ {x} \in natural
                   PROVE  sum(U) \in Nat
        OBVIOUS
      <3>1. sum(U \ {Pick(U)}) \in Nat /\ f[Pick(U)] \in Nat
        BY <1>2
      <3> QED
        BY <1>1, <3>1
    <2>2. {} \in natural
      BY <1>3
    <2> HIDE DEF natural
    <2> QED
      BY <2>1, <2>2, SubsetInduction
  <1>5. \A U \in SUBSET S : U \in free
    <2>1. ASSUME NEW U \in SUBSET S, U # {}, \A x \in U : U \ {x} \in free, NEW x \in U
          PROVE  sum(U) = f[x] + sum(U \ {x})
      <3> DEFINE p == Pick(U)
                 rest == (U \ {p}) \ {x}
      <3>1. p \in U /\ sum(U) = f[p] + sum(U \ {p})
        BY <1>1, <1>2, <2>1
      <3>2. CASE x = p
        BY <3>1, <3>2
      <3>3. CASE x # p
        <4>1. x \in U \ {p} /\ p \in U \ {x} /\ (U \ {x}) \ {p} = rest
          BY <2>1, <3>1, <3>3
        <4>2. sum(U \ {p}) = f[x] + sum(rest) /\ sum(U \ {x}) = f[p] + sum(rest)
          <5>1. U \ {p} \in free /\ U \ {x} \in free
            BY <2>1, <3>1
          <5> HIDE DEF p, rest
          <5> QED
            BY <4>1, <5>1 DEF rest
        <4>3. sum(rest) \in Nat /\ f[x] \in Nat /\ f[p] \in Nat
          <5>1. rest \in SUBSET S /\ x \in S /\ p \in S
            BY <2>1, <3>1
          <5> QED
            BY <1>4, <5>1
        <4> HIDE DEF p, rest
        <4> QED
          BY <3>1, <4>2, <4>3
      <3> QED
        BY <3>2, <3>3
    <2>2. {} \in free
      OBVIOUS
    <2>3. \A U \in SUBSET S : U # {} /\ (\A x \in U : U \ {x} \in free) => U \in free
      BY <2>1
    <2> HIDE DEF free
    <2> QED
      BY <2>2, <2>3, SubsetInduction
  <1> QED
    BY <1>3, <1>4, <1>5 DEF sum

\* The sum over two sets without a common element.
LEMMA SumOfUnion ==
    ASSUME NEW f, NEW S, IsFiniteSet(S), \A x \in S : f[x] \in Nat,
           NEW A \in SUBSET S, NEW B \in SUBSET S, A \cap B = {}
    PROVE  SumFunctionOnSet(f, A \cup B) = SumFunctionOnSet(f, A) + SumFunctionOnSet(f, B)
  <1> DEFINE sum(U) == SumFunctionOnSet(f, U)
             good == {U \in SUBSET A : sum(U \cup B) = sum(U) + sum(B)}
  <1>1. /\ sum({}) = 0
        /\ \A U \in SUBSET S : sum(U) \in Nat /\ \A x \in U : sum(U) = f[x] + sum(U \ {x})
    BY SumIs
  <1> HIDE DEF sum
  <1>2. {} \in good
    BY <1>1, {} \cup B = B
  <1>3. ASSUME NEW U \in SUBSET A, U # {}, \A x \in U : U \ {x} \in good
        PROVE  U \in good
    <2>1. PICK x : x \in U
      BY <1>3
    <2>2. (U \cup B) \ {x} = (U \ {x}) \cup B
      BY <1>3, <2>1
    <2>3. sum(U \cup B) = f[x] + sum((U \ {x}) \cup B) /\ sum(U) = f[x] + sum(U \ {x})
      <3>1. U \cup B \in SUBSET S /\ U \in SUBSET S /\ x \in U \cup B
        BY <1>3, <2>1
      <3>2. sum(U \cup B) = f[x] + sum((U \cup B) \ {x})
        BY <1>1, <3>1
      <3> QED
        BY <1>1, <2>1, <2>2, <3>1, <3>2
    <2>4. sum((U \ {x}) \cup B) = sum(U \ {x}) + sum(B)
      BY <1>3, <2>1
    <2>5. f[x] \in Nat /\ sum(U \ {x}) \in Nat /\ sum(B) \in Nat
      <3>1. U \ {x} \in SUBSET S /\ x \in S
        BY <1>3, <2>1
      <3> QED
        BY <1>1, <3>1
    <2> QED
      BY <2>3, <2>4, <2>5
  <1>4. IsFiniteSet(A)
    BY FS_Subset
  <1> HIDE DEF good
  <1>5. A \in good
    BY <1>2, <1>3, <1>4, SubsetInduction
  <1> QED
    BY <1>5 DEF good, sum

-----------------------------------------------------------------------------
(***************************************************************************)
(* The masks.                                                              *)
(***************************************************************************)
\* g has the masks of every number of bits up to n.
MaskTable(g, n) == g = [k \in 0 .. n |-> IF k = 0 THEN <<{}>> ELSE WithBit(g[k - 1], k)]

LEMMA MaskTableExists == ASSUME NEW n \in Nat PROVE \E g : MaskTable(g, n)
  <1> DEFINE good == {k \in Nat : \E g : MaskTable(g, k)}
  <1>1. 0 \in good
    <2> DEFINE g == [k \in 0 .. 0 |-> <<{}>>]
    <2>1. g = [k \in 0 .. 0 |-> IF k = 0 THEN <<{}>> ELSE WithBit(g[k - 1], k)]
      OBVIOUS
    <2> QED
      BY <2>1 DEF MaskTable
  <1>2. ASSUME NEW k \in Nat, k \in good
        PROVE  k + 1 \in good
    <2>1. PICK g : MaskTable(g, k)
      BY <1>2
    <2> DEFINE h == [j \in 0 .. k + 1 |-> IF j = 0 THEN <<{}>> ELSE WithBit(g[j - 1], j)]
    <2>2. \A j \in 0 .. k : h[j] = g[j]
      <3>1. \A j \in 0 .. k : g[j] = IF j = 0 THEN <<{}>> ELSE WithBit(g[j - 1], j)
        BY <2>1 DEF MaskTable
      <3>2. \A j \in 0 .. k : j \in 0 .. k + 1
        OBVIOUS
      <3> QED
        BY <3>1, <3>2
    <2>3. h = [j \in 0 .. k + 1 |-> IF j = 0 THEN <<{}>> ELSE WithBit(h[j - 1], j)]
      <3> SUFFICES ASSUME NEW j \in 0 .. k + 1, j # 0
                   PROVE  g[j - 1] = h[j - 1]
        OBVIOUS
      <3>1. j - 1 \in 0 .. k
        OBVIOUS
      <3> HIDE DEF h
      <3> QED
        BY <2>2, <3>1
    <2> HIDE DEF h
    <2>4. MaskTable(h, k + 1)
      BY <2>3 DEF MaskTable
    <2> QED
      BY <2>4
  <1> HIDE DEF good
  <1>3. n \in good
    BY <1>1, <1>2, UptoInduction
  <1> QED
    BY <1>3 DEF good

\* What the masks are in terms of those with one bit less.
MasksOf(s, n) ==
    /\ s \in Seq(SUBSET (1 .. n)) /\ Len(s) >= 1
    /\ s[1] = {}
    /\ \A m \in 2 .. Len(s) : s[m] # {}
    /\ \A U \in SUBSET (1 .. n) : \E m \in 1 .. Len(s) : s[m] = U

LEMMA SeqGrows ==
    ASSUME NEW A, NEW D, A \subseteq D, NEW s \in Seq(A)
    PROVE  s \in Seq(D)
  OBVIOUS

LEMMA ConcatIs ==
    ASSUME NEW D, NEW s \in Seq(D), NEW t \in Seq(D)
    PROVE  /\ s \o t \in Seq(D) /\ Len(s \o t) = Len(s) + Len(t)
           /\ \A m \in 1 .. Len(s) : (s \o t)[m] = s[m]
           /\ \A m \in 1 .. Len(t) : (s \o t)[Len(s) + m] = t[m]
  OBVIOUS

LEMMA WithBitIs ==
    ASSUME NEW k \in Nat, NEW s, MasksOf(s, k)
    PROVE  MasksOf(WithBit(s, k + 1), k + 1)
  <1> DEFINE t == [m \in DOMAIN s |-> s[m] \cup {k + 1}]
             r == WithBit(s, k + 1)
             D == SUBSET (1 .. k + 1)
  <1>1. s \in Seq(D) /\ t \in Seq(D) /\ Len(t) = Len(s) /\ Len(s) \in Nat
    <2>1. s \in Seq(SUBSET (1 .. k)) /\ DOMAIN s = 1 .. Len(s) /\ Len(s) \in Nat
      BY DEF MasksOf
    <2>2. \A m \in DOMAIN s : s[m] \in D /\ s[m] \cup {k + 1} \in D
      BY <2>1
    <2>3. 1 .. k \subseteq 1 .. k + 1
      OBVIOUS
    <2> HIDE DEF D
    <2>4. s \in Seq(D)
      <3>1. SUBSET (1 .. k) \subseteq D
        BY <2>3 DEF D
      <3> QED
        BY <2>1, <3>1, SeqGrows
    <2>5. t \in Seq(D) /\ Len(t) = Len(s)
      BY <2>1, <2>2
    <2> QED
      BY <2>1, <2>4, <2>5
  <1>2. r = s \o t
    BY DEF WithBit
  <1> HIDE DEF r, D
  <1>3. /\ r \in Seq(D) /\ Len(r) = Len(s) + Len(s)
        /\ \A m \in 1 .. Len(s) : r[m] = s[m]
        /\ \A m \in 1 .. Len(s) : r[Len(s) + m] = s[m] \cup {k + 1}
    <2>1. \A m \in 1 .. Len(s) : t[m] = s[m] \cup {k + 1}
      BY <1>1
    <2> HIDE DEF t
    <2>2. /\ r \in Seq(D) /\ Len(r) = Len(s) + Len(t)
          /\ \A m \in 1 .. Len(s) : r[m] = s[m]
          /\ \A m \in 1 .. Len(t) : r[Len(s) + m] = t[m]
      <3>1. s \in Seq(D) /\ t \in Seq(D)
        BY <1>1
      <3>2. /\ s \o t \in Seq(D) /\ Len(s \o t) = Len(s) + Len(t)
            /\ \A m \in 1 .. Len(s) : (s \o t)[m] = s[m]
            /\ \A m \in 1 .. Len(t) : (s \o t)[Len(s) + m] = t[m]
        BY <3>1, ConcatIs
      <3> QED
        BY <1>2, <3>2
    <2>3. Len(t) = Len(s)
      BY <1>1
    <2>4. \A m \in 1 .. Len(s) : r[Len(s) + m] = t[m]
      BY <2>2, <2>3
    <2> QED
      BY <2>1, <2>2, <2>3, <2>4
  <1>4. Len(r) >= 1 /\ r[1] = {}
    BY <1>1, <1>3 DEF MasksOf
  <1>5. \A m \in 2 .. Len(r) : r[m] # {}
    <2> SUFFICES ASSUME NEW m \in 2 .. Len(r) PROVE r[m] # {}
      OBVIOUS
    <2>1. CASE m <= Len(s)
      BY <1>1, <1>3, <2>1 DEF MasksOf
    <2>2. CASE m > Len(s)
      <3>1. m - Len(s) \in 1 .. Len(s) /\ m = Len(s) + (m - Len(s))
        BY <1>1, <1>3, <2>2
      <3> QED
        BY <1>3, <3>1
    <2> QED
      BY <1>1, <2>1, <2>2
  <1>6. ASSUME NEW U \in SUBSET (1 .. k + 1)
        PROVE  \E m \in 1 .. Len(r) : r[m] = U
    <2>1. U \ {k + 1} \in SUBSET (1 .. k)
      OBVIOUS
    <2>2. PICK m \in 1 .. Len(s) : s[m] = U \ {k + 1}
      BY <2>1 DEF MasksOf
    <2>3. m \in 1 .. Len(r) /\ Len(s) + m \in 1 .. Len(r)
      BY <1>1, <1>3
    <2>4. CASE k + 1 \in U
      <3>1. U = s[m] \cup {k + 1}
        BY <2>2, <2>4
      <3> QED
        BY <1>3, <2>3, <3>1
    <2>5. CASE k + 1 \notin U
      <3>1. U = s[m]
        BY <2>2, <2>5
      <3> QED
        BY <1>3, <2>3, <3>1
    <2> QED
      BY <2>4, <2>5
  <1> QED
    BY <1>3, <1>4, <1>5, <1>6 DEF MasksOf, r, D

\* The masks of n bits are the subsets of 1 .. n, the empty one first and nowhere
\* else.
LEMMA MasksAre == ASSUME NEW n \in Nat PROVE MasksOf(Masks(n), n)
  <1> DEFINE g == CHOOSE t : MaskTable(t, n)
             good == {k \in 0 .. n : MasksOf(g[k], k)}
  <1>1. Masks(n) = g[n]
    BY DEF Masks, MaskTable
  <1>2. MaskTable(g, n)
    BY MaskTableExists
  <1> HIDE DEF g
  <1>3. \A k \in 0 .. n : g[k] = IF k = 0 THEN <<{}>> ELSE WithBit(g[k - 1], k)
    BY <1>2 DEF MaskTable
  <1>4. 0 \in good
    <2>1. g[0] = <<{}>>
      BY <1>3
    <2>2. MasksOf(<<{}>>, 0)
      <3>1. SUBSET (1 .. 0) = {{}}
        OBVIOUS
      <3> DEFINE one == <<{}>>
      <3>2. one \in Seq({{}}) /\ Len(one) = 1 /\ one[1] = {}
        OBVIOUS
      <3> HIDE DEF one
      <3>3. one \in Seq(SUBSET (1 .. 0))
        BY <3>1, <3>2
      <3>4. \A U \in SUBSET (1 .. 0) : U = one[1]
        BY <3>1, <3>2
      <3>5. \A U \in SUBSET (1 .. 0) : \E m \in 1 .. Len(one) : one[m] = U
        <4>1. 1 \in 1 .. Len(one)
          BY <3>2
        <4> QED
          BY <3>4, <4>1
      <3>6. \A m \in 2 .. Len(one) : one[m] # {}
        BY <3>2
      <3>7. MasksOf(one, 0)
        BY <3>2, <3>3, <3>5, <3>6 DEF MasksOf
      <3> QED
        BY <3>7 DEF one
    <2> QED
      BY <2>1, <2>2
  <1>5. ASSUME NEW k \in 0 .. n - 1, k \in good
        PROVE  k + 1 \in good
    <2>1. k + 1 \in 0 .. n /\ k + 1 # 0 /\ (k + 1) - 1 = k /\ k \in Nat
      OBVIOUS
    <2>2. g[k + 1] = WithBit(g[k], k + 1)
      BY <1>3, <2>1
    <2> QED
      BY <1>5, <2>1, <2>2, WithBitIs
  <1> HIDE DEF good
  <1>6. n \in good
    BY <1>4, <1>5, UptoInduction
  <1> QED
    BY <1>1, <1>6 DEF good

-----------------------------------------------------------------------------
(***************************************************************************)
(* The search.                                                             *)
(***************************************************************************)
LEMMA DistanceType == \A a, b \in Nat : Distance(a, b) \in Nat
  BY DEF Distance

Closer(U, V, sums, target) ==
    \/ Off(sums, U, target) < Off(sums, V, target)
    \/ (Off(sums, U, target) = Off(sums, V, target) /\ Cardinality(U) <= Cardinality(V))

\* What the search keeps of the sets it has seen.
BestOf(best, seen, sums, target) ==
    /\ seen = {} => best.any = {}
    /\ seen # {} => best.any \in seen /\ \A U \in seen : Closer(best.any, U, sums, target)
    /\ best.exact = {} => \A U \in seen : Off(sums, U, target) > Tolerance
    /\ best.exact # {} =>
          /\ best.exact \in seen /\ Off(sums, best.exact, target) <= Tolerance
          /\ \A U \in seen : Off(sums, U, target) <= Tolerance
                             => Cardinality(best.exact) <= Cardinality(U)

LEMMA ImproveIs ==
    ASSUME NEW sums, NEW target, NEW all,
           \A U \in all : /\ U # {} /\ Off(sums, U, target) \in Nat
                          /\ Cardinality(U) \in Nat,
           NEW seen \in SUBSET all, NEW S \in all, NEW best, BestOf(best, seen, sums, target)
    PROVE  BestOf(Improve(best, S, sums, target), seen \cup {S}, sums, target)
  <1> DEFINE off(U) == Off(sums, U, target)
             size(U) == Cardinality(U)
             next == Improve(best, S, sums, target)
             near == \/ best.any = {} \/ off(S) < off(best.any)
                     \/ (off(S) = off(best.any) /\ size(S) < size(best.any))
             hit  == off(S) <= Tolerance
                     /\ (best.exact = {} \/ size(S) < size(best.exact))
  <1>1. /\ next.any = IF near THEN S ELSE best.any
        /\ next.exact = IF hit THEN S ELSE best.exact
    BY DEF Improve
  <1>2. \A U \in all : U # {} /\ off(U) \in Nat /\ size(U) \in Nat
    OBVIOUS
  <1>3. Tolerance \in Nat
    BY ReportAssumption
  <1>4. /\ seen = {} => best.any = {}
        /\ seen # {} => best.any \in seen
        /\ \A U \in seen : off(best.any) < off(U)
                           \/ (off(best.any) = off(U) /\ size(best.any) <= size(U))
        /\ best.exact = {} => \A U \in seen : off(U) > Tolerance
        /\ best.exact # {} =>
              /\ best.exact \in seen /\ off(best.exact) <= Tolerance
              /\ \A U \in seen : off(U) <= Tolerance => size(best.exact) <= size(U)
    <2>1. \A U \in seen : Closer(best.any, U, sums, target)
      BY DEF BestOf
    <2>2. \A U \in seen : off(best.any) < off(U)
                           \/ (off(best.any) = off(U) /\ size(best.any) <= size(U))
      BY <2>1 DEF Closer
    <2> QED
      BY <2>2 DEF BestOf
  <1> HIDE DEF off, size, next
  <1>5. /\ next.any \in seen \cup {S}
        /\ \A U \in seen \cup {S} :
              off(next.any) < off(U) \/ (off(next.any) = off(U) /\ size(next.any) <= size(U))
    <2>1. CASE near
      <3>1. next.any = S
        BY <1>1, <2>1
      <3>2. ASSUME NEW U \in seen
            PROVE  off(S) < off(U) \/ (off(S) = off(U) /\ size(S) <= size(U))
        <4>1. best.any \in seen /\ best.any # {}
          BY <1>2, <1>4
        <4>2. /\ off(S) \in Nat /\ off(U) \in Nat /\ off(best.any) \in Nat
              /\ size(S) \in Nat /\ size(U) \in Nat /\ size(best.any) \in Nat
          BY <1>2, <4>1
        <4>3. off(best.any) < off(U) \/ (off(best.any) = off(U) /\ size(best.any) <= size(U))
          BY <1>4
        <4> QED
          BY <2>1, <4>1, <4>2, <4>3
      <3> QED
        BY <1>2, <3>1, <3>2
    <2>2. CASE ~near
      <3>1. next.any = best.any /\ best.any \in seen
        BY <1>1, <1>4, <2>2
      <3>2. off(best.any) < off(S) \/ (off(best.any) = off(S) /\ size(best.any) <= size(S))
        <4>1. /\ off(S) \in Nat /\ off(best.any) \in Nat
              /\ size(S) \in Nat /\ size(best.any) \in Nat
          BY <1>2, <3>1
        <4> QED
          BY <2>2, <4>1
      <3> QED
        BY <1>4, <3>1, <3>2
    <2> QED
      BY <2>1, <2>2
  <1>6. next.exact = {} => \A U \in seen \cup {S} : off(U) > Tolerance
    BY <1>1, <1>2, <1>3, <1>4
  <1>7. next.exact # {} =>
          /\ next.exact \in seen \cup {S} /\ off(next.exact) <= Tolerance
          /\ \A U \in seen \cup {S} : off(U) <= Tolerance => size(next.exact) <= size(U)
    <2>1. CASE hit
      <3>1. next.exact = S
        BY <1>1, <2>1
      <3>2. \A U \in seen : off(U) <= Tolerance => size(S) <= size(U)
        BY <1>2, <1>3, <1>4, <2>1
      <3> QED
        BY <1>2, <2>1, <3>1, <3>2
    <2>2. CASE ~hit
      <3>1. next.exact = best.exact
        BY <1>1, <2>2
      <3>2. ASSUME best.exact # {}, off(S) <= Tolerance
            PROVE  size(best.exact) <= size(S)
        BY <1>2, <1>4, <2>2, <3>2
      <3> QED
        BY <1>4, <3>1, <3>2
    <2> QED
      BY <2>1, <2>2
  <1>8. /\ \A U \in seen \cup {S} : Closer(next.any, U, sums, target)
        /\ next.exact = {} => \A U \in seen \cup {S} : Off(sums, U, target) > Tolerance
    BY <1>5, <1>6 DEF off, size, Closer
  <1>9. next.exact # {} =>
          /\ next.exact \in seen \cup {S} /\ Off(sums, next.exact, target) <= Tolerance
          /\ \A U \in seen \cup {S} : Off(sums, U, target) <= Tolerance
                                      => Cardinality(next.exact) <= Cardinality(U)
    BY <1>7 DEF off, size
  <1>10. BestOf(next, seen \cup {S}, sums, target)
    BY <1>5, <1>8, <1>9 DEF BestOf
  <1> QED
    BY <1>10 DEF next

\* g has what the search keeps after each of the first n masks.
BestTable(g, n, masks, sums, target) ==
    g = [k \in 1 .. n |-> IF k = 1 THEN [any |-> {}, exact |-> {}]
                          ELSE Improve(g[k - 1], masks[k], sums, target)]

LEMMA BestTableExists ==
    ASSUME NEW masks, NEW sums, NEW target, NEW n \in Nat
    PROVE  \E g : BestTable(g, n, masks, sums, target)
  <1> DEFINE start == [any |-> {}, exact |-> {}]
             Step(best, k) == Improve(best, masks[k], sums, target)
             Table(g, k) == g = [j \in 1 .. k |-> IF j = 1 THEN start ELSE Step(g[j - 1], j)]
             good == {k \in Nat : \E g : Table(g, k)}
  <1>1. \A g : BestTable(g, n, masks, sums, target) <=> Table(g, n)
    BY DEF BestTable
  <1> HIDE DEF start, Step
  <1>2. 0 \in good
    <2> DEFINE g == [j \in 1 .. 0 |-> start]
    <2>1. Table(g, 0)
      OBVIOUS
    <2> HIDE DEF Table, g
    <2> QED
      BY <2>1
  <1>3. ASSUME NEW k \in Nat, k \in good
        PROVE  k + 1 \in good
    <2>1. PICK g : Table(g, k)
      BY <1>3
    <2> DEFINE h == [j \in 1 .. k + 1 |-> IF j = 1 THEN start ELSE Step(g[j - 1], j)]
    <2>2. \A j \in 1 .. k : h[j] = g[j]
      <3>1. \A j \in 1 .. k : g[j] = IF j = 1 THEN start ELSE Step(g[j - 1], j)
        BY <2>1
      <3>2. \A j \in 1 .. k : j \in 1 .. k + 1
        OBVIOUS
      <3> QED
        BY <3>1, <3>2
    <2>3. Table(h, k + 1)
      <3> SUFFICES ASSUME NEW j \in 1 .. k + 1, j # 1
                   PROVE  g[j - 1] = h[j - 1]
        OBVIOUS
      <3>1. j - 1 \in 1 .. k
        OBVIOUS
      <3> HIDE DEF h
      <3> QED
        BY <2>2, <3>1
    <2> HIDE DEF Table, h
    <2> QED
      BY <2>3
  <1> HIDE DEF good
  <1>4. n \in good
    BY <1>2, <1>3, UptoInduction
  <1>5. PICK g : Table(g, n)
    BY <1>4 DEF good
  <1> HIDE DEF Table
  <1> QED
    BY <1>1, <1>5

LEMMA MaskLen == ASSUME NEW n \in Nat PROVE Len(Masks(n)) \in Nat /\ Len(Masks(n)) >= 1
  <1> DEFINE masks == Masks(n)
  <1>1. MasksOf(masks, n)
    BY MasksAre
  <1> HIDE DEF masks
  <1>2. Len(masks) \in Nat /\ Len(masks) >= 1
    BY <1>1 DEF MasksOf
  <1> QED
    BY <1>2 DEF masks

LEMMA MaskSets ==
    ASSUME NEW n \in Nat
    PROVE  {Masks(n)[k] : k \in 2 .. Len(Masks(n))} = {U \in SUBSET (1 .. n) : U # {}}
  <1> DEFINE masks == Masks(n)
             all   == {U \in SUBSET (1 .. n) : U # {}}
  <1>1. MasksOf(masks, n) /\ Len(masks) \in Nat
    BY MasksAre, MaskLen
  <1> HIDE DEF masks
  <1>2. ASSUME NEW k \in 2 .. Len(masks)
        PROVE  masks[k] \in all
    <2>1. k \in 1 .. Len(masks) /\ masks \in Seq(SUBSET (1 .. n)) /\ masks[k] # {}
      BY <1>1 DEF MasksOf
    <2>2. masks[k] \in SUBSET (1 .. n)
      BY <2>1
    <2> QED
      BY <2>1, <2>2
  <1>3. ASSUME NEW U \in all
        PROVE  \E k \in 2 .. Len(masks) : masks[k] = U
    <2>1. PICK k \in 1 .. Len(masks) : masks[k] = U
      BY <1>1 DEF MasksOf
    <2>2. k # 1
      <3>1. masks[1] = {} /\ U # {}
        BY <1>1 DEF MasksOf
      <3> QED
        BY <2>1, <3>1
    <2>3. k \in 2 .. Len(masks)
      BY <1>1, <2>2
    <2> QED
      BY <2>1, <2>3
  <1> HIDE DEF all
  <1>4. {masks[k] : k \in 2 .. Len(masks)} = all
    BY <1>2, <1>3
  <1> QED
    BY <1>4 DEF masks, all

LEMMA OffType ==
    ASSUME NEW sums \in Seq(Nat), NEW target \in Nat, NEW U \in SUBSET (1 .. Len(sums))
    PROVE  Off(sums, U, target) \in Nat /\ Cardinality(U) \in Nat
  <1>1. Len(sums) \in Nat /\ \A i \in 1 .. Len(sums) : sums[i] \in Nat
    OBVIOUS
  <1>2. IsFiniteSet(1 .. Len(sums))
    BY <1>1, FS_Interval
  <1>3. SumFunctionOnSet(sums, U) \in Nat
    BY <1>1, <1>2, SumIs
  <1>4. Cardinality(U) \in Nat
    BY <1>2, FS_Subset, FS_CardinalityType
  <1> QED
    BY <1>3, <1>4, DistanceType DEF Off

\* After m masks the search keeps the best of them.
LEMMA SearchIs ==
    ASSUME NEW sums \in Seq(Nat), NEW target \in Nat, NEW m \in 1 .. Len(Masks(Len(sums)))
    PROVE  LET masks == Masks(Len(sums))
           IN BestOf(SearchUpto(m, sums, target), {masks[k] : k \in 2 .. m}, sums, target)
  <1> DEFINE n == Len(sums)
             masks == Masks(n)
             len == Len(masks)
             all == {U \in SUBSET (1 .. n) : U # {}}
             seen(k) == {masks[j] : j \in 2 .. k}
             g == CHOOSE t : BestTable(t, len, masks, sums, target)
             good == {k \in 0 .. len - 1 : BestOf(g[k + 1], seen(k + 1), sums, target)}
  <1>1. n \in Nat /\ len \in Nat /\ len >= 1
    BY MaskLen
  <1>2. \A k \in 2 .. len : masks[k] \in all
    <2>1. {masks[k] : k \in 2 .. len} = all
      BY <1>1, MaskSets
    <2> HIDE DEF masks, len, all
    <2> QED
      BY <2>1
  <1>3. \A U \in all : U # {} /\ Off(sums, U, target) \in Nat /\ Cardinality(U) \in Nat
    <2> SUFFICES ASSUME NEW U \in SUBSET (1 .. Len(sums))
                 PROVE  Off(sums, U, target) \in Nat /\ Cardinality(U) \in Nat
      OBVIOUS
    <2> QED
      BY OffType
  <1>4. SearchUpto(m, sums, target) = g[m]
    BY DEF SearchUpto, BestTable
  <1>5. BestTable(g, len, masks, sums, target)
    <2>1. \E t : BestTable(t, len, masks, sums, target)
      BY <1>1, BestTableExists
    <2> HIDE DEF len, masks
    <2> QED
      BY <2>1
  <1> HIDE DEF n, masks, len, all, g
  <1>6. \A k \in 1 .. len : g[k] = IF k = 1 THEN [any |-> {}, exact |-> {}]
                                   ELSE Improve(g[k - 1], masks[k], sums, target)
    BY <1>5 DEF BestTable
  <1>7. 0 \in good
    <2>1. seen(1) = {} /\ g[1] = [any |-> {}, exact |-> {}] /\ 0 \in 0 .. len - 1
      BY <1>1, <1>6
    <2> QED
      BY <2>1 DEF BestOf
  <1>8. ASSUME NEW k \in 0 .. (len - 1) - 1, k \in good
        PROVE  k + 1 \in good
    <2>1. k + 2 \in 2 .. len /\ k + 1 \in 0 .. len - 1 /\ (k + 1) + 1 = k + 2
      BY <1>1
    <2>2. g[k + 2] = Improve(g[k + 1], masks[k + 2], sums, target)
      BY <1>1, <1>6, <2>1
    <2>3. seen(k + 2) = seen(k + 1) \cup {masks[k + 2]} /\ seen(k + 1) \in SUBSET all
      BY <1>1, <1>2
    <2>4. masks[k + 2] \in all
      BY <1>2, <2>1
    <2>5. BestOf(g[k + 1], seen(k + 1), sums, target)
      BY <1>8
    <2> HIDE DEF seen
    <2>6. BestOf(g[k + 2], seen(k + 2), sums, target)
      <3> DEFINE S == masks[k + 2]
                 old == seen(k + 1)
                 best == g[k + 1]
      <3> HIDE DEF S, old, best
      <3>1. S \in all /\ old \in SUBSET all /\ BestOf(best, old, sums, target)
        BY <2>3, <2>4, <2>5 DEF S, old, best
      <3>2. BestOf(Improve(best, S, sums, target), old \cup {S}, sums, target)
        BY <1>3, <3>1, ImproveIs
      <3> QED
        BY <2>2, <2>3, <3>2 DEF S, old, best
    <2> QED
      BY <2>1, <2>6
  <1>9. m - 1 \in 0 .. len - 1 /\ (m - 1) + 1 = m
    BY <1>1 DEF len, masks, n
  <1> HIDE DEF good
  <1>10. m - 1 \in good
    <2> DEFINE top == len - 1
    <2>1. top \in Nat /\ \A k \in 0 .. top - 1 : k \in good => k + 1 \in good
      BY <1>1, <1>8
    <2> HIDE DEF top
    <2>2. \A k \in 0 .. top : k \in good
      BY <1>7, <2>1, UptoInduction
    <2> QED
      BY <1>9, <2>2 DEF top
  <1> HIDE DEF seen
  <1>11. BestOf(g[m], seen(m), sums, target)
    BY <1>9, <1>10 DEF good
  <1> QED
    BY <1>4, <1>11 DEF seen, masks, n

\* The result is one of the folder sets with the amount within the tolerance that
\* has the fewest folders, or the nearest one when there is none.
NonEmpty(n) == {U \in SUBSET (1 .. n) : U # {}}

BestSet(S, sums, target) ==
    LET all   == NonEmpty(Len(sums))
        exact == {U \in all : Off(sums, U, target) <= Tolerance}
    IN /\ S \in all
       /\ exact # {} => S \in exact /\ \A U \in exact : Cardinality(S) <= Cardinality(U)
       /\ exact = {} => \A U \in all : Closer(S, U, sums, target)

LEMMA BestSubsetMatchIs ==
    ASSUME NEW sums \in Seq(Nat), sums # <<>>, NEW target \in Nat
    PROVE  BestSet(BestSubsetMatch(sums, target), sums, target)
  <1> DEFINE n     == Len(sums)
             masks == Masks(n)
             len   == Len(masks)
             all   == {U \in SUBSET (1 .. n) : U # {}}
             exact == {U \in all : Off(sums, U, target) <= Tolerance}
             S     == BestSubsetMatch(sums, target)
             best  == SearchUpto(len, sums, target)
  <1>1. n \in Nat /\ n >= 1 /\ len \in Nat /\ len >= 1
    <2>1. n \in Nat /\ n # 0
      OBVIOUS
    <2> QED
      BY <2>1, MaskLen
  <1>2. {masks[k] : k \in 2 .. len} = all
    BY <1>1, MaskSets
  <1>3. S = IF best.exact # {} THEN best.exact ELSE best.any
    BY DEF BestSubsetMatch
  <1>4. BestOf(best, all, sums, target)
    <2>1. len \in 1 .. len
      BY <1>1
    <2>2. BestOf(best, {masks[k] : k \in 2 .. len}, sums, target)
      BY <2>1, SearchIs
    <2> QED
      BY <1>2, <2>2
  <1>5. {1} \in all
    <2>1. 1 \in 1 .. n
      BY <1>1
    <2> QED
      BY <2>1
  <1>6. \A U \in all : Off(sums, U, target) \in Nat
    <2> SUFFICES ASSUME NEW U \in SUBSET (1 .. Len(sums))
                 PROVE  Off(sums, U, target) \in Nat
      OBVIOUS
    <2> QED
      BY OffType
  <1>7. Tolerance \in Nat
    BY ReportAssumption
  <1> HIDE DEF S, best, all, masks, len, n
  <1>8. CASE best.exact # {}
    <2>1. S \in exact /\ \A U \in exact : Cardinality(S) <= Cardinality(U)
      BY <1>3, <1>4, <1>8 DEF BestOf
    <2> QED
      BY <2>1 DEF BestSet, NonEmpty, S, all, n
  <1>9. CASE best.exact = {}
    <2>1. exact = {}
      BY <1>4, <1>6, <1>7, <1>9 DEF BestOf
    <2>2. S \in all /\ \A U \in all : Closer(S, U, sums, target)
      BY <1>3, <1>4, <1>5, <1>9 DEF BestOf
    <2> QED
      BY <2>1, <2>2 DEF BestSet, NonEmpty, S, all, n
  <1> QED
    BY <1>8, <1>9

-----------------------------------------------------------------------------
(***************************************************************************)
(* Types.                                                                  *)
(***************************************************************************)
LEMMA RowTypes ==
    /\ Rows \in Seq([day : Nat, amount : Nat]) /\ Len(Rows) \in Nat
    /\ \A i \in DOMAIN Rows :
          /\ Rows[i] \in [day : Nat, amount : Nat] /\ Rows[i].day \in Days
          /\ Rows[i].day \in Nat /\ Rows[i].amount \in Nat
  <1> DEFINE Row == [day : Nat, amount : Nat]
  <1>1. Rows \in Seq(Row)
    BY ReportAssumption
  <1>2. \A r \in Row : r.day \in Nat /\ r.amount \in Nat
    OBVIOUS
  <1> HIDE DEF Row
  <1>3. Len(Rows) \in Nat /\ \A i \in DOMAIN Rows : Rows[i] \in Row
    BY <1>1
  <1>4. \A i \in DOMAIN Rows : Rows[i].day \in Nat /\ Rows[i].amount \in Nat
    BY <1>2, <1>3
  <1>5. \A i \in DOMAIN Rows : Rows[i].day \in Days
    BY DEF Days
  <1> QED
    BY <1>1, <1>3, <1>4, <1>5 DEF Row

\* Every place the report looks at, one for each folder and one more.
LEMMA ScanOrderIs ==
    /\ ScanOrder \in Seq(Places) /\ Len(ScanOrder) \in Nat
    /\ \A i \in 1 .. Len(ScanOrder) : ScanOrder[i] \in Places
  <1> DEFINE own == [i \in DOMAIN Folders |-> Own(Folders[i])]
             last == <<Inner(Client)>>
  <1>1. own \in Seq(Places)
    <2>1. Folders \in Seq(Range(Folders)) /\ DOMAIN Folders = 1 .. Len(Folders)
      BY TreeAssumption
    <2>2. \A i \in DOMAIN Folders : Own(Folders[i]) \in Places
      BY <2>1 DEF Own, Places, Units
    <2> QED
      BY <2>1, <2>2
  <1>2. last \in Seq(Places)
    BY DEF Inner, Places, Units
  <1>3. ScanOrder = own \o last
    BY DEF ScanOrder
  <1> HIDE DEF own, last
  <1> QED
    BY <1>1, <1>2, <1>3

LEMMA CandidatesAre ==
    ASSUME NEW p \in Places, NEW d \in Candidates(p)
    PROVE  /\ d \in Listed /\ d[1] = p /\ tree[d[2]] = p
           /\ FileDate(d[2]) \in Nat
  <1>1. PICK e \in DocsAt(p) : d = <<p, e>> /\ FileDate(e) # None
    BY DEF Candidates
  <1>2. e \in Extracts /\ tree[e] = p
    BY <1>1 DEF DocsAt
  <1>3. FileDate(e) \in NatOrNone
    BY <1>2, FactTypes, NameTypes DEF FileDate
  <1> QED
    BY <1>1, <1>2, <1>3 DEF Listed, NatOrNone

LEMMA FailType ==
    \A fault \in Faults, lost \in SUBSET Listed :
       /\ Fail(fault, lost) \in Combination
       /\ Fail(fault, lost).docs = {} /\ Fail(fault, lost).fault = fault
       /\ Fail(fault, lost).lost = lost
  BY DEF Fail, Combination

\* A combination has extracts of one date among those listed, and none that
\* was lost.
LEMMA MatchIs ==
    ASSUME NEW row, NEW listed \in SUBSET Listed, NEW lost \in SUBSET Listed
    PROVE  /\ Match(row, listed, lost) \in Combination
           /\ Match(row, listed, lost).docs \subseteq listed
           /\ \A d \in Match(row, listed, lost).docs :
                 /\ Match(row, listed, lost).fault = "none"
                 /\ Match(row, listed, lost).early = (row.day < FileDate(d[2]))
  <1> DEFINE dates  == {FileDate(d[2]) : d \in listed}
             anchor == Anchor(dates, row.day)
             OfFolder(p) == {d \in listed \ lost : /\ d[1] = p /\ FileDate(d[2]) = anchor
                                                   /\ Amount(d[2]) # None}
             folders == Picked(ScanOrder, {i \in DOMAIN ScanOrder : OfFolder(ScanOrder[i]) # {}})
             best    == BestSubsetMatch([i \in DOMAIN folders |-> Total(OfFolder(folders[i]))],
                                        row.amount)
             docs    == UNION {OfFolder(folders[i]) : i \in best}
             m       == Match(row, listed, lost)
             none    == Fail("no extract", lost)
             hit     == [fault |-> "none", docs |-> docs, early |-> row.day < anchor,
                         lost |-> lost]
  <1>1. m = IF dates = {} \/ folders = <<>> THEN none ELSE hit
    BY DEF Match
  <1>2. \A p : \A d \in OfFolder(p) : d \in listed /\ FileDate(d[2]) = anchor
    OBVIOUS
  <1> HIDE DEF anchor, OfFolder, folders, best, dates
  <1>3. \A d \in docs : d \in listed /\ FileDate(d[2]) = anchor
    BY <1>2
  <1> HIDE DEF docs
  <1>4. (row.day < anchor) \in BOOLEAN
    OBVIOUS
  <1>5. none \in Combination /\ none.docs = {} /\ none.lost = lost
    <2>1. "no extract" \in Faults
      BY DEF Faults
    <2> QED
      BY <2>1, FailType
  <1>6. /\ hit \in Combination /\ hit.docs = docs /\ hit.lost = lost /\ hit.fault = "none"
        /\ hit.early = (row.day < anchor)
    BY <1>3, <1>4 DEF Combination, Faults
  <1> HIDE DEF none, hit, m
  <1>7. /\ m \in Combination /\ m.docs \subseteq listed
        /\ \A d \in m.docs : m.fault = "none" /\ m.early = (row.day < FileDate(d[2]))
    <2>1. CASE m = none
      BY <1>5, <2>1
    <2>2. CASE m = hit
      BY <1>3, <1>6, <2>2
    <2> QED
      BY <1>1, <2>1, <2>2
  <1> QED
    BY <1>7 DEF m

LEMMA MatchLost ==
    ASSUME NEW row, NEW listed, NEW lost \in SUBSET Listed
    PROVE  Match(row, listed, lost).lost = lost
  <1> DEFINE dates  == {FileDate(d[2]) : d \in listed}
             anchor == Anchor(dates, row.day)
             OfFolder(p) == {d \in listed \ lost : /\ d[1] = p /\ FileDate(d[2]) = anchor
                                                   /\ Amount(d[2]) # None}
             folders == Picked(ScanOrder, {i \in DOMAIN ScanOrder : OfFolder(ScanOrder[i]) # {}})
             best    == BestSubsetMatch([i \in DOMAIN folders |-> Total(OfFolder(folders[i]))],
                                        row.amount)
             docs    == UNION {OfFolder(folders[i]) : i \in best}
             hit     == [fault |-> "none", docs |-> docs, early |-> row.day < anchor,
                         lost |-> lost]
  <1>1. Match(row, listed, lost) =
          IF dates = {} \/ folders = <<>> THEN Fail("no extract", lost) ELSE hit
    BY DEF Match
  <1>2. hit.lost = lost
    OBVIOUS
  <1>3. Fail("no extract", lost).lost = lost
    BY DEF Fail
  <1> HIDE DEF dates, folders, hit
  <1> QED
    BY <1>1, <1>2, <1>3

LEMMA VerdictType ==
    ASSUME NEW row, NEW c \in Combination
    PROVE  Verdict(row, c) \in Answer
  BY DEF Verdict, Combination, Answer

LEMMA AllRaisedType == AllRaised \in Seq(Answer) /\ DOMAIN AllRaised = DOMAIN Rows
  <1>1. \A i \in DOMAIN Rows : Verdict(Rows[i], Fail("raised", {})) \in Answer
    <2>1. Fail("raised", {}) \in Combination
      BY FailType DEF Faults
    <2> QED
      BY <2>1, VerdictType
  <1> QED
    BY <1>1, RowTypes DEF AllRaised

LEMMA BookInit == InitReport /\ InitBook => BookInv
  <1> SUFFICES ASSUME InitReport, InitBook PROVE BookInv
    OBVIOUS
  <1>1. book \in Seq(Answer) /\ DOMAIN book \subseteq DOMAIN Rows
    <2>1. CASE book = <<>>
      BY <2>1
    <2>2. CASE book = AllRaised
      BY <2>2, AllRaisedType
    <2> QED
      BY <2>1, <2>2 DEF InitBook
  <1>2. ReportTypeOK /\ Len(answers) <= Len(Rows)
    BY ScanOrderIs, RowTypes DEF InitReport, ReportTypeOK
  <1>3. DOMAIN letter \subseteq DOMAIN Rows /\ Range(letter) \subseteq SUBSET Listed
    BY DEF InitBook, Empty, Range
  <1> QED
    BY <1>1, <1>2, <1>3 DEF BookInv, BookTypeOK, InitBook, Phase

LEMMA TurnIs ==
    ASSUME BookInv, Len(answers) < Len(Rows)
    PROVE  /\ Len(answers) + 1 \in DOMAIN Rows /\ Turn = Rows[Len(answers) + 1]
           /\ Turn.day \in Days /\ cache[Turn.day] \in Combination \cup {None}
  <1>1. answers \in Seq(Answer) /\ cache \in [Days -> Combination \cup {None}]
    BY DEF BookInv, BookTypeOK, ReportTypeOK
  <1>2. Len(answers) + 1 \in DOMAIN Rows
    BY <1>1, RowTypes
  <1> QED
    BY <1>1, <1>2, RowTypes DEF Turn

LEMMA AnswerReportType ==
    ASSUME BookInv, ReportNext, UNCHANGED bookVars
    PROVE  BookInv'
  <1>1. /\ answers \in Seq(Answer) /\ cache \in [Days -> Combination \cup {None}]
        /\ scanned \in 0 .. Len(ScanOrder) /\ found \subseteq Listed
        /\ Len(answers) < Len(Rows) /\ Len(Rows) \in Nat
    BY RowTypes DEF BookInv, BookTypeOK, ReportTypeOK, ReportNext, ScanFolder, ScanFails,
                    MatchRow, AnswerRow
  <1>2. Len(ScanOrder) \in Nat
    BY ScanOrderIs
  <1>3. Turn.day \in Days /\ cache[Turn.day] \in Combination \cup {None}
    BY <1>1, TurnIs
  <1>4. ReportTypeOK' /\ Len(answers') <= Len(Rows)
    <2>1. CASE ScanFolder
      <3>1. ScanOrder[scanned + 1] \in Places
        BY <1>1, <1>2, <2>1, ScanOrderIs DEF ScanFolder
      <3>2. Candidates(ScanOrder[scanned + 1]) \subseteq Listed
        BY <3>1, CandidatesAre
      <3> QED
        BY <1>1, <1>2, <2>1, <3>2 DEF ScanFolder, ReportTypeOK
    <2>2. CASE ScanFails
      <3>1. Fail("raised", {}) \in Combination
        BY FailType DEF Faults
      <3> QED
        BY <1>1, <1>2, <1>3, <2>2, <3>1 DEF ScanFails, ReportTypeOK
    <2>3. CASE MatchRow
      <3>1. PICK lost \in SUBSET found :
                    cache' = [cache EXCEPT ![Turn.day] = Match(Turn, found, lost)]
        BY <2>3 DEF MatchRow
      <3>2. Match(Turn, found, lost) \in Combination
        BY <1>1, MatchIs
      <3> QED
        BY <1>1, <1>2, <1>3, <2>3, <3>1, <3>2 DEF MatchRow, ReportTypeOK
    <2>4. CASE AnswerRow
      <3>1. Verdict(Turn, cache[Turn.day]) \in Answer
        BY <1>3, <2>4, VerdictType DEF AnswerRow
      <3> QED
        BY <1>1, <1>2, <2>4, <3>1 DEF AnswerRow, ReportTypeOK
    <2> QED
      BY <2>1, <2>2, <2>3, <2>4 DEF ReportNext
  <1> QED
    BY <1>4 DEF BookInv, BookTypeOK, bookVars

LEMMA BookStep ==
    ASSUME TreeInv, BookInv, BookNext, UNCHANGED treeVars
    PROVE  BookInv'
  <1>1. /\ ReportTypeOK /\ book \in Seq(Answer) /\ job \in [Jobs -> Phase]
        /\ DOMAIN letter \subseteq DOMAIN Rows /\ Range(letter) \subseteq SUBSET Listed
        /\ mailed \in (SUBSET Extracts) \cup {None} /\ leftOut \in SUBSET Extracts
        /\ answers \in Seq(Answer) /\ Len(answers) <= Len(Rows)
        /\ DOMAIN book \subseteq DOMAIN Rows
    BY DEF BookInv, BookTypeOK, ReportTypeOK
  <1>2. CASE AnswerReport
    BY <1>2, AnswerReportType DEF AnswerReport
  <1>3. ASSUME UNCHANGED reportVars, job' \in [Jobs -> Phase], book' \in Seq(Answer),
               DOMAIN book' \subseteq DOMAIN Rows, DOMAIN letter' \subseteq DOMAIN Rows,
               Range(letter') \subseteq SUBSET Listed,
               mailed' \in (SUBSET Extracts) \cup {None}, leftOut' \in SUBSET Extracts
        PROVE  BookInv'
    BY <1>1, <1>3 DEF BookInv, BookTypeOK, ReportTypeOK, reportVars
  <1>4. \A j \in Jobs, p \in Phase : [job EXCEPT ![j] = p] \in [Jobs -> Phase]
    BY <1>1
  <1>5. CASE OpenReport
    BY <1>1, <1>3, <1>4, <1>5 DEF OpenReport, Goto, Jobs, Phase
  <1>6. CASE PutReport
    BY <1>1, <1>3, <1>4, <1>6, RowTypes DEF PutReport, Goto, Jobs, Phase
  <1>7. CASE GetToClear
    BY <1>1, <1>3, <1>4, <1>7 DEF GetToClear, Goto, Jobs, Phase
  <1>8. CASE PutCleared
    BY <1>1, <1>3, <1>4, <1>8 DEF PutCleared, Goto, Jobs, Phase
  <1>9. CASE GetToMail
    <2> DEFINE M == {x \in DOMAIN book : Mailable(book[x])}
    <2>1. letter' = [i \in M |-> book[i].rutas]
      BY <1>9 DEF GetToMail
    <2>2. \A i \in M : i \in DOMAIN Rows /\ book[i].rutas \in SUBSET Listed
      <3>1. \A i \in DOMAIN book : book[i] \in Answer
        BY <1>1
      <3> QED
        BY <1>1, <3>1 DEF Answer
    <2> HIDE DEF M
    <2>3. DOMAIN letter' \subseteq DOMAIN Rows /\ Range(letter') \subseteq SUBSET Listed
      BY <2>1, <2>2 DEF Range
    <2> QED
      BY <1>1, <1>3, <1>4, <1>9, <2>3 DEF GetToMail, Goto, Jobs, Phase
  <1>10. CASE SendMail
    <2>1. \A d \in UNION Range(letter) : d \in Listed
      BY <1>1
    <2>2. \A d \in Listed : \A p \in RutaPaths(PathOf(d)) : DocAt(p) \in Extracts
      <3> SUFFICES ASSUME NEW d \in Listed, NEW p \in RutaPaths(PathOf(d))
                   PROVE  DocAt(p) \in Extracts
        OBVIOUS
      <3>1. p = PathOf(d) /\ Has(p)
        BY DEF RutaPaths
      <3>2. p.at \in Places
        BY <3>1 DEF PathOf, Listed
      <3> QED
        BY <3>1, <3>2, DocIs
    <2>3. Attachable \in SUBSET Extracts
      BY <2>1, <2>2 DEF Attachable
    <2>4. mailed' \in SUBSET Extracts /\ leftOut' \in SUBSET Extracts
      BY <1>10, <2>3 DEF SendMail
    <2> QED
      BY <1>1, <1>3, <1>4, <1>10, <2>4 DEF SendMail, Goto, Jobs, Phase
  <1> QED
    BY <1>2, <1>5, <1>6, <1>7, <1>8, <1>9, <1>10 DEF BookNext

LEMMA BookStays == BookInv /\ UNCHANGED <<reportVars, bookVars>> => BookInv'
  BY DEF BookInv, BookTypeOK, ReportTypeOK, reportVars, bookVars

-----------------------------------------------------------------------------
(***************************************************************************)
(* The extracts behind a mail.  While accounting has left the tree alone   *)
(* an extract that was listed is where its path says; after one step it    *)
(* may be gone from there, but its path leads to no other.                 *)
(***************************************************************************)
Kept(d) ==
    /\ moves = 0 => tree[d[2]] = d[1]
    /\ moves <= 1 /\ Has(PathOf(d)) => DocAt(PathOf(d)) = d[2]

\* A row of the day named the extract, and its date decided column Estado.
KeptInv ==
    /\ \A d \in found : Kept(d) /\ FileDate(d[2]) \in Nat
    /\ \A day \in Days : cache[day] # None =>
          \A d \in cache[day].docs :
             /\ Kept(d) /\ FileDate(d[2]) \in Nat
             /\ cache[day].fault = "none"
             /\ cache[day].early = (day < FileDate(d[2]))
    /\ \A i \in DOMAIN answers :
          /\ answers[i].validado = "SI"
             <=> answers[i].observacion = "none" /\ Rows[i].amount >= Total(answers[i].rutas)
          /\ \A d \in answers[i].rutas :
                /\ Kept(d)
                /\ answers[i].observacion = "none"
                /\ answers[i].estado = "OK" <=> Rows[i].day >= FileDate(d[2])

\* The mail has read what a finished validation has put.
LetterInv ==
    /\ job["validate"] # "done" => \A i \in DOMAIN book : ~Mailable(book[i])
    /\ job["validate"] = "done" => book \in {<<>>, answers}
    /\ job["mail"] # "idle" =>
          /\ job["validate"] = "done"
          /\ letter = [i \in {x \in DOMAIN answers : Mailable(answers[x])} |-> answers[i].rutas]
    /\ mailed # None => job["mail"] = "done"

MailInv == KeptInv /\ LetterInv /\ MailedIsValidated

LEMMA PathOfIs ==
    ASSUME NEW d \in Listed
    PROVE  /\ PathOf(d) = [at |-> d[1], file |-> About[d[2]].file] /\ PathOf(d).at = d[1]
           /\ d[1] \in Places /\ d[2] \in Extracts /\ PathOf(d).at \in Places
  BY DEF PathOf, Listed

\* An extract is kept when it is listed, and by what accounting does.
LEMMA ListedIsKept ==
    ASSUME TreeInv, NEW d \in Listed, tree[d[2]] = d[1]
    PROVE  Has(PathOf(d)) /\ DocAt(PathOf(d)) = d[2] /\ Kept(d)
  <1>1. Has(PathOf(d)) /\ DocAt(PathOf(d)) = d[2]
    BY PathOfIs, DocHere
  <1> QED
    BY <1>1 DEF Kept

LEMMA MovedIsKept ==
    ASSUME TreeInv, Move, NEW d \in Listed, Kept(d)
    PROVE  Kept(d)'
  <1>1. moves \in Nat /\ moves' = moves + 1
    BY TreeAssumption DEF TreeInv, Move
  <1>2. PathOf(d)' = PathOf(d)
    BY DEF PathOf
  <1> SUFFICES ASSUME moves' <= 1, Has(PathOf(d))'
               PROVE  DocAt(PathOf(d))' = d[2]
    BY <1>1, <1>2 DEF Kept
  <1>3. tree[d[2]] = d[1]
    BY <1>1 DEF Kept
  <1>4. Has(PathOf(d)) /\ DocAt(PathOf(d)) = d[2]
    BY <1>3, ListedIsKept
  <1>5. PathOf(d).at \in Places
    BY PathOfIs
  <1> DEFINE path == PathOf(d)
  <1>6. Has(path)' => DocAt(path)' = DocAt(path)
    <2>1. path.at \in Places /\ Has(path)
      BY <1>4, <1>5
    <2> HIDE DEF path
    <2> QED
      BY <2>1, MovedDoc
  <1> QED
    BY <1>4, <1>6

\* Same tree, same kept.
LEMMA SameIsKept == ASSUME UNCHANGED treeVars, NEW d PROVE Kept(d)' = Kept(d)
  BY DEF Kept, treeVars, PathOf, Has, DocAt, FilesAt, DocsAt

LEMMA MailInit == InitReport /\ InitBook => MailInv
  <1> SUFFICES ASSUME InitReport, InitBook PROVE MailInv
    OBVIOUS
  <1>1. KeptInv
    BY DEF KeptInv, InitReport
  <1>2. \A i \in DOMAIN book : ~Mailable(book[i])
    <2>1. \A i \in DOMAIN Rows : AllRaised[i].validado = "NO"
      BY DEF AllRaised, Verdict, Fail
    <2> QED
      BY <2>1, AllRaisedType DEF InitBook, Mailable
  <1> QED
    BY <1>1, <1>2 DEF MailInv, LetterInv, MailedIsValidated, InitBook, Jobs

\* What the verdict on a row says of the extracts it names.
LEMMA VerdictIs ==
    ASSUME NEW row, row.day \in Nat, NEW c \in Combination,
           \A d \in c.docs : /\ FileDate(d[2]) \in Nat /\ c.fault = "none"
                             /\ c.early = (row.day < FileDate(d[2]))
    PROVE  /\ Verdict(row, c).rutas = c.docs /\ Verdict(row, c).observacion = c.fault
           /\ Verdict(row, c).validado = "SI"
              <=> Verdict(row, c).observacion = "none"
                  /\ row.amount >= Total(Verdict(row, c).rutas)
           /\ \A d \in c.docs : /\ Verdict(row, c).observacion = "none"
                                /\ Verdict(row, c).estado = "OK" <=> row.day >= FileDate(d[2])
  <1>1. /\ Verdict(row, c).rutas = c.docs /\ Verdict(row, c).observacion = c.fault
        /\ Verdict(row, c).validado =
              IF c.fault = "none" /\ row.amount >= Total(c.docs) THEN "SI" ELSE "NO"
        /\ Verdict(row, c).estado = IF c.fault # "none" THEN "ERROR"
                                    ELSE IF c.early THEN "REVISION" ELSE "OK"
    BY DEF Verdict
  <1>2. \A d \in c.docs : Verdict(row, c).estado = "OK" <=> ~c.early
    BY <1>1 DEF Combination
  <1>3. \A d \in c.docs : ~c.early <=> row.day >= FileDate(d[2])
    <2> SUFFICES ASSUME NEW d \in c.docs PROVE ~c.early <=> row.day >= FileDate(d[2])
      OBVIOUS
    <2>1. c.early <=> row.day < FileDate(d[2])
      OBVIOUS
    <2>2. row.day \in Nat /\ FileDate(d[2]) \in Nat
      OBVIOUS
    <2> QED
      BY <2>1, <2>2
  <1> QED
    BY <1>1, <1>2, <1>3

LEMMA KeptStep ==
    ASSUME TreeInv, BookInv, KeptInv, ReportNext, UNCHANGED treeVars
    PROVE  KeptInv'
  <1>1. /\ answers \in Seq(Answer) /\ cache \in [Days -> Combination \cup {None}]
        /\ scanned \in 0 .. Len(ScanOrder) /\ found \in SUBSET Listed
        /\ Len(answers) < Len(Rows) /\ Len(Rows) \in Nat
    BY RowTypes DEF BookInv, BookTypeOK, ReportTypeOK, ReportNext, ScanFolder, ScanFails,
                    MatchRow, AnswerRow
  <1>2. Turn.day \in Days /\ Turn.day \in Nat /\ cache[Turn.day] \in Combination \cup {None}
    BY <1>1, TurnIs, RowTypes
  <1>3. \A d : Kept(d)' = Kept(d)
    BY SameIsKept
  <1>4. ASSUME \A d \in found' : Kept(d) /\ FileDate(d[2]) \in Nat, answers' = answers,
               \/ cache' = cache
               \/ \E c \in Combination :
                    /\ cache' = [cache EXCEPT ![Turn.day] = c]
                    /\ \A d \in c.docs : /\ Kept(d) /\ FileDate(d[2]) \in Nat /\ c.fault = "none"
                                         /\ c.early = (Turn.day < FileDate(d[2]))
        PROVE  KeptInv'
    <2>1. CASE cache' = cache
      BY <1>3, <1>4, <2>1 DEF KeptInv
    <2>2. CASE cache' # cache
      <3>1. PICK c \in Combination :
              /\ cache' = [cache EXCEPT ![Turn.day] = c]
              /\ \A d \in c.docs : /\ Kept(d) /\ FileDate(d[2]) \in Nat /\ c.fault = "none"
                                   /\ c.early = (Turn.day < FileDate(d[2]))
        BY <1>4, <2>2
      <3>2. \A day \in Days : cache'[day] = IF day = Turn.day THEN c ELSE cache[day]
        BY <1>1, <3>1
      <3>3. \A day \in Days : cache'[day] # None =>
              \A d \in cache'[day].docs :
                 /\ Kept(d) /\ FileDate(d[2]) \in Nat
                 /\ cache'[day].fault = "none"
                 /\ cache'[day].early = (day < FileDate(d[2]))
        <4> SUFFICES ASSUME NEW day \in Days, cache'[day] # None, NEW d \in cache'[day].docs
                     PROVE  /\ Kept(d) /\ FileDate(d[2]) \in Nat
                            /\ cache'[day].fault = "none"
                            /\ cache'[day].early = (day < FileDate(d[2]))
          OBVIOUS
        <4>1. CASE day = Turn.day
          BY <3>1, <3>2, <4>1
        <4>2. CASE day # Turn.day
          BY <3>2, <4>2 DEF KeptInv
        <4> QED
          BY <4>1, <4>2
      <3> QED
        BY <1>3, <1>4, <3>3 DEF KeptInv
    <2> QED
      BY <2>1, <2>2
  <1>5. CASE ScanFolder
    <2>1. ScanOrder[scanned + 1] \in Places
      BY <1>1, <1>5, ScanOrderIs DEF ScanFolder
    <2>2. \A d \in Candidates(ScanOrder[scanned + 1]) : Kept(d) /\ FileDate(d[2]) \in Nat
      BY <2>1, CandidatesAre, ListedIsKept
    <2>3. \A d \in found' : Kept(d) /\ FileDate(d[2]) \in Nat
      BY <1>5, <2>2 DEF ScanFolder, KeptInv
    <2> QED
      BY <1>4, <1>5, <2>3 DEF ScanFolder
  <1>6. CASE ScanFails
    <2>1. Fail("raised", {}) \in Combination
      BY FailType DEF Faults
    <2>2. Fail("raised", {}).docs = {}
      BY DEF Fail
    <2> QED
      BY <1>4, <1>6, <2>1, <2>2 DEF ScanFails
  <1>7. CASE MatchRow
    <2>0. PICK lost \in SUBSET found :
                  cache' = [cache EXCEPT ![Turn.day] = Match(Turn, found, lost)]
      BY <1>7 DEF MatchRow
    <2> DEFINE c == Match(Turn, found, lost)
    <2>1. /\ c \in Combination /\ c.docs \subseteq found
          /\ \A d \in c.docs : c.fault = "none" /\ c.early = (Turn.day < FileDate(d[2]))
      BY <1>1, MatchIs
    <2>2. cache' = [cache EXCEPT ![Turn.day] = c] /\ found' = {} /\ answers' = answers
      BY <1>7, <2>0 DEF MatchRow
    <2> HIDE DEF c
    <2>3. \A d \in c.docs : Kept(d) /\ FileDate(d[2]) \in Nat
      BY <2>1 DEF KeptInv
    <2> QED
      BY <1>4, <2>1, <2>2, <2>3
  <1>8. CASE AnswerRow
    <2> DEFINE n == Len(answers) + 1
               c == cache[Turn.day]
               v == Verdict(Turn, c)
    <2>1. c \in Combination /\ c # None /\ n \in DOMAIN Rows /\ Turn = Rows[n]
      BY <1>1, <1>2, <1>8, TurnIs DEF AnswerRow
    <2>2. \A d \in c.docs : /\ Kept(d) /\ FileDate(d[2]) \in Nat /\ c.fault = "none"
                            /\ c.early = (Turn.day < FileDate(d[2]))
      BY <1>2, <2>1 DEF KeptInv
    <2>3. /\ v.rutas = c.docs
          /\ v.validado = "SI"
             <=> v.observacion = "none" /\ Turn.amount >= Total(v.rutas)
          /\ \A d \in c.docs : /\ v.observacion = "none"
                               /\ v.estado = "OK" <=> Turn.day >= FileDate(d[2])
      <3> HIDE DEF c
      <3> QED
        BY <1>2, <2>1, <2>2, VerdictIs
    <2>4. answers' = Append(answers, v) /\ cache' = cache /\ found' = found
      BY <1>8 DEF AnswerRow
    <2> HIDE DEF c, v
    <2>5. \A i \in DOMAIN answers' :
             (i = n /\ answers'[i] = v) \/ (i \in DOMAIN answers /\ answers'[i] = answers[i])
      BY <1>1, <2>4
    <2>6. \A i \in DOMAIN answers' :
            /\ answers'[i].validado = "SI"
               <=> answers'[i].observacion = "none" /\ Rows[i].amount >= Total(answers'[i].rutas)
            /\ \A d \in answers'[i].rutas :
                  /\ Kept(d)
                  /\ answers'[i].observacion = "none"
                  /\ answers'[i].estado = "OK" <=> Rows[i].day >= FileDate(d[2])
      <3> SUFFICES ASSUME NEW i \in DOMAIN answers'
                   PROVE
            /\ answers'[i].validado = "SI"
               <=> answers'[i].observacion = "none" /\ Rows[i].amount >= Total(answers'[i].rutas)
            /\ \A d \in answers'[i].rutas :
                  /\ Kept(d)
                  /\ answers'[i].observacion = "none"
                  /\ answers'[i].estado = "OK" <=> Rows[i].day >= FileDate(d[2])
        OBVIOUS
      <3>1. CASE i = n /\ answers'[i] = v
        <4>1. \A d \in v.rutas : /\ Kept(d) /\ v.observacion = "none"
                                 /\ v.estado = "OK" <=> Rows[i].day >= FileDate(d[2])
          BY <2>1, <2>2, <2>3, <3>1
        <4>2. v.validado = "SI" <=> v.observacion = "none" /\ Rows[i].amount >= Total(v.rutas)
          BY <2>1, <2>3, <3>1
        <4> QED
          BY <3>1, <4>1, <4>2
      <3>2. CASE i \in DOMAIN answers /\ answers'[i] = answers[i]
        BY <3>2 DEF KeptInv
      <3> QED
        BY <2>5, <3>1, <3>2
    <2> QED
      BY <1>3, <2>4, <2>6 DEF KeptInv
  <1> QED
    BY <1>5, <1>6, <1>7, <1>8 DEF ReportNext

\* A step of the jobs keeps the invariant.
LEMMA MailBookStep ==
    ASSUME TreeInv, BookInv, MailInv, BookNext, UNCHANGED treeVars
    PROVE  MailInv'
  <1>1. KeptInv /\ LetterInv /\ MailedIsValidated
    BY DEF MailInv
  <1>2. /\ answers \in Seq(Answer) /\ book \in Seq(Answer) /\ job \in [Jobs -> Phase]
    BY DEF BookInv, BookTypeOK, ReportTypeOK
  <1>3. KeptInv'
    <2>1. CASE AnswerReport
      BY <1>1, <2>1, KeptStep DEF AnswerReport
    <2>2. CASE UNCHANGED reportVars
      <3>1. \A d : Kept(d)' = Kept(d)
        BY SameIsKept
      <3> QED
        BY <1>1, <2>2, <3>1 DEF KeptInv, reportVars
    <2> QED
      BY <2>1, <2>2 DEF BookNext, OpenReport, PutReport, GetToClear, PutCleared, GetToMail,
                        SendMail
  <1>4. ASSUME \/ job["mail"] = "idle"
               \/ mailed' = mailed /\ answers' = answers /\ leftOut' = leftOut,
               job["mail"] = "idle" => mailed' = mailed
        PROVE  MailedIsValidated'
    <2>1. CASE job["mail"] = "idle"
      BY <1>1, <1>4, <2>1 DEF LetterInv, MailedIsValidated
    <2>2. CASE mailed' = mailed /\ answers' = answers /\ leftOut' = leftOut
      BY <1>1, <2>2 DEF MailedIsValidated, treeVars
    <2> QED
      BY <1>4, <2>1, <2>2
  <1>5. CASE OpenReport \/ AnswerReport \/ PutReport
    <2>1. job["validate"] # "done" /\ job["mail"] = "idle"
      BY <1>1, <1>5 DEF OpenReport, AnswerReport, PutReport, LetterInv
    <2>2. mailed' = mailed /\ job'["mail"] = "idle"
      BY <1>2, <1>5, <2>1 DEF OpenReport, AnswerReport, PutReport, Goto, bookVars, Jobs
    <2>3. LetterInv'
      <3>1. CASE PutReport
        <4>1. job'["validate"] = "done" /\ book' = answers' /\ mailed = None
          BY <1>1, <1>2, <2>1, <3>1 DEF PutReport, Goto, Jobs, reportVars, LetterInv
        <4> QED
          BY <2>2, <4>1 DEF LetterInv
      <3>2. CASE OpenReport \/ AnswerReport
        <4>1. job'["validate"] # "done" /\ book' = book /\ mailed = None
          BY <1>1, <1>2, <2>1, <3>2
          DEF OpenReport, AnswerReport, Goto, Jobs, bookVars, LetterInv
        <4> QED
          BY <1>1, <2>1, <2>2, <4>1 DEF LetterInv
      <3> QED
        BY <1>5, <3>1, <3>2
    <2> QED
      BY <1>3, <1>4, <2>1, <2>2, <2>3 DEF MailInv
  <1>6. CASE GetToClear \/ PutCleared
    <2>1. /\ job'["validate"] = job["validate"] /\ job'["mail"] = job["mail"]
          /\ UNCHANGED <<answers, letter, mailed, leftOut>> /\ book' \in {book, <<>>}
      BY <1>2, <1>6 DEF GetToClear, PutCleared, Goto, Jobs, reportVars
    <2>2. LetterInv'
      <3>1. \A i \in DOMAIN book' : i \in DOMAIN book /\ book'[i] = book[i]
        BY <2>1
      <3>2. job'["validate"] # "done" => \A i \in DOMAIN book' : ~Mailable(book'[i])
        BY <1>1, <2>1, <3>1 DEF LetterInv
      <3> QED
        BY <1>1, <2>1, <3>2 DEF LetterInv
    <2> QED
      BY <1>3, <1>4, <2>1, <2>2 DEF MailInv, LetterInv
  <1>7. CASE GetToMail
    <2>1. /\ job["mail"] = "idle" /\ mailed' = mailed /\ answers' = answers /\ book' = book
          /\ letter' = [i \in {x \in DOMAIN book : Mailable(book[x])} |-> book[i].rutas]
          /\ \E i \in DOMAIN book : Mailable(book[i])
      BY <1>7 DEF GetToMail, reportVars
    <2>2. job'["mail"] = "busy" /\ job'["validate"] = job["validate"]
      BY <1>2, <1>7 DEF GetToMail, Goto, Jobs
    <2>3. job["validate"] = "done" /\ book = answers /\ mailed = None
      BY <1>1, <2>1 DEF LetterInv
    <2>4. LetterInv'
      BY <2>1, <2>2, <2>3 DEF LetterInv
    <2> QED
      BY <1>3, <1>4, <2>1, <2>4 DEF MailInv
  <1>8. CASE SendMail
    <2>1. /\ job["mail"] = "busy" /\ answers' = answers /\ book' = book /\ letter' = letter
          /\ mailed' \subseteq Attachable /\ Attachable \subseteq mailed' \cup leftOut'
      BY <1>8 DEF SendMail, reportVars
    <2>2. job'["mail"] = "done" /\ job'["validate"] = job["validate"]
      BY <1>2, <1>8 DEF SendMail, Goto, Jobs
    <2>3. LetterInv'
      BY <1>1, <2>1, <2>2 DEF LetterInv
    <2>4. letter = [i \in {x \in DOMAIN answers : Mailable(answers[x])} |-> answers[i].rutas]
      BY <1>1, <2>1 DEF LetterInv
    <2>5. \A i \in DOMAIN answers : answers[i].rutas \subseteq Listed
      <3>1. \A i \in DOMAIN answers : answers[i] \in Answer
        BY <1>2
      <3> QED
        BY <3>1 DEF Answer
    <2>6. MailedIsValidated'
      <3> SUFFICES ASSUME moves <= 1 PROVE MailedIsValidated'
        BY DEF MailedIsValidated, treeVars
      <3> DEFINE Covered(i) == /\ answers[i].observacion = "none"
                               /\ Rows[i].amount >= Total(answers[i].rutas)
                               /\ \A d \in answers[i].rutas : Rows[i].day >= FileDate(d[2])
      <3>1. ASSUME NEW e \in mailed'
            PROVE  \E i \in DOMAIN answers : Covered(i) /\ \E d \in answers[i].rutas : d[2] = e
        <4>1. PICK d \in UNION Range(letter) : \E p \in RutaPaths(PathOf(d)) : e = DocAt(p)
          BY <2>1, <3>1 DEF Attachable
        <4>2. PICK p \in RutaPaths(PathOf(d)) : e = DocAt(p)
          BY <4>1
        <4>3. PICK i \in DOMAIN letter : d \in letter[i]
          BY <4>1 DEF Range
        <4>4. i \in DOMAIN answers /\ Mailable(answers[i]) /\ d \in answers[i].rutas
          BY <2>4, <4>3
        <4>5. p = PathOf(d) /\ Has(p)
          BY <4>2 DEF RutaPaths
        <4>6. d[2] = e
          BY <1>1, <4>2, <4>4, <4>5 DEF KeptInv, Kept
        <4>7. Covered(i)
          BY <1>1, <4>4 DEF KeptInv, Mailable
        <4> QED
          BY <4>4, <4>6, <4>7
      <3>2. ASSUME moves = 0, NEW i \in DOMAIN answers, NEW d \in answers[i].rutas,
                   Covered(i), ~name[Client].comma, ~name[d[1].unit].comma
            PROVE  d[2] \in mailed' \cup leftOut'
        <4>1. Mailable(answers[i])
          BY <1>1, <3>2 DEF KeptInv, Mailable
        <4>2. d \in UNION Range(letter)
          <5>1. i \in DOMAIN letter /\ letter[i] = answers[i].rutas
            BY <2>4, <4>1
          <5> QED
            BY <5>1 DEF Range
        <4>3. d \in Listed /\ tree[d[2]] = d[1]
          BY <1>1, <2>5, <3>2 DEF KeptInv, Kept
        <4>4. Has(PathOf(d)) /\ DocAt(PathOf(d)) = d[2] /\ PathOf(d).at = d[1]
          BY <4>3, ListedIsKept, PathOfIs
        <4>5. PathOf(d) \in RutaPaths(PathOf(d))
          BY <3>2, <4>4 DEF RutaPaths
        <4>6. d[2] \in Attachable
          BY <4>2, <4>4, <4>5 DEF Attachable
        <4> QED
          BY <2>1, <4>6
      <3> QED
        BY <2>1, <3>1, <3>2 DEF MailedIsValidated, treeVars
    <2> QED
      BY <1>3, <2>3, <2>6 DEF MailInv
  <1> QED
    BY <1>5, <1>6, <1>7, <1>8 DEF BookNext

\* So does a step of accounting, which comes before the mail is sent.
LEMMA MailMove ==
    ASSUME TreeInv, BookInv, MailInv, Move, mailed = None, UNCHANGED <<reportVars, bookVars>>
    PROVE  MailInv'
  <1>1. /\ answers \in Seq(Answer) /\ cache \in [Days -> Combination \cup {None}]
        /\ found \in SUBSET Listed
    BY DEF BookInv, BookTypeOK, ReportTypeOK
  <1>2. \A d \in Listed : Kept(d) => Kept(d)'
    BY MovedIsKept
  <1>3. KeptInv'
    <2>1. \A day \in Days : cache[day] # None => cache[day].docs \subseteq Listed
      <3>1. \A c \in Combination : c.docs \subseteq Listed
        BY DEF Combination
      <3> QED
        BY <1>1, <3>1
    <2>2. \A i \in DOMAIN answers : answers[i].rutas \subseteq Listed
      <3>1. \A i \in DOMAIN answers : answers[i] \in Answer
        BY <1>1
      <3> QED
        BY <3>1 DEF Answer
    <2> QED
      BY <1>1, <1>2, <2>1, <2>2 DEF MailInv, KeptInv, reportVars
  <1> QED
    BY <1>3 DEF MailInv, LetterInv, MailedIsValidated, reportVars, bookVars

LEMMA MailStays == MailInv /\ UNCHANGED <<treeVars, reportVars, bookVars>> => MailInv'
  <1> SUFFICES ASSUME MailInv, UNCHANGED <<treeVars, reportVars, bookVars>> PROVE MailInv'
    OBVIOUS
  <1>1. \A d : Kept(d)' = Kept(d)
    BY SameIsKept
  <1> QED
    BY <1>1 DEF MailInv, KeptInv, LetterInv, MailedIsValidated, reportVars, bookVars, treeVars

-----------------------------------------------------------------------------
(***************************************************************************)
(* The folders that explain an amount.                                     *)
(***************************************************************************)
EveryCandidate == UNION {Candidates(p) : p \in Range(ScanOrder)}

LEMMA ListedFinite == IsFiniteSet(Listed)
  <1>1. IsFiniteSet(Units)
    <2>1. IsFiniteSet({Client})
      BY FS_Singleton
    <2> QED
      BY <2>1, FoldersFinite, FS_Union DEF Units
  <1>2. IsFiniteSet(Places)
    <2> DEFINE pair(p) == <<p.unit, p.inner>>
               place == [x \in Units \X BOOLEAN |-> [unit |-> x[1], inner |-> x[2]]]
    <2>1. IsFiniteSet({TRUE}) /\ IsFiniteSet({FALSE}) /\ BOOLEAN = {TRUE} \cup {FALSE}
      BY FS_Singleton
    <2>2. IsFiniteSet(BOOLEAN)
      BY <2>1, FS_Union
    <2>3. IsFiniteSet(Units \X BOOLEAN)
      BY <1>1, <2>2, FS_Product
    <2>4. place \in Surjection(Units \X BOOLEAN, Places)
      <3>1. place \in [Units \X BOOLEAN -> Places]
        BY DEF Places
      <3>2. \A p \in Places : p = place[<<p.unit, p.inner>>] /\ <<p.unit, p.inner>> \in Units \X BOOLEAN
        BY DEF Places
      <3> HIDE DEF place
      <3> QED
        BY <3>1, <3>2 DEF Surjection
    <2> QED
      BY <2>3, <2>4, FS_Surjection
  <1> QED
    BY <1>2, TreeAssumption, FS_Product DEF Listed

\* No place is looked at twice.
LEMMA ScanOrderOnce ==
    /\ DOMAIN ScanOrder = 1 .. Len(ScanOrder)
    /\ \A i, j \in DOMAIN ScanOrder : ScanOrder[i] = ScanOrder[j] => i = j
  <1> DEFINE own == [i \in DOMAIN Folders |-> Own(Folders[i])]
             last == <<Inner(Client)>>
  <1>1. Folders \in Seq(Range(Folders)) /\ DOMAIN Folders = 1 .. Len(Folders) /\ Len(Folders) \in Nat
    BY TreeAssumption
  <1>2. own \in Seq(Places) /\ Len(own) = Len(Folders)
    <2>1. \A i \in DOMAIN Folders : Own(Folders[i]) \in Places
      BY <1>1 DEF Own, Places, Units
    <2> QED
      BY <1>1, <2>1
  <1>3. last \in Seq(Places) /\ Len(last) = 1 /\ last[1] = Inner(Client)
    BY DEF Inner, Places, Units
  <1>4. \A i \in 1 .. Len(Folders) : own[i] = Own(Folders[i])
    BY <1>1
  <1>5. ScanOrder = own \o last
    BY DEF ScanOrder
  <1> HIDE DEF own, last
  <1>6. /\ Len(ScanOrder) = Len(Folders) + 1 /\ DOMAIN ScanOrder = 1 .. Len(ScanOrder)
        /\ \A i \in 1 .. Len(Folders) : ScanOrder[i] = Own(Folders[i])
        /\ ScanOrder[Len(Folders) + 1] = Inner(Client)
    <2>1. /\ own \o last \in Seq(Places) /\ Len(own \o last) = Len(own) + Len(last)
          /\ \A m \in 1 .. Len(own) : (own \o last)[m] = own[m]
          /\ \A m \in 1 .. Len(last) : (own \o last)[Len(own) + m] = last[m]
      BY <1>2, <1>3, ConcatIs
    <2>2. (own \o last)[Len(Folders) + 1] = Inner(Client)
      BY <1>2, <1>3, <2>1
    <2> QED
      BY <1>2, <1>3, <1>4, <1>5, <2>1, <2>2
  <1>7. \A i, j \in 1 .. Len(Folders) : Own(Folders[i]) = Own(Folders[j]) => i = j
    <2>1. \A i, j \in DOMAIN Folders : Folders[i] = Folders[j] => i = j
      BY TreeAssumption DEF IsInjective
    <2> QED
      BY <1>1, <2>1 DEF Own
  <1>8. \A i \in 1 .. Len(Folders) : Own(Folders[i]) # Inner(Client)
    BY DEF Own, Inner
  <1> QED
    BY <1>1, <1>6, <1>7, <1>8

\* Of the dates there is one that is nearer to the day than every other.
LEMMA AnchorIs ==
    ASSUME NEW dates \in SUBSET Nat, IsFiniteSet(dates), dates # {}, NEW day \in Nat
    PROVE  /\ Anchor(dates, day) \in dates
           /\ \A x \in dates \ {Anchor(dates, day)} :
                 \/ Distance(Anchor(dates, day), day) < Distance(x, day)
                 \/ /\ Distance(Anchor(dates, day), day) = Distance(x, day)
                    /\ Anchor(dates, day) > x
  <1> DEFINE Nearer(d, x) == \/ Distance(d, day) < Distance(x, day)
                             \/ Distance(d, day) = Distance(x, day) /\ d > x
             R == {p \in Nat \X Nat : Nearer(p[1], p[2])}
  <1>1. \A x, y \in Nat : <<x, y>> \in R <=> Nearer(x, y)
    OBVIOUS
  <1>2. \A x, y, z \in Nat : Nearer(x, y) /\ Nearer(y, z) => Nearer(x, z)
    BY DEF Distance
  <1>3. \A x \in Nat : ~Nearer(x, x)
    BY DEF Distance
  <1>4. \A x, y \in Nat : x # y => Nearer(x, y) \/ Nearer(y, x)
    BY DEF Distance
  <1> HIDE DEF R
  <1>5. PICK d \in dates : \A y \in dates : <<y, d>> \notin R
    <2>1. \A x, y, z \in dates : <<x, y>> \in R /\ <<y, z>> \in R => <<x, z>> \in R
      BY <1>1, <1>2
    <2>2. \A x \in dates : <<x, x>> \notin R
      BY <1>1, <1>3
    <2> QED
      BY <2>1, <2>2, FiniteLeast
  <1>6. \A x \in dates \ {d} : Nearer(d, x)
    BY <1>1, <1>4, <1>5
  <1>7. Anchor(dates, day) = CHOOSE a \in dates : \A x \in dates \ {a} : Nearer(a, x)
    BY DEF Anchor
  <1> HIDE DEF Nearer
  <1>8. /\ Anchor(dates, day) \in dates
        /\ \A x \in dates \ {Anchor(dates, day)} : Nearer(Anchor(dates, day), x)
    BY <1>6, <1>7
  <1> QED
    BY <1>8 DEF Nearer

LEMMA EveryCandidateIs ==
    /\ EveryCandidate \in SUBSET Listed /\ IsFiniteSet(EveryCandidate)
    /\ \A d \in EveryCandidate : FileDate(d[2]) \in Nat /\ d[1] \in Range(ScanOrder)
  <1>1. \A p \in Range(ScanOrder) : p \in Places
    BY ScanOrderIs, ScanOrderOnce DEF Range
  <1>2. \A d \in EveryCandidate :
          d \in Listed /\ FileDate(d[2]) \in Nat /\ d[1] \in Range(ScanOrder)
    BY <1>1, CandidatesAre DEF EveryCandidate
  <1>3. EveryCandidate \in SUBSET Listed
    BY <1>2
  <1>4. IsFiniteSet(EveryCandidate)
    BY <1>3, ListedFinite, FS_Subset
  <1> QED
    BY <1>2, <1>3, <1>4

\* The extracts the search may name are those of the one date nearest to the
\* payment that were not lost and can be read.
LEMMA NearestIs ==
    ASSUME NEW row \in [day : Nat, amount : Nat]
    PROVE  LET dates  == {FileDate(d[2]) : d \in EveryCandidate}
               anchor == Anchor(dates, row.day)
           IN /\ EveryCandidate = {} => NearestDocs(row) = {}
              /\ EveryCandidate # {} =>
                    NearestDocs(row) = {d \in EveryCandidate \ Lost(row) :
                                          FileDate(d[2]) = anchor /\ Amount(d[2]) # None}
  <1> DEFINE all    == EveryCandidate
             day    == row.day
             dates  == {FileDate(d[2]) : d \in all}
             anchor == Anchor(dates, day)
             Nearest(a, b) == \/ Distance(a, day) < Distance(b, day)
                              \/ (Distance(a, day) = Distance(b, day) /\ a >= b)
  <1>1. day \in Nat
    OBVIOUS
  <1>2. NearestDocs(row) = {d \in all \ Lost(row) :
                                           /\ Amount(d[2]) # None
                                           /\ \A x \in all : Nearest(FileDate(d[2]), FileDate(x[2]))}
    BY DEF NearestDocs, EveryCandidate
  <1>3. IsFiniteSet(all) /\ \A d \in all : FileDate(d[2]) \in Nat /\ FileDate(d[2]) \in dates
    BY EveryCandidateIs
  <1>4. dates \in SUBSET Nat /\ IsFiniteSet(dates)
    <2> DEFINE date == [d \in all |-> FileDate(d[2])]
    <2>1. date \in Surjection(all, dates)
      <3>1. date \in [all -> dates]
        BY <1>3
      <3>2. \A x \in dates : \E d \in all : date[d] = x
        OBVIOUS
      <3> HIDE DEF date, dates, all
      <3> QED
        BY <3>1, <3>2 DEF Surjection
    <2>2. dates \in SUBSET Nat
      BY <1>3
    <2> HIDE DEF date, dates, all
    <2> QED
      BY <1>3, <2>1, <2>2, FS_Surjection
  <1>5. CASE all = {}
    BY <1>2, <1>5
  <1>6. CASE all # {}
    <2>1. dates # {}
      BY <1>6
    <2>2. /\ anchor \in dates
          /\ \A x \in dates \ {anchor} :
               \/ Distance(anchor, day) < Distance(x, day)
               \/ Distance(anchor, day) = Distance(x, day) /\ anchor > x
      <3> HIDE DEF dates, day
      <3> QED
        BY <1>1, <1>4, <2>1, AnchorIs
    <2>3. PICK a \in all : anchor = FileDate(a[2])
      BY <2>2
    <2>4. \A x \in dates : Distance(x, day) \in Nat /\ x \in Nat
      BY <1>1, <1>4, DistanceType
    <2> HIDE DEF dates, anchor, day
    <2>5. \A x \in dates : Nearest(anchor, x)
      BY <2>2, <2>4
    <2>6. \A x \in dates : x # anchor => ~Nearest(x, anchor)
      BY <2>2, <2>4
    <2> HIDE DEF Nearest, all
    <2>7. \A d \in all : (\A x \in all : Nearest(FileDate(d[2]), FileDate(x[2])))
                         <=> FileDate(d[2]) = anchor
      BY <1>3, <2>3, <2>5, <2>6
    <2> QED
      BY <1>2, <1>6, <2>7 DEF all, dates, anchor, day
  <1> QED
    BY <1>5, <1>6

\* The extracts of N in the folders of F at the places U, and what it takes for
\* sums to have the sums of f over them.
Part(N, F, U) == {d \in N : \E i \in U : d[1] = F[i]}

PartSums(sums, f, N, F, n) ==
    /\ IsFiniteSet(N) /\ \A d \in N : f[d] \in Nat
    /\ n \in Nat /\ \A i, k \in 1 .. n : F[i] = F[k] => i = k
    /\ \A i \in 1 .. n : sums[i] = SumFunctionOnSet(f, Part(N, F, {i}))

\* The sum of those sums is the sum over the extracts at all the places.
LEMMA SumOfParts ==
    ASSUME NEW sums, NEW f, NEW N, NEW F, NEW n, PartSums(sums, f, N, F, n),
           NEW V \in SUBSET (1 .. n)
    PROVE  SumFunctionOnSet(sums, V) = SumFunctionOnSet(f, Part(N, F, V))
  <1> DEFINE sum(U) == SumFunctionOnSet(f, U)
             base == 1 .. n
             good == {U \in SUBSET base : SumFunctionOnSet(sums, U) = sum(Part(N, F, U))}
  <1>1. IsFiniteSet(base)
    BY FS_Interval DEF PartSums
  <1>2. sum({}) = 0 /\ \A U \in SUBSET N : sum(U) \in Nat
    BY SumIs DEF PartSums
  <1>3. \A A, B \in SUBSET N : A \cap B = {} => sum(A \cup B) = sum(A) + sum(B)
    <2> SUFFICES ASSUME NEW A \in SUBSET N, NEW B \in SUBSET N, A \cap B = {}
                 PROVE  sum(A \cup B) = sum(A) + sum(B)
      OBVIOUS
    <2>1. IsFiniteSet(N) /\ \A d \in N : f[d] \in Nat
      BY DEF PartSums
    <2> QED
      BY <2>1, SumOfUnion
  <1> HIDE DEF sum
  <1>4. \A U : Part(N, F, U) \in SUBSET N
    BY DEF Part
  <1>5. \A i \in base : sums[i] = sum(Part(N, F, {i})) /\ sums[i] \in Nat
    <2>1. \A i \in base : sums[i] = sum(Part(N, F, {i}))
      BY DEF PartSums, sum
    <2> QED
      BY <1>2, <1>4, <2>1
  <1> HIDE DEF base
  <1>6. /\ SumFunctionOnSet(sums, {}) = 0
        /\ \A U \in SUBSET base : \A x \in U :
              SumFunctionOnSet(sums, U) = sums[x] + SumFunctionOnSet(sums, U \ {x})
    <2>1. \A i \in base : sums[i] \in Nat
      BY <1>5
    <2> HIDE DEF good
    <2> QED
      BY <1>1, <2>1, SumIs
  <1>7. {} \in good
    <2>1. Part(N, F, {}) = {}
      BY DEF Part
    <2> QED
      BY <1>2, <1>6, <2>1
  <1>8. ASSUME NEW U \in SUBSET base, U # {}, \A x \in U : U \ {x} \in good
        PROVE  U \in good
    <2>1. PICK x : x \in U
      BY <1>8
    <2>2. SumFunctionOnSet(sums, U) = sums[x] + SumFunctionOnSet(sums, U \ {x})
      BY <1>6, <2>1
    <2>3. SumFunctionOnSet(sums, U \ {x}) = sum(Part(N, F, U \ {x}))
      BY <1>8, <2>1
    <2>4. Part(N, F, {x}) \cap Part(N, F, U \ {x}) = {}
      <3>1. \A i \in U \ {x} : F[i] # F[x]
        BY <2>1 DEF PartSums, base
      <3> QED
        BY <3>1 DEF Part
    <2>5. Part(N, F, {x}) \cup Part(N, F, U \ {x}) = Part(N, F, U)
      BY <2>1 DEF Part
    <2>6. sum(Part(N, F, U)) = sum(Part(N, F, {x})) + sum(Part(N, F, U \ {x}))
      BY <1>3, <1>4, <2>4, <2>5
    <2>7. sums[x] = sum(Part(N, F, {x}))
      BY <1>5, <2>1
    <2> QED
      BY <2>2, <2>3, <2>6, <2>7
  <1> HIDE DEF good
  <1>9. \A U \in SUBSET base : U \in good
    BY <1>1, <1>7, <1>8, SubsetInduction
  <1> QED
    BY <1>9 DEF good, base, sum

LEMMA NearestTypes ==
    ASSUME NEW row \in [day : Nat, amount : Nat]
    PROVE  /\ NearestDocs(row) \in SUBSET EveryCandidate /\ IsFiniteSet(NearestDocs(row))
           /\ \A d \in NearestDocs(row) :
                 /\ d \in Listed /\ Amount(d[2]) \in Nat /\ d[1] \in Range(ScanOrder)
                 /\ [x \in Listed |-> Amount(x[2])][d] \in Nat
  <1>1. \A d \in NearestDocs(row) : d \in EveryCandidate /\ Amount(d[2]) # None
    BY DEF NearestDocs, EveryCandidate
  <1>2. IsFiniteSet(NearestDocs(row))
    BY <1>1, EveryCandidateIs, FS_Subset
  <1>3. \A d \in Listed : Amount(d[2]) # None => Amount(d[2]) \in Nat
    BY FactTypes, TextTypes DEF Amount, Listed, NatOrNone
  <1>4. \A d \in NearestDocs(row) :
           d \in Listed /\ Amount(d[2]) \in Nat /\ d[1] \in Range(ScanOrder)
    BY <1>1, <1>3, EveryCandidateIs
  <1> QED
    BY <1>1, <1>2, <1>4

\* The places where the search may look: every folder with one of the extracts,
\* and each of them once.
LEMMA FoldersAre ==
    ASSUME NEW N \in SUBSET EveryCandidate
    PROVE  LET at == {i \in DOMAIN ScanOrder : {d \in N : d[1] = ScanOrder[i]} # {}}
               F  == Picked(ScanOrder, at)
           IN /\ F \in Seq(Places) /\ Len(F) \in Nat /\ DOMAIN F = 1 .. Len(F)
              /\ \A i, k \in 1 .. Len(F) : F[i] = F[k] => i = k
              /\ \A d \in N : \E i \in 1 .. Len(F) : d[1] = F[i]
              /\ \A i \in 1 .. Len(F) : \E d \in N : d[1] = F[i]
  <1> DEFINE at == {i \in DOMAIN ScanOrder : {d \in N : d[1] = ScanOrder[i]} # {}}
             F  == Picked(ScanOrder, at)
             n  == Cardinality(at)
  <1>1. at \in SUBSET DOMAIN ScanOrder /\ \A i \in at : \E d \in N : d[1] = ScanOrder[i]
    OBVIOUS
  <1>2. \A d \in N : \E i \in at : d[1] = ScanOrder[i]
    <2> SUFFICES ASSUME NEW d \in N
                 PROVE  \E i \in at : d[1] = ScanOrder[i]
      OBVIOUS
    <2>1. d[1] \in Range(ScanOrder)
      BY EveryCandidateIs
    <2>2. PICK i \in DOMAIN ScanOrder : ScanOrder[i] = d[1]
      BY <2>1 DEF Range
    <2> QED
      BY <2>2
  <1> HIDE DEF at
  <1>3. /\ n \in Nat /\ F \in Seq(Places) /\ Len(F) = n
        /\ \E r \in [1 .. n -> at] :
              /\ \A k \in 1 .. n : F[k] = ScanOrder[r[k]]
              /\ \A k, m \in 1 .. n : r[k] = r[m] => k = m
              /\ \A i \in at : \E k \in 1 .. n : r[k] = i
    BY <1>1, ScanOrderIs, PickedIs
  <1> HIDE DEF F, n
  <1>4. PICK r \in [1 .. n -> at] :
              /\ \A k \in 1 .. n : F[k] = ScanOrder[r[k]]
              /\ \A k, m \in 1 .. n : r[k] = r[m] => k = m
              /\ \A i \in at : \E k \in 1 .. n : r[k] = i
    BY <1>3
  <1>5. DOMAIN F = 1 .. n
    BY <1>3
  <1>6. \A i, k \in 1 .. n : F[i] = F[k] => i = k
    BY <1>1, <1>4, ScanOrderOnce
  <1>7. \A d \in N : \E i \in 1 .. n : d[1] = F[i]
    BY <1>2, <1>4
  <1>8. \A i \in 1 .. n : \E d \in N : d[1] = F[i]
    BY <1>1, <1>4
  <1> QED
    BY <1>3, <1>5, <1>6, <1>7, <1>8 DEF F, at

\* A set of places of F and the folders there have one number.
LEMMA ImageSize ==
    ASSUME NEW n \in Nat, NEW F, \A i, k \in 1 .. n : F[i] = F[k] => i = k,
           NEW U \in SUBSET (1 .. n)
    PROVE  Cardinality({F[i] : i \in U}) = Cardinality(U)
  <1> DEFINE g == [i \in U |-> F[i]]
             T == {F[i] : i \in U}
  <1>1. IsFiniteSet(U)
    <2>1. IsFiniteSet(1 .. n)
      BY FS_Interval
    <2> QED
      BY <2>1, FS_Subset
  <1>2. g \in Bijection(U, T)
    <2>1. g \in [U -> T]
      OBVIOUS
    <2>2. \A t \in T : \E i \in U : g[i] = t
      OBVIOUS
    <2>3. \A i, k \in U : g[i] = g[k] => i = k
      OBVIOUS
    <2> HIDE DEF g, T
    <2> QED
      BY <2>1, <2>2, <2>3 DEF Bijection, Injection, Surjection, IsInjective
  <1> HIDE DEF g, T
  <1> QED
    BY <1>1, <1>2, FS_Bijection DEF ExistsBijection, T

\* F names every folder of the extracts N once.
NamesOnce(F, n, N) ==
    /\ n \in Nat /\ \A i, k \in 1 .. n : F[i] = F[k] => i = k
    /\ \A d \in N : \E i \in 1 .. n : d[1] = F[i]
    /\ \A i \in 1 .. n : \E d \in N : d[1] = F[i]

Named(F, U) == {F[i] : i \in U}

\* The sets of places of F stand for the sets of folders one to one.
LEMMA FolderImages ==
    ASSUME NEW F, NEW n, NEW row, NamesOnce(F, n, NearestDocs(row))
    PROVE  /\ \A U \in NonEmpty(n) : /\ Named(F, U) \in FolderSets(row)
                                     /\ Cardinality(Named(F, U)) = Cardinality(U)
           /\ \A S \in FolderSets(row) : \E U \in NonEmpty(n) : S = Named(F, U)
  <1> DEFINE N == NearestDocs(row)
             firsts == {d[1] : d \in N}
             sets == (SUBSET firsts) \ {{}}
  <1>0. sets = FolderSets(row)
    BY DEF FolderSets
  <1>1. ASSUME NEW U \in NonEmpty(n)
        PROVE  Named(F, U) \in sets /\ Cardinality(Named(F, U)) = Cardinality(U)
    <2>1. U \in SUBSET (1 .. n) /\ U # {}
      BY DEF NonEmpty
    <2>2. Cardinality(Named(F, U)) = Cardinality(U)
      <3>1. n \in Nat /\ \A i, k \in 1 .. n : F[i] = F[k] => i = k
        BY DEF NamesOnce
      <3> QED
        BY <2>1, <3>1, ImageSize DEF Named
    <2>3. \A i \in U : F[i] \in firsts
      BY <2>1 DEF NamesOnce
    <2>4. \A x \in Named(F, U) : \E i \in U : x = F[i]
      BY DEF Named
    <2>5. \E x : x \in Named(F, U)
      <3>1. PICK i : i \in U
        BY <2>1
      <3>2. F[i] \in Named(F, U)
        BY <3>1 DEF Named
      <3> QED
        BY <3>2
    <2> HIDE DEF firsts
    <2> QED
      BY <2>2, <2>3, <2>4, <2>5
  <1>2. ASSUME NEW S \in sets
        PROVE  \E U \in NonEmpty(n) : S = Named(F, U)
    <2> DEFINE V == {i \in 1 .. n : F[i] \in S}
    <2>1. S \in SUBSET firsts /\ S # {}
      BY <1>2
    <2>2. \A s \in firsts : \E i \in 1 .. n : s = F[i]
      BY DEF NamesOnce
    <2> HIDE DEF firsts
    <2>3. \A s \in S : \E i \in V : s = F[i]
      BY <2>1, <2>2
    <2>4. V \in SUBSET (1 .. n) /\ \A i \in V : F[i] \in S
      OBVIOUS
    <2> HIDE DEF V
    <2>5. S = Named(F, V)
      BY <2>3, <2>4 DEF Named
    <2>6. V # {}
      BY <2>1, <2>3
    <2> QED
      BY <2>4, <2>5, <2>6 DEF NonEmpty
  <1> QED
    BY <1>0, <1>1, <1>2

FolderTotals(F, n, row) ==
    [i \in 1 .. n |-> Total({d \in NearestDocs(row) : d[1] = F[i]})]

\* The sums the search is given, and how far it misses the amount.
LEMMA FolderSums ==
    ASSUME NEW row \in [day : Nat, amount : Nat], NEW F, NEW n,
           NamesOnce(F, n, NearestDocs(row))
    PROVE  LET sums == FolderTotals(F, n, row)
           IN /\ sums \in Seq(Nat) /\ Len(sums) = n
              /\ \A U \in SUBSET (1 .. n) :
                    Off(sums, U, row.amount) = Miss(Named(F, U), row)
  <1> DEFINE sums == FolderTotals(F, n, row)
             N == NearestDocs(row)
             f == [x \in Listed |-> Amount(x[2])]
  <1>1. IsFiniteSet(N) /\ \A d \in N : f[d] \in Nat
    BY NearestTypes
  <1>2. \A D : Total(D) = SumFunctionOnSet(f, D)
    BY DEF Total
  <1> HIDE DEF f
  <1>3. sums = [i \in 1 .. n |-> Total(Part(N, F, {i}))]
    <2>1. \A i \in 1 .. n : {d \in N : d[1] = F[i]} = Part(N, F, {i})
      BY DEF Part
    <2> QED
      BY <2>1 DEF FolderTotals
  <1>4. \A U : Part(N, F, U) \in SUBSET N
    BY DEF Part
  <1> HIDE DEF N, sums
  <1>5. \A D \in SUBSET N : SumFunctionOnSet(f, D) \in Nat
    BY <1>1, SumIs
  <1>6. \A i \in 1 .. n : sums[i] = SumFunctionOnSet(f, Part(N, F, {i})) /\ sums[i] \in Nat
    BY <1>2, <1>3, <1>4, <1>5
  <1>7. sums \in Seq(Nat) /\ Len(sums) = n
    <2>1. sums = [i \in 1 .. n |-> sums[i]]
      BY <1>3
    <2>2. n \in Nat /\ \A i \in 1 .. n : sums[i] \in Nat
      BY <1>6 DEF NamesOnce
    <2>3. sums \in [1 .. n -> Nat]
      BY <2>1, <2>2
    <2> QED
      BY <2>2, <2>3
  <1>8. PartSums(sums, f, N, F, n)
    BY <1>1, <1>6 DEF PartSums, NamesOnce
  <1>9. ASSUME NEW U \in SUBSET (1 .. n)
        PROVE  Off(sums, U, row.amount) = Miss(Named(F, U), row)
    <2>1. SumFunctionOnSet(sums, U) = SumFunctionOnSet(f, Part(N, F, U))
      BY <1>8, SumOfParts
    <2>2. Part(N, F, U) = Within(Named(F, U), row)
      BY DEF N, Part, Within, Named
    <2>3. SumFunctionOnSet(sums, U) = Total(Within(Named(F, U), row))
      BY <1>2, <2>1, <2>2
    <2> QED
      BY <2>3 DEF Off, Miss
  <1> QED
    BY <1>7, <1>9 DEF sums

\* What the search returns for the sums of the folders F explains the amount.
LEMMA BestExplains ==
    ASSUME NEW row \in [day : Nat, amount : Nat], NEW F, NEW n, n # 0,
           NamesOnce(F, n, NearestDocs(row))
    PROVE  LET best == BestSubsetMatch(FolderTotals(F, n, row), row.amount)
           IN /\ best \in SUBSET (1 .. n)
              /\ Named(F, best) \in FolderSets(row)
              /\ Explains(Named(F, best), row)
  <1> DEFINE target == row.amount
             sums == FolderTotals(F, n, row)
             best == BestSubsetMatch(sums, target)
             all == NonEmpty(n)
             exact == {U \in all : Off(sums, U, target) <= Tolerance}
             close == {T \in FolderSets(row) : Miss(T, row) <= Tolerance}
             Nearer(S, T) == \/ Miss(S, row) < Miss(T, row)
                             \/ (Miss(S, row) = Miss(T, row)
                                 /\ Cardinality(S) <= Cardinality(T))
  <1>1. target \in Nat
    OBVIOUS
  <1>2. /\ sums \in Seq(Nat) /\ Len(sums) = n
        /\ \A U \in SUBSET (1 .. n) : Off(sums, U, target) = Miss(Named(F, U), row)
    BY FolderSums
  <1>3. /\ \A U \in all : /\ Named(F, U) \in FolderSets(row)
                          /\ Cardinality(Named(F, U)) = Cardinality(U)
        /\ \A S \in FolderSets(row) : \E U \in all : S = Named(F, U)
    BY FolderImages
  <1>4. BestSet(best, sums, target)
    <2>1. sums # <<>>
      BY <1>2
    <2> HIDE DEF target, sums
    <2> QED
      BY <1>1, <1>2, <2>1, BestSubsetMatchIs
  <1>5. \A U \in all : U \in SUBSET (1 .. n)
    BY DEF NonEmpty
  <1>6. \A U \in all : Off(sums, U, target) = Miss(Named(F, U), row)
    BY <1>2, <1>5
  <1> HIDE DEF sums, best, target
  <1>7. /\ best \in all
        /\ exact # {} => best \in exact /\ \A U \in exact : Cardinality(best) <= Cardinality(U)
        /\ exact = {} => \A U \in all : Closer(best, U, sums, target)
    BY <1>2, <1>4 DEF BestSet
  <1> HIDE DEF all
  <1>8. Explains(Named(F, best), row) <=>
            IF close # {}
            THEN Named(F, best) \in close
                 /\ \A T \in close : Cardinality(Named(F, best)) <= Cardinality(T)
            ELSE \A T \in FolderSets(row) : Nearer(Named(F, best), T)
    BY DEF Explains
  <1>9. Explains(Named(F, best), row)
    <2>1. CASE close # {}
      <3>1. \A T \in close : \E U \in exact : T = Named(F, U)
        BY <1>3, <1>6
      <3>2. \A U \in exact : Named(F, U) \in close /\ U \in all
        BY <1>3, <1>6
      <3>3. exact # {}
        BY <2>1, <3>1
      <3>4. best \in exact /\ \A U \in exact : Cardinality(best) <= Cardinality(U)
        BY <1>7, <3>3
      <3> HIDE DEF close, exact
      <3>5. \A T \in close : Cardinality(Named(F, best)) <= Cardinality(T)
        BY <1>3, <3>1, <3>2, <3>4
      <3> QED
        BY <1>8, <2>1, <3>2, <3>4, <3>5
    <2>2. CASE close = {}
      <3>1. exact = {}
        BY <1>3, <1>6, <2>2
      <3>2. \A U \in all : Nearer(Named(F, best), Named(F, U))
        BY <1>3, <1>6, <1>7, <3>1 DEF Closer
      <3> HIDE DEF close, Nearer
      <3> QED
        BY <1>3, <1>8, <2>2, <3>2
    <2> QED
      BY <2>1, <2>2
  <1> QED
    BY <1>3, <1>5, <1>7, <1>9 DEF best, sums, target

\* The combination of a row for which every place has been listed is the one
\* ReportIsBest asks for.
LEMMA MatchExplains ==
    ASSUME NEW row \in [day : Nat, amount : Nat], NEW lost, lost = Lost(row)
    PROVE  LET c == Match(row, EveryCandidate, lost)
           IN \/ c.fault = "no extract" /\ NearestDocs(row) = {}
              \/ /\ c.fault = "none"
                 /\ \E S \in FolderSets(row) : Explains(S, row) /\ c.docs = Within(S, row)
  <1> DEFINE all == EveryCandidate
             N == NearestDocs(row)
             dates  == {FileDate(d[2]) : d \in all}
             anchor == Anchor(dates, row.day)
             OfFolder(p) == {d \in all \ lost : /\ d[1] = p /\ FileDate(d[2]) = anchor
                                                /\ Amount(d[2]) # None}
             F == Picked(ScanOrder, {i \in DOMAIN ScanOrder : OfFolder(ScanOrder[i]) # {}})
             n == Len(F)
             sums == [i \in DOMAIN F |-> Total(OfFolder(F[i]))]
             best == BestSubsetMatch(sums, row.amount)
             docs == UNION {OfFolder(F[i]) : i \in best}
  <1>1. Match(row, all, lost) =
          IF dates = {} \/ F = <<>> THEN Fail("no extract", lost)
          ELSE [fault |-> "none", docs |-> docs, early |-> row.day < anchor,
                lost |-> lost]
    BY DEF Match
  <1>2. CASE all = {}
    <2>1. N = {}
      BY <1>2, NearestIs
    <2>2. dates = {}
      BY <1>2
    <2> HIDE DEF dates, F, docs, anchor, N, all
    <2>3. Match(row, all, lost) = Fail("no extract", lost)
      BY <1>1, <2>2
    <2>4. Fail("no extract", lost).fault = "no extract"
      BY DEF Fail
    <2>5. Match(row, all, lost).fault = "no extract" /\ NearestDocs(row) = {}
      BY <2>1, <2>3, <2>4 DEF N
    <2> QED
      BY <2>5 DEF all
  <1>3. CASE all # {}
    <2>1. /\ N = {d \in all \ lost : FileDate(d[2]) = anchor /\ Amount(d[2]) # None}
          /\ dates # {}
      BY <1>3, NearestIs
    <2>2. \A p : OfFolder(p) = {d \in N : d[1] = p}
      BY <2>1
    <2>3. N \in SUBSET EveryCandidate
      BY NearestTypes
    <2> HIDE DEF OfFolder, dates, anchor
    <2>4. F = Picked(ScanOrder, {i \in DOMAIN ScanOrder : {d \in N : d[1] = ScanOrder[i]} # {}})
      BY <2>2
    <2>5. /\ F \in Seq(Places) /\ n \in Nat /\ DOMAIN F = 1 .. n
          /\ NamesOnce(F, n, N)
      <3> DEFINE at == {i \in DOMAIN ScanOrder : {d \in N : d[1] = ScanOrder[i]} # {}}
                 G == Picked(ScanOrder, at)
      <3> HIDE DEF N
      <3>1. /\ G \in Seq(Places) /\ Len(G) \in Nat /\ DOMAIN G = 1 .. Len(G)
            /\ \A i, k \in 1 .. Len(G) : G[i] = G[k] => i = k
            /\ \A d \in N : \E i \in 1 .. Len(G) : d[1] = G[i]
            /\ \A i \in 1 .. Len(G) : \E d \in N : d[1] = G[i]
        BY <2>3, FoldersAre
      <3>2. F = G
        BY <2>4
      <3> HIDE DEF F, G
      <3> QED
        BY <3>1, <3>2 DEF NamesOnce
    <2>6. sums = FolderTotals(F, n, row)
      <3>1. sums = [i \in 1 .. n |-> Total({d \in N : d[1] = F[i]})]
        BY <2>2, <2>5
      <3> QED
        BY <3>1 DEF FolderTotals
    <2>7. docs = Within(Named(F, best), row)
      <3>1. docs = UNION {{d \in N : d[1] = F[i]} : i \in best}
        BY <2>2
      <3>2. Within(Named(F, best), row) = {d \in N : \E i \in best : d[1] = F[i]}
        BY DEF Within, Named
      <3> HIDE DEF docs, N, F, best
      <3> QED
        BY <3>1, <3>2
    <2> HIDE DEF F, docs
    <2>8. CASE F = <<>>
      <3>1. N = {}
        BY <2>5, <2>8 DEF NamesOnce
      <3>2. Match(row, all, lost) = Fail("no extract", lost)
        BY <1>1, <2>8
      <3>3. Fail("no extract", lost).fault = "no extract"
        BY DEF Fail
      <3> HIDE DEF all, N
      <3>4. Match(row, all, lost).fault = "no extract" /\ NearestDocs(row) = {}
        BY <3>1, <3>2, <3>3 DEF N
      <3> QED
        BY <3>4 DEF all
    <2>9. CASE F # <<>>
      <3>1. n # 0
        BY <2>5, <2>9
      <3>2. Named(F, best) \in FolderSets(row) /\ Explains(Named(F, best), row)
        <4> HIDE DEF n, sums
        <4> QED
          BY <2>5, <2>6, <3>1, BestExplains
      <3>3. /\ Match(row, all, lost).fault = "none"
            /\ Match(row, all, lost).docs = Within(Named(F, best), row)
        <4> DEFINE c == [fault |-> "none", docs |-> docs, early |-> row.day < anchor,
                lost |-> lost]
        <4>1. c.fault = "none" /\ c.docs = docs
          OBVIOUS
        <4> HIDE DEF c
        <4>2. Match(row, all, lost) = c
          BY <1>1, <2>1, <2>9 DEF c
        <4> QED
          BY <2>7, <4>1, <4>2
      <3> HIDE DEF best
      <3> QED
        BY <3>2, <3>3
    <2> QED
      BY <2>8, <2>9
  <1> QED
    BY <1>2, <1>3

-----------------------------------------------------------------------------
(***************************************************************************)
(* The answers while accounting leaves the tree alone.                     *)
(***************************************************************************)
\* The combination of the row i, whatever of its extracts was lost.
Combined(c, i) ==
    \E lost \in SUBSET Listed : c \in {Fail("raised", {}), Match(Rows[i], EveryCandidate, lost)}

BestInv ==
    moves = 0 =>
        /\ found = UNION {Candidates(ScanOrder[k]) : k \in 1 .. scanned}
        /\ \A i \in DOMAIN answers : /\ cache[Rows[i].day] # None
                                     /\ answers[i] = Verdict(Rows[i], cache[Rows[i].day])
        /\ \A d \in Days : cache[d] # None => \E i \in DOMAIN Rows :
              /\ i <= Len(answers) + 1 /\ Rows[i].day = d /\ FirstOfItsDay(i)
              /\ Combined(cache[d], i)

LEMMA SameCandidates ==
    ASSUME UNCHANGED treeVars
    PROVE  (\A p : Candidates(p)' = Candidates(p)) /\ EveryCandidate' = EveryCandidate
  <1>1. \A p : Candidates(p)' = Candidates(p)
    BY DEF treeVars, Candidates, DocsAt
  <1> QED
    BY <1>1 DEF EveryCandidate

LEMMA BestInit == InitReport => BestInv
  <1> SUFFICES ASSUME InitReport PROVE BestInv
    OBVIOUS
  <1>1. answers = <<>> /\ cache = [d \in Days |-> None] /\ scanned = 0 /\ found = {}
    BY DEF InitReport
  <1>2. {Candidates(ScanOrder[k]) : k \in 1 .. scanned} = {}
    BY <1>1
  <1> QED
    BY <1>1, <1>2 DEF BestInv

\* A row whose day has no combination yet is the first of its day.
LEMMA TurnIsFirst ==
    ASSUME BookInv, BestInv, moves = 0, Len(answers) < Len(Rows), cache[Turn.day] = None
    PROVE  FirstOfItsDay(Len(answers) + 1)
  <1>1. answers \in Seq(Answer) /\ Turn = Rows[Len(answers) + 1]
    BY TurnIs DEF BookInv, BookTypeOK, ReportTypeOK
  <1>2. \A j \in 1 .. Len(answers) : cache[Rows[j].day] # None
    BY <1>1 DEF BestInv
  <1> QED
    BY <1>1, <1>2 DEF FirstOfItsDay

\* A combination kept for the day of the row in turn.
LEMMA BestKept ==
    ASSUME BookInv, BestInv, moves = 0, UNCHANGED treeVars,
           Len(answers) < Len(Rows), cache[Turn.day] = None,
           NEW c, Combined(c, Len(answers) + 1),
           cache' = [cache EXCEPT ![Turn.day] = c], scanned' = 0, found' = {},
           UNCHANGED answers
    PROVE  BestInv'
  <1> DEFINE turn == Len(answers) + 1
  <1>1. /\ answers \in Seq(Answer) /\ cache \in [Days -> Combination \cup {None}]
        /\ turn \in DOMAIN Rows /\ Turn = Rows[turn] /\ Turn.day \in Days
    BY TurnIs DEF BookInv, BookTypeOK, ReportTypeOK
  <1>2. FirstOfItsDay(turn)
    BY TurnIsFirst
  <1>3. EveryCandidate' = EveryCandidate
    BY SameCandidates
  <1>4. \A d \in Days : cache'[d] = IF d = Turn.day THEN c ELSE cache[d]
    BY <1>1
  <1>5. found' = UNION {Candidates(ScanOrder[k])' : k \in 1 .. scanned'}
    OBVIOUS
  <1>6. \A i \in DOMAIN answers' : /\ cache'[Rows[i].day] # None
                                   /\ answers'[i] = Verdict(Rows[i], cache'[Rows[i].day])
    <2>1. \A i \in DOMAIN answers : i \in DOMAIN Rows /\ Rows[i].day \in Days
      BY <1>1, RowTypes DEF BookInv
    <2> QED
      BY <1>4, <2>1 DEF BestInv
  <1>7. ASSUME NEW d \in Days, cache'[d] # None
        PROVE  \E i \in DOMAIN Rows :
                 /\ i <= Len(answers) + 1 /\ Rows[i].day = d /\ FirstOfItsDay(i)
                 /\ Combined(cache'[d], i)
    <2>1. CASE d = Turn.day
      <3>1. cache'[d] = c /\ turn <= Len(answers) + 1 /\ Combined(c, turn)
        BY <1>1, <1>4, <2>1
      <3> HIDE DEF turn
      <3> QED
        BY <1>1, <1>2, <2>1, <3>1
    <2>2. CASE d # Turn.day
      BY <1>4, <1>7, <2>2 DEF BestInv
    <2> QED
      BY <2>1, <2>2
  <1>8. \A i : FirstOfItsDay(i)' = FirstOfItsDay(i)
    BY DEF FirstOfItsDay
  <1>9. \A i \in DOMAIN Rows : \A d : Combined(cache[d], i)' = Combined(cache'[d], i)
    BY <1>3 DEF Combined
  <1> QED
    BY <1>3, <1>5, <1>6, <1>7, <1>8, <1>9 DEF BestInv

LEMMA BestReport ==
    ASSUME BookInv, BestInv, ReportNext, UNCHANGED treeVars
    PROVE  BestInv'
  <1> SUFFICES ASSUME moves = 0 PROVE BestInv'
    BY DEF BestInv, treeVars
  <1>1. /\ answers \in Seq(Answer) /\ cache \in [Days -> Combination \cup {None}]
        /\ scanned \in 0 .. Len(ScanOrder) /\ Len(ScanOrder) \in Nat
    BY ScanOrderIs DEF BookInv, BookTypeOK, ReportTypeOK
  <1>2. \A p : Candidates(p)' = Candidates(p)
    BY SameCandidates
  <1>3. EveryCandidate' = EveryCandidate
    BY SameCandidates
  <1>4. CASE ScanFolder
    <2>1. /\ UNCHANGED <<answers, cache>> /\ scanned' = scanned + 1
          /\ found' = found \cup Candidates(ScanOrder[scanned + 1])
      BY <1>4 DEF ScanFolder
    <2>2. 1 .. scanned' = (1 .. scanned) \cup {scanned + 1}
      BY <1>1, <2>1
    <2>3. found = UNION {Candidates(ScanOrder[k]) : k \in 1 .. scanned}
      BY DEF BestInv
    <2>4. found' = UNION {Candidates(ScanOrder[k]) : k \in 1 .. scanned'}
      BY <2>1, <2>2, <2>3
    <2>5. \A i \in DOMAIN Rows : \A d : Combined(cache[d], i)' = Combined(cache'[d], i)
      BY <1>3 DEF Combined
    <2> QED
      BY <1>2, <1>3, <2>1, <2>4, <2>5 DEF BestInv, FirstOfItsDay
  <1>5. CASE ScanFails
    <2>1. Combined(Fail("raised", {}), Len(answers) + 1)
      BY DEF Combined
    <2> QED
      BY <1>5, <2>1, BestKept DEF ScanFails
  <1>6. CASE MatchRow
    <2>1. found = EveryCandidate
      <3>1. found = UNION {Candidates(ScanOrder[k]) : k \in 1 .. Len(ScanOrder)}
        BY <1>6 DEF MatchRow, BestInv
      <3> QED
        BY <3>1, ScanOrderOnce DEF EveryCandidate, Range
    <2>2. PICK lost \in SUBSET found :
                  cache' = [cache EXCEPT ![Turn.day] = Match(Turn, found, lost)]
      BY <1>6 DEF MatchRow
    <2>3. Combined(Match(Turn, EveryCandidate, lost), Len(answers) + 1)
      <3>1. lost \in SUBSET Listed /\ Turn = Rows[Len(answers) + 1]
        BY <2>1, EveryCandidateIs DEF Turn
      <3> QED
        BY <3>1 DEF Combined
    <2> QED
      BY <1>6, <2>1, <2>2, <2>3, BestKept DEF MatchRow
  <1>7. CASE AnswerRow
    <2>1. /\ cache[Turn.day] # None /\ UNCHANGED <<cache, scanned, found>>
          /\ answers' = Append(answers, Verdict(Turn, cache[Turn.day]))
          /\ Len(answers) < Len(Rows)
      BY <1>7 DEF AnswerRow
    <2>2. Turn = Rows[Len(answers) + 1]
      BY DEF Turn
    <2>3. /\ Len(answers') = Len(answers) + 1 /\ DOMAIN answers' = 1 .. Len(answers) + 1
          /\ \A i \in 1 .. Len(answers) : answers'[i] = answers[i]
          /\ answers'[Len(answers) + 1] = Verdict(Turn, cache[Turn.day])
      BY <1>1, <2>1
    <2>4. \A i \in DOMAIN answers' : /\ cache'[Rows[i].day] # None
                                     /\ answers'[i] = Verdict(Rows[i], cache'[Rows[i].day])
      BY <1>1, <2>1, <2>2, <2>3 DEF BestInv
    <2>5. \A i \in DOMAIN Rows : i <= Len(answers) + 1 => i <= Len(answers') + 1
      BY <1>1, <2>3, RowTypes
    <2>6. \A d \in Days : cache'[d] # None => \E i \in DOMAIN Rows :
              /\ i <= Len(answers') + 1 /\ Rows[i].day = d /\ FirstOfItsDay(i)
              /\ Combined(cache'[d], i)
      BY <2>1, <2>5 DEF BestInv
    <2>7. found' = UNION {Candidates(ScanOrder[k]) : k \in 1 .. scanned'}
      BY <2>1 DEF BestInv
    <2>8. \A i \in DOMAIN Rows : \A d : Combined(cache[d], i)' = Combined(cache'[d], i)
      BY <1>3 DEF Combined
    <2> QED
      BY <1>2, <1>3, <2>4, <2>6, <2>7, <2>8 DEF BestInv, FirstOfItsDay
  <1> QED
    BY <1>4, <1>5, <1>6, <1>7 DEF ReportNext

LEMMA BestStays ==
    ASSUME BestInv, UNCHANGED <<treeVars, reportVars>>
    PROVE  BestInv'
  <1>1. (\A p : Candidates(p)' = Candidates(p)) /\ EveryCandidate' = EveryCandidate
    BY SameCandidates
  <1>2. \A i \in DOMAIN Rows : \A d : Combined(cache[d], i)' = Combined(cache'[d], i)
    BY <1>1 DEF Combined
  <1> QED
    BY <1>1, <1>2 DEF BestInv, FirstOfItsDay, reportVars, treeVars

LEMMA BestBookStep ==
    ASSUME BookInv, BestInv, BookNext, UNCHANGED treeVars
    PROVE  BestInv'
  <1>1. CASE AnswerReport
    BY <1>1, BestReport DEF AnswerReport
  <1>2. CASE UNCHANGED reportVars
    BY <1>2, BestStays
  <1> QED
    BY <1>1, <1>2 DEF BookNext, OpenReport, PutReport, GetToClear, PutCleared, GetToMail,
                      SendMail

LEMMA BestMove == TreeInv /\ Move => BestInv'
  BY DEF TreeInv, Move, BestInv

\* Two rows of a day that are both its first one are the same row.
LEMMA OneFirst ==
    ASSUME NEW i \in Nat, NEW j \in Nat, i >= 1, j >= 1, Rows[i].day = Rows[j].day,
           FirstOfItsDay(i), FirstOfItsDay(j)
    PROVE  i = j
  <1>1. i <= j
    BY DEF FirstOfItsDay
  <1>2. j <= i
    BY DEF FirstOfItsDay
  <1> QED
    BY <1>1, <1>2

LEMMA BestAnswers == BookInv /\ BestInv => ReportIsBest
  <1> SUFFICES ASSUME BookInv, BestInv, moves = 0, NEW i \in DOMAIN answers
               PROVE  LET row == Rows[i]
                      IN CASE answers[i].observacion = "raised" -> answers[i].validado = "NO"
                           [] answers[i].observacion = "no extract" -> NearestDocs(row) = {}
                           [] OTHER ->
                                /\ FirstOfItsDay(i) =>
                                      \E S \in FolderSets(row) :
                                          Explains(S, row) /\ answers[i].rutas = Within(S, row)
                                /\ answers[i].validado = "SI"
                                   <=> row.amount >= Total(answers[i].rutas)
    BY DEF ReportIsBest
  <1> DEFINE row == Rows[i]
             c == cache[row.day]
  <1>1. answers \in Seq(Answer) /\ i \in DOMAIN Rows /\ i \in Nat /\ i >= 1
    BY RowTypes DEF BookInv, BookTypeOK, ReportTypeOK
  <1>2. row \in [day : Nat, amount : Nat] /\ row.day \in Days
    BY <1>1, RowTypes
  <1>3. c # None /\ answers[i] = Verdict(row, c)
    BY DEF BestInv
  <1>4. PICK j \in DOMAIN Rows :
              /\ Rows[j].day = row.day /\ FirstOfItsDay(j)
              /\ Combined(c, j)
    BY <1>2, <1>3 DEF BestInv
  <1>5. /\ answers[i].observacion = c.fault /\ answers[i].rutas = c.docs
        /\ answers[i].validado = IF c.fault = "none" /\ row.amount >= Total(c.docs)
                                 THEN "SI" ELSE "NO"
    BY <1>3 DEF Verdict
  <1>6. Rows[j] \in [day : Nat, amount : Nat] /\ j \in Nat /\ j >= 1
    <2>1. DOMAIN Rows = 1 .. Len(Rows)
      BY RowTypes
    <2> QED
      BY <2>1, RowTypes
  <1>7. NearestDocs(Rows[j]) = NearestDocs(row)
    BY <1>4 DEF NearestDocs, Lost
  <1>8. FirstOfItsDay(i) => i = j
    BY <1>1, <1>4, <1>6, OneFirst
  <1>11. Lost(Rows[j]) = c.lost
    BY <1>3, <1>4 DEF Lost
  <1> HIDE DEF c
  <1>9. CASE c = Fail("raised", {})
    <2>1. c.fault = "raised"
      BY <1>9 DEF Fail
    <2> QED
      BY <1>5, <2>1
  <1>10. ASSUME NEW lost \in SUBSET Listed,
                c = Match(Rows[j], EveryCandidate, lost)
         PROVE  CASE answers[i].observacion = "raised" -> answers[i].validado = "NO"
                  [] answers[i].observacion = "no extract" -> NearestDocs(row) = {}
                  [] OTHER ->
                       /\ FirstOfItsDay(i) =>
                             \E S \in FolderSets(row) :
                                 Explains(S, row) /\ answers[i].rutas = Within(S, row)
                       /\ answers[i].validado = "SI"
                          <=> row.amount >= Total(answers[i].rutas)
    <2>0. lost = Lost(Rows[j])
      BY <1>10, <1>11, MatchLost
    <2>1. \/ c.fault = "no extract" /\ NearestDocs(Rows[j]) = {}
          \/ /\ c.fault = "none"
             /\ \E S \in FolderSets(Rows[j]) :
                   Explains(S, Rows[j]) /\ c.docs = Within(S, Rows[j])
      BY <1>6, <1>10, <2>0, MatchExplains
    <2>2. CASE c.fault = "no extract" /\ NearestDocs(Rows[j]) = {}
      BY <1>5, <1>7, <2>2
    <2>3. CASE /\ c.fault = "none"
               /\ \E S \in FolderSets(Rows[j]) :
                     Explains(S, Rows[j]) /\ c.docs = Within(S, Rows[j])
      <3>1. FirstOfItsDay(i) => \E S \in FolderSets(row) :
                                   Explains(S, row) /\ answers[i].rutas = Within(S, row)
        BY <1>5, <1>8, <2>3
      <3>2. answers[i].validado = "SI" <=> row.amount >= Total(answers[i].rutas)
        BY <1>5, <2>3
      <3>3. answers[i].observacion = "none"
        BY <1>5, <2>3
      <3> QED
        BY <3>1, <3>2, <3>3
    <2> QED
      BY <2>1, <2>2, <2>3
  <1> QED
    BY <1>4, <1>9, <1>10 DEF Combined
=============================================================================
