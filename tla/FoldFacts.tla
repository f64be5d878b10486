------------------------------ MODULE FoldFacts ------------------------------
(***************************************************************************)
(* What the folds of the community modules compute: the sum of a function  *)
(* over a finite set, whatever order is chosen, and a list put together    *)
(* again from its pages; and lists of all numbers of a set, in descending  *)
(* order.  The facts are proved by taking a smallest set or a smallest     *)
(* number for which they fail.                                             *)
(***************************************************************************)
EXTENDS SequencesExt, FiniteSetsExt, Functions, SequenceTheorems, FiniteSetTheorems,
        WellFoundedInduction, TLAPS

-----------------------------------------------------------------------------
(* Sums.                                                                   *)

\* The element a fold takes first.
First(s) == CHOOSE x \in s : TRUE
\* g sums f over each subset of S in the order of the folds.
Sums(f, S, g) == g = [s \in SUBSET S |-> IF s = {} THEN 0 ELSE f[First(s)] + g[s \ {First(s)}]]

LEMMA FirstIsIn ==
  ASSUME NEW s, s # {}
  PROVE  First(s) \in s
BY DEF First

\* Induction over finite sets, as the existence of a smallest set.
LEMMA SmallestSet ==
  ASSUME NEW F, F # {}, \A T \in F : IsFiniteSet(T)
  PROVE  \E T \in F : \A U \in F : ~(U \subseteq T /\ U # T)
<1> DEFINE before == {ss \in Nat \X Nat : ss[1] < ss[2]}
           sizes == {Cardinality(T) : T \in F}
<1>1. IsWellFoundedOn(before, Nat)
  BY NatLessThanWellFounded DEF OpToRel
<1>2. sizes \subseteq Nat /\ sizes # {}
  BY FS_CardinalityType
<1>3. PICK n \in sizes : \A m \in sizes : <<m, n>> \notin before
  <2> HIDE DEF before, sizes
  <2> QED BY <1>1, <1>2, WFMin
<1>4. PICK T \in F : n = Cardinality(T)
  BY <1>3
<1>5. ASSUME NEW U \in F, U \subseteq T, U # T PROVE FALSE
  <2>1. Cardinality(U) \in Nat /\ Cardinality(T) \in Nat /\ Cardinality(U) \in sizes
    BY <1>5, FS_CardinalityType
  <2>2. Cardinality(U) <= Cardinality(T) /\ Cardinality(U) # Cardinality(T)
    BY <1>5, FS_Subset
  <2>3. Cardinality(U) < Cardinality(T)
    BY <2>1, <2>2
  <2>4. <<Cardinality(U), Cardinality(T)>> \in before
    BY <2>1, <2>3
  <2> QED BY <1>3, <1>4, <2>1, <2>4
<1> QED BY <1>4, <1>5

LEMMA SumsAgree ==
  ASSUME NEW f, NEW S, IsFiniteSet(S), NEW T \in SUBSET S, NEW g, Sums(f, S, g), NEW h, Sums(f, T, h)
  PROVE  \A s \in SUBSET T : g[s] = h[s]
<1> DEFINE F == {s \in SUBSET T : g[s] # h[s]}
<1>1. SUFFICES ASSUME F # {} PROVE FALSE
  OBVIOUS
<1>2. \A s \in F : IsFiniteSet(s)
  BY FS_Subset
<1>3. PICK s \in F : \A U \in F : ~(U \subseteq s /\ U # s)
  <2> HIDE DEF F
  <2> QED BY <1>1, <1>2, SmallestSet
<1>4. s \in SUBSET T /\ s \in SUBSET S /\ g[s] # h[s]
  OBVIOUS
<1>5. s # {}
  BY <1>4 DEF Sums
<1>6. First(s) \in s
  BY <1>5, FirstIsIn
<1>7. g[s \ {First(s)}] = h[s \ {First(s)}]
  BY <1>3, <1>4, <1>6
<1>8. g[s] = f[First(s)] + g[s \ {First(s)}]
  BY <1>4, <1>5 DEF Sums
<1>9. h[s] = f[First(s)] + h[s \ {First(s)}]
  BY <1>4, <1>5 DEF Sums
<1> QED BY <1>4, <1>7, <1>8, <1>9

LEMMA SumsRestrict ==
  ASSUME NEW f, NEW S, NEW T \in SUBSET S, NEW g, Sums(f, S, g), NEW h, h = [s \in SUBSET T |-> g[s]]
  PROVE  Sums(f, T, h)
<1>1. ASSUME NEW s \in SUBSET T, s # {} PROVE h[s] = f[First(s)] + h[s \ {First(s)}]
  <2>1. g[s] = f[First(s)] + g[s \ {First(s)}]
    BY <1>1 DEF Sums
  <2> QED BY <2>1
<1>2. h[{}] = 0
  BY DEF Sums
<1>3. h = [s \in SUBSET T |-> IF s = {} THEN 0 ELSE f[First(s)] + h[s \ {First(s)}]]
  BY <1>1, <1>2
<1> QED BY <1>3 DEF Sums

LEMMA SumsExist ==
  ASSUME NEW f, NEW S, IsFiniteSet(S)
  PROVE  \E g : Sums(f, S, g)
<1> DEFINE F == {T \in SUBSET S : ~\E g : Sums(f, T, g)}
<1>1. SUFFICES ASSUME F # {} PROVE FALSE
  OBVIOUS
<1>2. \A T \in F : IsFiniteSet(T)
  BY FS_Subset
<1>3. PICK T \in F : \A U \in F : ~(U \subseteq T /\ U # T)
  <2> HIDE DEF F
  <2> QED BY <1>1, <1>2, SmallestSet
<1>4. \A U \in SUBSET T : U # T => \E g : Sums(f, U, g)
  BY <1>3
<1> DEFINE sum(U) == CHOOSE g : Sums(f, U, g)
<1>5. \A U \in SUBSET T : U # T => Sums(f, U, sum(U))
  BY <1>4
<1> DEFINE g == [s \in SUBSET T |-> IF s = {} THEN 0 ELSE f[First(s)] + sum(s \ {First(s)})[s \ {First(s)}]]
<1>6. ASSUME NEW U \in SUBSET T, U # T PROVE g[U] = sum(U)[U]
  <2>1. Sums(f, U, sum(U))
    BY <1>5, <1>6
  <2>2. CASE U = {}
    BY <2>1, <2>2 DEF Sums
  <2>3. CASE U # {}
    <3> DEFINE V == U \ {First(U)}
    <3>1. First(U) \in U
      BY <2>3, FirstIsIn
    <3>2. V \in SUBSET U /\ V \in SUBSET T /\ V # T
      BY <1>6, <3>1
    <3>3. Sums(f, V, sum(V))
      BY <1>5, <3>2
    <3>4. IsFiniteSet(U)
      BY FS_Subset
    <3>5. sum(U)[V] = sum(V)[V]
      <4> HIDE DEF V, sum
      <4> QED BY <2>1, <3>2, <3>3, <3>4, SumsAgree
    <3>6. sum(U)[U] = f[First(U)] + sum(U)[V]
      BY <2>1, <2>3 DEF Sums
    <3>7. g[U] = f[First(U)] + sum(V)[V]
      BY <2>3
    <3> QED BY <3>5, <3>6, <3>7
  <2> QED BY <2>2, <2>3
<1>7. ASSUME NEW s \in SUBSET T, s # {} PROVE g[s] = f[First(s)] + g[s \ {First(s)}]
  <2>1. First(s) \in s
    BY <1>7, FirstIsIn
  <2>2. s \ {First(s)} \in SUBSET T /\ s \ {First(s)} # T
    BY <2>1
  <2>3. g[s \ {First(s)}] = sum(s \ {First(s)})[s \ {First(s)}]
    BY <1>6, <2>2
  <2> QED BY <1>7, <2>3
<1>8. g[{}] = 0
  OBVIOUS
<1>9. Sums(f, T, g)
  <2>1. PICK h : h = g
    OBVIOUS
  <2>2. \A s \in SUBSET T : s # {} => h[s] = f[First(s)] + h[s \ {First(s)}]
    BY <1>7, <2>1
  <2>3. h[{}] = 0 /\ h = [s \in SUBSET T |-> h[s]]
    BY <1>8, <2>1
  <2>4. h = [s \in SUBSET T |-> IF s = {} THEN 0 ELSE f[First(s)] + h[s \ {First(s)}]]
    BY <2>2, <2>3
  <2> QED BY <2>1, <2>4 DEF Sums
<1> QED BY <1>3, <1>9

-----------------------------------------------------------------------------

LEMMA SumIsAnyOfThem ==
  ASSUME NEW f, NEW S, IsFiniteSet(S), NEW g, Sums(f, S, g)
  PROVE  SumFunctionOnSet(f, S) = g[S]
<1>1. SumFunctionOnSet(f, S) = (CHOOSE h : Sums(f, S, h))[S]
  BY DEF SumFunctionOnSet, FoldFunctionOnSet, MapThenFoldSet, Sums, First
<1>2. PICK h : h = CHOOSE k : Sums(f, S, k)
  OBVIOUS
<1>3. Sums(f, S, h)
  BY <1>2
<1>4. g[S] = h[S]
  BY <1>3, SumsAgree
<1> QED BY <1>1, <1>2, <1>4

LEMMA SumOfNone ==
  ASSUME NEW f
  PROVE  SumFunctionOnSet(f, {}) = 0
<1>1. PICK g : Sums(f, {}, g)
  BY FS_EmptySet, SumsExist
<1>2. g[{}] = 0
  BY <1>1 DEF Sums
<1> QED BY <1>1, <1>2, FS_EmptySet, SumIsAnyOfThem

LEMMA SumOfSubset ==
  ASSUME NEW f, NEW S, IsFiniteSet(S), NEW g, Sums(f, S, g), NEW T \in SUBSET S
  PROVE  SumFunctionOnSet(f, T) = g[T]
<1>1. PICK h : h = [s \in SUBSET T |-> g[s]]
  OBVIOUS
<1>2. Sums(f, T, h)
  BY <1>1, SumsRestrict
<1>3. IsFiniteSet(T)
  BY FS_Subset
<1>4. h[T] = g[T]
  BY <1>1
<1> QED BY <1>2, <1>3, <1>4, SumIsAnyOfThem

LEMMA SumTakesFirst ==
  ASSUME NEW f, NEW S, IsFiniteSet(S), S # {}
  PROVE  SumFunctionOnSet(f, S) = f[First(S)] + SumFunctionOnSet(f, S \ {First(S)})
<1>1. PICK g : Sums(f, S, g)
  BY SumsExist
<1>2. g[S] = f[First(S)] + g[S \ {First(S)}]
  BY <1>1 DEF Sums
<1>3. SumFunctionOnSet(f, S) = g[S] /\ SumFunctionOnSet(f, S \ {First(S)}) = g[S \ {First(S)}]
  BY <1>1, SumOfSubset
<1> QED BY <1>2, <1>3

LEMMA SumIsNat ==
  ASSUME NEW f, NEW S, IsFiniteSet(S), \A x \in S : f[x] \in Nat
  PROVE  SumFunctionOnSet(f, S) \in Nat
<1> DEFINE F == {T \in SUBSET S : SumFunctionOnSet(f, T) \notin Nat}
<1>1. SUFFICES ASSUME F # {} PROVE FALSE
  OBVIOUS
<1>2. \A T \in F : IsFiniteSet(T)
  BY FS_Subset
<1>3. PICK T \in F : \A U \in F : ~(U \subseteq T /\ U # T)
  <2> HIDE DEF F
  <2> QED BY <1>1, <1>2, SmallestSet
<1>4. T # {}
  <2>1. SumFunctionOnSet(f, T) \notin Nat
    BY <1>3
  <2>2. SumFunctionOnSet(f, {}) = 0
    BY SumOfNone
  <2> QED BY <2>1, <2>2
<1>5. First(T) \in T
  BY <1>4, FirstIsIn
<1>6. SumFunctionOnSet(f, T \ {First(T)}) \in Nat
  BY <1>3, <1>5
<1>7. SumFunctionOnSet(f, T) = f[First(T)] + SumFunctionOnSet(f, T \ {First(T)})
  BY <1>2, <1>3, <1>4, SumTakesFirst
<1>8. f[First(T)] \in Nat
  BY <1>5
<1>9. SumFunctionOnSet(f, T) \in Nat
  BY <1>6, <1>7, <1>8
<1> QED BY <1>9

\* Whichever element is taken out, the rest sums to the rest.
LEMMA SumTakesOut ==
  ASSUME NEW f, NEW S, IsFiniteSet(S), \A x \in S : f[x] \in Nat, NEW x \in S
  PROVE  SumFunctionOnSet(f, S) = f[x] + SumFunctionOnSet(f, S \ {x})
<1> DEFINE F == {T \in SUBSET S : \E y \in T : SumFunctionOnSet(f, T) # f[y] + SumFunctionOnSet(f, T \ {y})}
<1>1. SUFFICES ASSUME F # {} PROVE FALSE
  OBVIOUS
<1>2. \A T \in F : IsFiniteSet(T)
  BY FS_Subset
<1>3. PICK T \in F : \A U \in F : ~(U \subseteq T /\ U # T)
  <2> HIDE DEF F
  <2> QED BY <1>1, <1>2, SmallestSet
<1>4. PICK y \in T : SumFunctionOnSet(f, T) # f[y] + SumFunctionOnSet(f, T \ {y})
  OBVIOUS
<1>5. PICK p \in T : p = First(T)
  BY <1>4, FirstIsIn
<1>6. IsFiniteSet(T) /\ T \in SUBSET S /\ SumFunctionOnSet(f, T) = f[p] + SumFunctionOnSet(f, T \ {p})
  BY <1>2, <1>5, SumTakesFirst
<1>7. p # y
  BY <1>4, <1>6
<1> DEFINE without(z) == T \ {z}
<1>8. ASSUME NEW z \in T, NEW w \in T, w # z
      PROVE  SumFunctionOnSet(f, T \ {z}) = f[w] + SumFunctionOnSet(f, (T \ {z}) \ {w})
  <2>1. T \ {z} \in SUBSET S /\ T \ {z} \subseteq T /\ T \ {z} # T /\ w \in T \ {z}
    BY <1>8
  <2>2. T \ {z} \notin F
    BY <1>3, <2>1
  <2> QED BY <2>1, <2>2
<1>9. (T \ {p}) \ {y} = (T \ {y}) \ {p}
  OBVIOUS
<1>10. SumFunctionOnSet(f, T \ {p}) = f[y] + SumFunctionOnSet(f, (T \ {p}) \ {y})
  BY <1>7, <1>8
<1>11. SumFunctionOnSet(f, T \ {y}) = f[p] + SumFunctionOnSet(f, (T \ {p}) \ {y})
  BY <1>7, <1>8, <1>9
<1>12. f[p] \in Nat /\ f[y] \in Nat /\ SumFunctionOnSet(f, (T \ {p}) \ {y}) \in Nat
  <2>1. IsFiniteSet((T \ {p}) \ {y}) /\ \A z \in (T \ {p}) \ {y} : f[z] \in Nat
    BY <1>6, FS_Subset
  <2>2. SumFunctionOnSet(f, (T \ {p}) \ {y}) \in Nat
    <3> PICK U : U = (T \ {p}) \ {y}
      OBVIOUS
    <3> QED BY <2>1, SumIsNat
  <2> QED BY <2>2
<1> QED BY <1>4, <1>6, <1>10, <1>11, <1>12

LEMMA SumPutsIn ==
  ASSUME NEW f, NEW S, IsFiniteSet(S), NEW x, x \notin S, \A y \in S \cup {x} : f[y] \in Nat
  PROVE  SumFunctionOnSet(f, S \cup {x}) = f[x] + SumFunctionOnSet(f, S)
<1>1. (S \cup {x}) \ {x} = S
  OBVIOUS
<1>2. PICK T : T = S \cup {x}
  OBVIOUS
<1>3. IsFiniteSet(T) /\ x \in T /\ \A y \in T : f[y] \in Nat
  BY <1>2, FS_AddElement
<1>4. SumFunctionOnSet(f, T) = f[x] + SumFunctionOnSet(f, T \ {x})
  BY <1>3, SumTakesOut
<1> QED BY <1>1, <1>2, <1>4
-----------------------------------------------------------------------------
(* Lists and their pages.                                                  *)

\* Induction over 0..n, as the existence of a greatest element.
LEMMA GreatestBelow ==
  ASSUME NEW n \in Nat, NEW F \in SUBSET (0..n), F # {}
  PROVE  \E k \in F : \A j \in F : j <= k
<1> DEFINE before == {ss \in Nat \X Nat : ss[1] < ss[2]}
           T == {n - k : k \in F}
<1>1. IsWellFoundedOn(before, Nat)
  BY NatLessThanWellFounded DEF OpToRel
<1>2. T \subseteq Nat /\ T # {}
  <2>1. \A k \in F : k \in 0..n /\ n - k \in Nat
    OBVIOUS
  <2> QED BY <2>1
<1>3. PICK m \in T : \A j \in T : <<j, m>> \notin before
  <2> HIDE DEF before, T
  <2> QED BY <1>1, <1>2, WFMin
<1>4. PICK k \in F : m = n - k
  BY <1>3
<1>5. ASSUME NEW j \in F PROVE j <= k
  <2>1. <<n - j, n - k>> \notin before
    BY <1>3, <1>4
  <2>a. j \in 0..n /\ k \in 0..n
    OBVIOUS
  <2>2. n - j \in Nat /\ n - k \in Nat /\ j \in Nat /\ k \in Nat
    BY <2>a
  <2>3. ~(n - j < n - k)
    BY <2>1, <2>2
  <2> QED BY <2>2, <2>3
<1> QED BY <1>5

LEMMA SmallestNumber ==
  ASSUME NEW F \in SUBSET Nat, F # {}
  PROVE  \E k \in F : \A j \in F : k <= j
<1> DEFINE before == {ss \in Nat \X Nat : ss[1] < ss[2]}
<1>1. IsWellFoundedOn(before, Nat)
  BY NatLessThanWellFounded DEF OpToRel
<1>2. PICK k \in F : \A j \in F : <<j, k>> \notin before
  <2> HIDE DEF before
  <2> QED BY <1>1, WFMin
<1>3. ASSUME NEW j \in F PROVE k <= j
  <2>1. <<j, k>> \notin before /\ j \in Nat /\ k \in Nat
    BY <1>2
  <2> QED BY <2>1
<1> QED BY <1>3

\* g puts the sequences together one after the other.
Flattens(seqs, g) == g = [i \in 1..Len(seqs) |-> IF i = 1 THEN seqs[i] ELSE g[i - 1] \o seqs[i]]

LEMMA FlattensAgree ==
  ASSUME NEW seqs, NEW k \in Nat, Len(seqs) = k, NEW g, Flattens(seqs, g), NEW h, Flattens(seqs, h)
  PROVE  \A i \in 1..k : g[i] = h[i]
<1> DEFINE F == {i \in 1..k : g[i] # h[i]}
<1>1. SUFFICES ASSUME F # {} PROVE FALSE
  OBVIOUS
<1>2. F \in SUBSET Nat
  OBVIOUS
<1>3. PICK i \in F : \A j \in F : i <= j
  <2> HIDE DEF F
  <2> QED BY <1>1, <1>2, SmallestNumber
<1>4. i \in 1..k /\ g[i] # h[i]
  OBVIOUS
<1>5. /\ g[i] = IF i = 1 THEN seqs[i] ELSE g[i - 1] \o seqs[i]
      /\ h[i] = IF i = 1 THEN seqs[i] ELSE h[i - 1] \o seqs[i]
  BY <1>4 DEF Flattens
<1>6. i # 1
  BY <1>4, <1>5
<1>7. i - 1 \in 1..k /\ ~(i <= i - 1)
  BY <1>4, <1>6
<1>8. g[i - 1] = h[i - 1]
  BY <1>3, <1>7
<1> QED BY <1>4, <1>5, <1>6, <1>8

LEMMA FlattenIs ==
  ASSUME NEW seqs, NEW k \in Nat \ {0}, Len(seqs) = k, NEW g, Flattens(seqs, g)
  PROVE  FlattenSeq(seqs) = g[k]
<1>1. FlattenSeq(seqs) = (CHOOSE h : Flattens(seqs, h))[k]
  BY DEF FlattenSeq, Flattens
<1>2. PICK h : h = CHOOSE f : Flattens(seqs, f)
  OBVIOUS
<1>3. Flattens(seqs, h)
  BY <1>2
<1>4. g[k] = h[k]
  BY <1>3, FlattensAgree
<1> QED BY <1>1, <1>2, <1>4

Lesser(a, b) == IF a < b THEN a ELSE b

\* The first m of a list and the next n together, whether or not there are so many.
LEMMA PrefixGrows ==
  ASSUME NEW S, NEW all \in Seq(S), NEW m \in Nat, NEW n \in Nat
  PROVE  SubSeq(all, 1, Lesser(m, Len(all))) \o SubSeq(all, m + 1, Lesser(m + n, Len(all)))
           = SubSeq(all, 1, Lesser(m + n, Len(all)))
<1>1. Len(all) \in Nat
  BY LenProperties
<1>2. CASE m >= Len(all)
  <2>1. Lesser(m, Len(all)) = Len(all) /\ Lesser(m + n, Len(all)) = Len(all)
    BY <1>1, <1>2 DEF Lesser
  <2>2. SubSeq(all, 1, Len(all)) = all
    BY SubSeqFull
  <2>3. SubSeq(all, m + 1, Len(all)) = << >>
    BY <1>1, <1>2, SubSeqEmpty
  <2>4. all \o << >> = all
    BY ConcatEmptySeq
  <2> QED BY <2>1, <2>2, <2>3, <2>4
<1>3. CASE ~(m >= Len(all))
  <2>1. /\ Lesser(m, Len(all)) = m /\ m \in 1 - 1..Len(all) /\ 1 \in 1..Len(all) + 1
        /\ Lesser(m + n, Len(all)) \in m..Len(all)
    BY <1>1, <1>3 DEF Lesser
  <2> QED BY <2>1, ConcatAdjacentSubSeq
<1> QED BY <1>2, <1>3

\* pages are k pages of a list; there are enough of them.
ArePages(pages, all, size, k) ==
  /\ k * size >= Len(all)
  /\ pages = [p \in 1..k |-> pages[p]]
  /\ \A p \in 1..k : pages[p] = SubSeq(all, (p - 1) * size + 1, Lesser(p * size, Len(all)))

\* Pages of a fixed size meet every entry of a list once, in its order, as soon as they
\* are enough; those past the end are empty.
LEMMA PagesMeetAll ==
  ASSUME NEW S, NEW all \in Seq(S), NEW size \in Nat, NEW k \in Nat, NEW pages, ArePages(pages, all, size, k)
  PROVE  FlattenSeq(pages) = all
<1> USE DEF ArePages
<1>0. Len(all) \in Nat
  BY LenProperties
<1>l. Len(pages) = k
  OBVIOUS
<1>1. CASE k = 0
  <2>1. Len(all) = 0
    BY <1>0, <1>1
  <2>2. all = << >>
    BY <2>1, EmptySeq
  <2>3. pages = << >>
    BY <1>1
  <2>4. FlattenSeq(pages) = pages
    BY <1>1, <1>l DEF FlattenSeq
  <2> QED BY <2>2, <2>3, <2>4
<1>2. CASE k # 0
  <2> DEFINE g == [i \in 1..k |-> SubSeq(all, 1, Lesser(i * size, Len(all)))]
  <2>1. ASSUME NEW i \in 1..k PROVE g[i] = IF i = 1 THEN pages[i] ELSE g[i - 1] \o pages[i]
    <3>1. PICK m : m = (i - 1) * size
      OBVIOUS
    <3>2. m \in Nat /\ i * size = m + size
      BY <3>1
    <3>3. pages[i] = SubSeq(all, m + 1, Lesser(m + size, Len(all)))
      BY <3>1, <3>2
    <3>4. g[i] = SubSeq(all, 1, Lesser(m + size, Len(all)))
      BY <3>2
    <3>5. CASE i = 1
      <4>1. m = 0 /\ m + 1 = 1
        BY <3>1, <3>5
      <4>2. g[i] = pages[i]
        <5> HIDE DEF g
        <5> QED BY <3>3, <3>4, <4>1
      <4> QED BY <3>5, <4>2
    <3>6. CASE i # 1
      <4>1. i - 1 \in 1..k
        BY <3>6
      <4>2. g[i - 1] = SubSeq(all, 1, Lesser(m, Len(all)))
        BY <3>1, <4>1
      <4>3. g[i - 1] \o pages[i] = SubSeq(all, 1, Lesser(m + size, Len(all)))
        BY <3>2, <3>3, <4>2, PrefixGrows
      <4> QED BY <3>4, <3>6, <4>3
    <3> QED BY <3>5, <3>6
  <2>2. Flattens(pages, g)
    <3>1. PICK h : h = g
      OBVIOUS
    <3>2. h = [i \in 1..k |-> h[i]]
      BY <3>1
    <3>3. h = [i \in 1..k |-> IF i = 1 THEN pages[i] ELSE h[i - 1] \o pages[i]]
      <4> HIDE DEF g
      <4> QED BY <2>1, <3>1, <3>2
    <3> QED BY <1>l, <3>1, <3>3 DEF Flattens
  <2>3. FlattenSeq(pages) = g[k]
    <3> HIDE DEF g
    <3> QED BY <1>2, <1>l, <2>2, FlattenIs
  <2>4. g[k] = SubSeq(all, 1, Len(all))
    <3>1. Lesser(k * size, Len(all)) = Len(all)
      BY <1>0 DEF Lesser
    <3> QED BY <1>2, <3>1
  <2> QED BY <2>3, <2>4, SubSeqFull
<1> QED BY <1>1, <1>2

\* order lists n numbers of S, the greatest first.
Descends(order, n, S) ==
  order \in [1..n -> S] /\ \A i, j \in DOMAIN order : i < j => order[i] > order[j]

LEMMA DescendingExists ==
  ASSUME NEW S \in SUBSET Nat, IsFiniteSet(S)
  PROVE  \E order : Descends(order, Cardinality(S), S)
<1> DEFINE F == {T \in SUBSET S : ~ \E order : Descends(order, Cardinality(T), T)}
<1>1. SUFFICES ASSUME F # {} PROVE FALSE
  OBVIOUS
<1>2. \A T \in F : IsFiniteSet(T)
  BY FS_Subset
<1>3. PICK T \in F : \A U \in F : ~(U \subseteq T /\ U # T)
  <2> HIDE DEF F
  <2> QED BY <1>1, <1>2, SmallestSet
<1>4. T \in SUBSET Nat /\ T \in SUBSET S /\ IsFiniteSet(T) /\ Cardinality(T) \in Nat
  BY <1>2, <1>3, FS_CardinalityType
<1>5. T # {}
  <2>1. ASSUME T = {} PROVE FALSE
    <3>1. Cardinality(T) = 0
      BY <2>1, FS_EmptySet
    <3>2. Descends([i \in 1..0 |-> 0], 0, T)
      BY DEF Descends
    <3> QED BY <1>3, <3>1, <3>2
  <2> QED BY <2>1
<1>6. PICK x \in T : \A y \in T : x <= y
  BY <1>4, <1>5, SmallestNumber
<1>7. PICK U : U = T \ {x}
  OBVIOUS
<1>8. U \subseteq T /\ U # T /\ U \in SUBSET S
  BY <1>4, <1>6, <1>7
<1>9. PICK n \in Nat : n = Cardinality(U) /\ Cardinality(T) = n + 1
  <2>1. Cardinality(T \ {x}) = Cardinality(T) - 1
    BY <1>4, <1>6, FS_RemoveElement
  <2>2. IsFiniteSet(T \ {x}) /\ Cardinality(T \ {x}) \in Nat
    BY <1>4, FS_Subset, FS_CardinalityType
  <2> QED BY <1>4, <1>7, <2>1, <2>2
<1>10. PICK order : Descends(order, n, U)
  BY <1>3, <1>8, <1>9
<1>11. PICK longer : longer = [i \in 1..n + 1 |-> IF i = n + 1 THEN x ELSE order[i]]
  OBVIOUS
<1>12. \A i \in 1..n : order[i] \in U /\ longer[i] = order[i]
  BY <1>10, <1>11 DEF Descends
<1>13. longer[n + 1] = x
  BY <1>11
<1>14. longer \in [1..n + 1 -> T]
  <2>1. ASSUME NEW i \in 1..n + 1 PROVE longer[i] \in T
    <3>1. i = n + 1 \/ i \in 1..n
      OBVIOUS
    <3> QED BY <1>6, <1>8, <1>12, <1>13, <3>1
  <2> QED BY <1>11, <2>1
<1>15. ASSUME NEW i \in 1..n + 1, NEW j \in 1..n + 1, i < j PROVE longer[i] > longer[j]
  <2>1. i \in 1..n
    BY <1>15
  <2>2. CASE j = n + 1
    <3>1. PICK y \in T : y = longer[i] /\ y # x
      BY <1>7, <1>12, <2>1
    <3>2. x <= y /\ x \in Nat /\ y \in Nat
      BY <1>4, <1>6
    <3>3. y > x
      BY <3>1, <3>2
    <3> QED BY <1>13, <2>2, <3>1, <3>3
  <2>3. CASE j # n + 1
    <3>1. j \in 1..n
      BY <2>3
    <3>2. order[i] > order[j]
      BY <1>10, <1>15, <2>1, <3>1 DEF Descends
    <3> QED BY <1>12, <2>1, <3>1, <3>2
  <2> QED BY <2>2, <2>3
<1>16. Descends(longer, n + 1, T)
  BY <1>14, <1>15 DEF Descends
<1> QED BY <1>3, <1>9, <1>16

\* A list of all, the greatest first, meets each of them once.
LEMMA DescendingMeetsAll ==
  ASSUME NEW S \in SUBSET Nat, IsFiniteSet(S), NEW order, Descends(order, Cardinality(S), S)
  PROVE  /\ order \in Seq(S) /\ Len(order) = Cardinality(S) /\ DOMAIN order = 1..Cardinality(S)
         /\ IsInjective(order) /\ ToSet(order) = S
<1>1. PICK n \in Nat : n = Cardinality(S)
  BY FS_CardinalityType
<1>2. order \in [1..n -> S] /\ DOMAIN order = 1..n
  BY <1>1 DEF Descends
<1>3. order \in Seq(S) /\ Len(order) = n
  BY <1>2
<1>4. IsInjective(order)
  <2>1. ASSUME NEW i \in 1..n, NEW j \in 1..n, order[i] = order[j] PROVE i = j
    <3>1. i < j => order[i] > order[j]
      BY <1>1, <1>2 DEF Descends
    <3>2. j < i => order[j] > order[i]
      BY <1>1, <1>2 DEF Descends
    <3>3. order[i] \in Nat /\ order[j] \in Nat
      BY <1>2
    <3> QED BY <2>1, <3>1, <3>2, <3>3
  <2> QED BY <1>2, <2>1 DEF IsInjective
<1>5. order \in Injection(1..n, S)
  BY <1>2, <1>4 DEF Injection
<1>6. Cardinality(1..n) = n
  BY FS_Interval
<1>7. order \in Surjection(1..n, S)
  BY <1>1, <1>5, <1>6, FS_Injection
<1>8. \A x \in S : \E i \in 1..n : order[i] = x
  BY <1>7 DEF Surjection
<1>9. ToSet(order) = S
  BY <1>2, <1>8 DEF ToSet
<1> QED BY <1>1, <1>2, <1>3, <1>4, <1>9

\* What is counted among the entries of a list is counted in the set it lists.
LEMMA PositionsAreEntries ==
  ASSUME NEW S \in SUBSET Nat, IsFiniteSet(S), NEW order, Descends(order, Cardinality(S), S),
         NEW T \in SUBSET S
  PROVE  Cardinality(T) = Cardinality({i \in DOMAIN order : order[i] \in T})
<1>1. PICK P : P = {i \in DOMAIN order : order[i] \in T}
  OBVIOUS
<1>2. /\ DOMAIN order = 1..Cardinality(S) /\ IsInjective(order) /\ ToSet(order) = S
  BY DescendingMeetsAll
<1>3. IsFiniteSet(T)
  BY FS_Subset
<1>4. PICK f : f = [i \in P |-> order[i]]
  OBVIOUS
<1>5. f \in [P -> T] /\ \A a, b \in P : f[a] = f[b] => a = b
  BY <1>1, <1>2, <1>4 DEF IsInjective
<1>6. f \in Injection(P, T)
  BY <1>5 DEF Injection, IsInjective
<1>7. \A t \in T : \E i \in P : f[i] = t
  BY <1>1, <1>2, <1>4 DEF ToSet
<1>8. f \in Surjection(P, T)
  BY <1>5, <1>7 DEF Surjection
<1>9. Cardinality(P) = Cardinality(T)
  BY <1>3, <1>6, <1>8, FS_Injection
<1> QED BY <1>1, <1>9

=============================================================================
