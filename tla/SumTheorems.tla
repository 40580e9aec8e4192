------------------------------ MODULE SumTheorems ------------------------------
(***************************************************************************)
(* Laws of sums over finite sets: the models add up balances, votes and    *)
(* payments with the operators of the library.  Such a sum is the value of *)
(* a recursive function that is chosen for the set it sums over.  The      *)
(* inductions below are about sets instead of operators: inclusion is well *)
(* founded on the subsets of a finite set, so a set of counterexamples has *)
(* a smallest one.                                                         *)
(***************************************************************************)
EXTENDS Integers, FiniteSetsExt, FiniteSetTheorems, WellFoundedInduction, TLAPS

(* Among any sets of members of a finite set there is a smallest one.      *)
LEMMA SmallestSubset ==
    ASSUME NEW S, IsFiniteSet(S), NEW F, F \subseteq SUBSET S, F # {}
    PROVE  \E T \in F : \A U \in F : ~(U \subseteq T /\ U # T)
<1>1. IsWellFoundedOn(StrictSubsetOrdering(S), SUBSET S)
  BY FS_StrictSubsetOrderingWellFounded, FS_FiniteSubsetsOfFinite
<1>2. PICK T \in F : \A U \in F : ~(<<U, T>> \in StrictSubsetOrdering(S))
  BY <1>1, WFMin
<1>3. QED
  BY <1>2 DEF StrictSubsetOrdering

(* Induction over the natural numbers, for a set of them.                  *)
LEMMA NatSetInduction ==
    ASSUME NEW A, 0 \in A, \A n \in Nat : n \in A => n + 1 \in A
    PROVE  Nat \subseteq A
<1> DEFINE Rest == Nat \ A
<1>1. SUFFICES ASSUME Rest # {} PROVE FALSE
  OBVIOUS
<1>2. \E n \in Rest : \A m \in Rest : ~(<<m, n>> \in OpToRel(<, Nat))
  BY <1>1, NatLessThanWellFounded, WFMin
<1>3. PICK n \in Rest : \A m \in Rest : ~(m < n)
  BY <1>2 DEF OpToRel
<1>4. n \in Nat /\ n \notin A /\ n # 0
  OBVIOUS
<1>5. n - 1 \in Nat /\ n - 1 < n /\ n - 1 \notin Rest
  BY <1>3, <1>4
<1>6. (n - 1) + 1 \in A
  BY <1>5
<1>7. QED
  BY <1>4, <1>6

(* The recursive function behind a sum, as the library defines it.         *)
First(s) == CHOOSE x \in s : TRUE
Body(f, g, s) == IF s = {} THEN 0 ELSE f[First(s)] + g[s \ {First(s)}]
Iter(S, f) == CHOOSE g : g = [s \in SUBSET S |-> Body(f, g, s)]

(* A sum is its value at the whole set.                                    *)
LEMMA SumIsIter ==
    ASSUME NEW S, NEW f
    PROVE  SumFunctionOnSet(f, S) = Iter(S, f)[S]
  BY DEF SumFunctionOnSet, FoldFunctionOnSet, MapThenFoldSet, Iter, First, Body

(* The member that a sum begins with is one.                               *)
LEMMA FirstIn == \A s : s # {} => First(s) \in s
  BY DEF First

(* That function exists and unfolds: it is built up by cardinality.        *)
LEMMA IterUnfolds ==
    ASSUME NEW S, IsFiniteSet(S), NEW f
    PROVE  \A s \in SUBSET S : Iter(S, f)[s] = Body(f, Iter(S, f), s)
<1> DEFINE Good(g, n) == \A s \in SUBSET S : Cardinality(s) <= n => g[s] = Body(f, g, s)
           A == {n \in Nat : \E g : Good(g, n)}
<1>0. \A s \in SUBSET S : /\ IsFiniteSet(s) /\ Cardinality(s) \in Nat
                          /\ Cardinality(s) = 0 <=> s = {}
                          /\ s # {} => /\ s \ {First(s)} \in SUBSET S
                                       /\ Cardinality(s \ {First(s)}) = Cardinality(s) - 1
  BY FS_Subset, FS_CardinalityType, FS_EmptySet, FS_RemoveElement, FirstIn
<1>1. 0 \in A
  <2> DEFINE z == [s \in SUBSET S |-> 0]
  <2>1. Good(z, 0)
    <3>1. SUFFICES ASSUME NEW s \in SUBSET S, Cardinality(s) <= 0 PROVE z[s] = Body(f, z, s)
      OBVIOUS
    <3>2. s = {}
      <4> HIDE DEF z
      <4>1. Cardinality(s) \in Nat /\ (Cardinality(s) = 0 <=> s = {})
        BY <1>0
      <4>2. QED
        BY <3>1, <4>1
    <3>3. QED
      BY <3>2 DEF Body
  <2>2. QED
    BY <2>1
<1>2. ASSUME NEW n \in Nat, n \in A
      PROVE  n + 1 \in A
  <2>1. PICK g : Good(g, n)
    BY <1>2
  <2> DEFINE h == [s \in SUBSET S |-> IF Cardinality(s) <= n THEN g[s] ELSE Body(f, g, s)]
  <2>2. ASSUME NEW s \in SUBSET S, Cardinality(s) <= n + 1
        PROVE  h[s] = Body(f, h, s)
    <3>1. CASE s = {}
      BY <3>1, <2>1, <1>0 DEF Body
    <3>2. CASE s # {}
      <4>1. Cardinality(s \ {First(s)}) <= n /\ s \ {First(s)} \in SUBSET S
        BY <3>2, <2>2, <1>0
      <4>2. h[s \ {First(s)}] = g[s \ {First(s)}]
        BY <4>1
      <4>3. Body(f, h, s) = Body(f, g, s)
        BY <4>2, <3>2 DEF Body
      <4>4. h[s] = Body(f, g, s)
        BY <2>1, <2>2
      <4>5. QED
        BY <4>3, <4>4
    <3>3. QED
      BY <3>1, <3>2
  <2>3. \E k : Good(k, n + 1)
    <3> HIDE DEF h
    <3>1. QED
      BY <2>2
  <2>4. QED
    BY <2>3
<1>3. Cardinality(S) \in A
  <2> HIDE DEF A
  <2>1. Nat \subseteq A
    BY <1>1, <1>2, NatSetInduction
  <2>2. QED
    BY <2>1, FS_CardinalityType
<1>4. PICK g : Good(g, Cardinality(S))
  BY <1>3
<1> DEFINE h == [s \in SUBSET S |-> g[s]]
<1>5. ASSUME NEW s \in SUBSET S
      PROVE  h[s] = Body(f, h, s)
  <2>1. g[s] = Body(f, g, s)
    BY <1>4, FS_Subset
  <2>2. QED
    BY <2>1, <1>0 DEF Body
<1>6. h = [s \in SUBSET S |-> Body(f, h, s)]
  BY <1>5
<1>7. \E k : k = [s \in SUBSET S |-> Body(f, k, s)]
  BY <1>6
<1>8. PICK k : k = Iter(S, f) /\ k = [s \in SUBSET S |-> Body(f, k, s)]
  BY <1>7 DEF Iter
<1>9. \A s \in SUBSET S : k[s] = Body(f, k, s)
  BY <1>8
<1>10. QED
  BY <1>8, <1>9

(* The iteration depends on the members it sums up only. *)
LEMMA IterOfSubset ==
    ASSUME NEW S, IsFiniteSet(S), NEW f, NEW T \in SUBSET S, NEW U \in SUBSET T
    PROVE  Iter(T, f)[U] = Iter(S, f)[U]
<1> DEFINE Bad == {s \in SUBSET T : Iter(T, f)[s] # Iter(S, f)[s]}
<1>1. SUFFICES ASSUME Bad # {} PROVE FALSE
  OBVIOUS
<1>2. IsFiniteSet(T)
  BY FS_Subset
<1>3. PICK s \in Bad : \A u \in Bad : ~(u \subseteq s /\ u # s)
  <2> HIDE DEF Bad
  <2>1. Bad \subseteq SUBSET T
    BY DEF Bad
  <2>2. QED
    BY <1>1, <1>2, <2>1, SmallestSubset
<1>4. /\ Iter(T, f)[s] = Body(f, Iter(T, f), s)
      /\ Iter(S, f)[s] = Body(f, Iter(S, f), s)
  BY <1>2, IterUnfolds
<1>5. s # {}
  BY <1>4 DEF Body
<1>6. s \ {First(s)} \notin Bad /\ s \ {First(s)} \in SUBSET T
  BY <1>3, <1>5, FirstIn
<1>7. QED
  BY <1>4, <1>5, <1>6 DEF Body

(* Nothing adds up to zero.                                                *)
LEMMA SumEmpty == \A f : SumFunctionOnSet(f, {}) = 0
<1> TAKE f
<1>1. Iter({}, f)[{}] = Body(f, Iter({}, f), {})
  BY IterUnfolds, FS_EmptySet
<1>2. QED
  BY <1>1, SumIsIter DEF Body

(* A sum is its first term and the sum of the others.                      *)
LEMMA SumFirst ==
    ASSUME NEW S, IsFiniteSet(S), S # {}, NEW f
    PROVE  SumFunctionOnSet(f, S) = f[First(S)] + SumFunctionOnSet(f, S \ {First(S)})
<1>1. Iter(S, f)[S] = Body(f, Iter(S, f), S)
  BY IterUnfolds
<1>2. Iter(S, f)[S \ {First(S)}] = Iter(S \ {First(S)}, f)[S \ {First(S)}]
  BY IterOfSubset
<1>3. QED
  BY <1>1, <1>2, SumIsIter DEF Body

(* A sum of integers is an integer.                                        *)
LEMMA SumType ==
    ASSUME NEW S, IsFiniteSet(S), NEW f, \A x \in S : f[x] \in Int
    PROVE  SumFunctionOnSet(f, S) \in Int
<1> DEFINE Bad == {s \in SUBSET S : SumFunctionOnSet(f, s) \notin Int}
<1>1. SUFFICES ASSUME Bad # {} PROVE FALSE
  OBVIOUS
<1>2. PICK s \in Bad : \A u \in Bad : ~(u \subseteq s /\ u # s)
  <2> HIDE DEF Bad
  <2>1. Bad \subseteq SUBSET S
    BY DEF Bad
  <2>2. QED
    BY <1>1, <2>1, SmallestSubset
<1>3. s # {}
  BY SumEmpty
<1>4. SumFunctionOnSet(f, s) = f[First(s)] + SumFunctionOnSet(f, s \ {First(s)})
  BY <1>3, SumFirst, FS_Subset
<1>5. s \ {First(s)} \notin Bad /\ s \ {First(s)} \in SUBSET S /\ First(s) \in S
  BY <1>2, <1>3, FirstIn
<1>6. QED
  BY <1>4, <1>5

(* A sum may begin with any of its terms.                                  *)
LEMMA SumRemove ==
    ASSUME NEW S, IsFiniteSet(S), NEW f, \A x \in S : f[x] \in Int, NEW x \in S
    PROVE  SumFunctionOnSet(f, S) = f[x] + SumFunctionOnSet(f, S \ {x})
<1> DEFINE Bad == {s \in SUBSET S :
                    \E y \in s : SumFunctionOnSet(f, s) # f[y] + SumFunctionOnSet(f, s \ {y})}
<1>1. SUFFICES ASSUME Bad # {} PROVE FALSE
  OBVIOUS
<1>2. PICK s \in Bad : \A u \in Bad : ~(u \subseteq s /\ u # s)
  <2> HIDE DEF Bad
  <2>1. Bad \subseteq SUBSET S
    BY DEF Bad
  <2>2. QED
    BY <1>1, <2>1, SmallestSubset
<1>3. PICK y \in s : SumFunctionOnSet(f, s) # f[y] + SumFunctionOnSet(f, s \ {y})
  OBVIOUS
<1> DEFINE z == First(s)
<1>4. z \in s
  BY <1>3, FirstIn
<1> HIDE DEF z
<1>5. SumFunctionOnSet(f, s) = f[z] + SumFunctionOnSet(f, s \ {z})
  BY <1>3, SumFirst, FS_Subset DEF z
<1>6. y # z
  BY <1>3, <1>5
<1>7. SumFunctionOnSet(f, s \ {z}) = f[y] + SumFunctionOnSet(f, (s \ {z}) \ {y})
  <2>1. s \ {z} \notin Bad /\ s \ {z} \in SUBSET S
    BY <1>2, <1>4
  <2>2. y \in s \ {z}
    BY <1>6
  <2>3. QED
    BY <2>1, <2>2
<1>8. SumFunctionOnSet(f, s \ {y}) = f[z] + SumFunctionOnSet(f, (s \ {y}) \ {z})
  <2>1. s \ {y} \notin Bad /\ s \ {y} \in SUBSET S
    BY <1>2
  <2>2. z \in s \ {y}
    BY <1>4, <1>6
  <2>3. QED
    BY <2>1, <2>2
<1>9. (s \ {z}) \ {y} = (s \ {y}) \ {z}
  OBVIOUS
<1>10. SumFunctionOnSet(f, (s \ {y}) \ {z}) \in Int /\ f[y] \in Int /\ f[z] \in Int
  <2>1. IsFiniteSet((s \ {y}) \ {z}) /\ \A x0 \in (s \ {y}) \ {z} : f[x0] \in Int
    BY FS_Subset
  <2>2. QED
    BY <2>1, SumType, <1>4
<1> DEFINE A == SumFunctionOnSet(f, s)
           B == SumFunctionOnSet(f, s \ {z})
           C == SumFunctionOnSet(f, s \ {y})
           D == SumFunctionOnSet(f, (s \ {y}) \ {z})
<1>11. A = f[z] + B /\ B = f[y] + D /\ C = f[z] + D /\ D \in Int
  BY <1>5, <1>7, <1>8, <1>9, <1>10
<1>12. A = f[y] + C
  <2> HIDE DEF A, B, C, D
  <2>1. QED
    BY <1>10, <1>11
<1>13. QED
  BY <1>3, <1>12


(* What is shown for the empty set and carried over from any set to one    *)
(* with one member more holds for all finite sets: a set A of subsets.     *)
LEMMA SubsetInduction ==
    ASSUME NEW S, IsFiniteSet(S), NEW A, {} \in A,
           \A s \in SUBSET S : \A x \in s : s \ {x} \in A => s \in A
    PROVE  S \in A
<1> DEFINE Bad == {s \in SUBSET S : s \notin A}
<1>1. SUFFICES ASSUME Bad # {} PROVE FALSE
  OBVIOUS
<1>2. PICK s \in Bad : \A u \in Bad : ~(u \subseteq s /\ u # s)
  <2> HIDE DEF Bad
  <2>1. Bad \subseteq SUBSET S
    BY DEF Bad
  <2>2. QED
    BY <1>1, <2>1, SmallestSubset
<1>3. PICK x \in s : TRUE
  OBVIOUS
<1>4. s \ {x} \notin Bad /\ s \ {x} \in SUBSET S
  BY <1>2, <1>3
<1>5. QED
  BY <1>3, <1>4

(* Sums of equal terms are equal.                                          *)
LEMMA SumSame ==
    ASSUME NEW S, IsFiniteSet(S), NEW f, NEW g,
           \A x \in S : f[x] \in Int /\ g[x] = f[x]
    PROVE  SumFunctionOnSet(g, S) = SumFunctionOnSet(f, S)
<1> DEFINE A == {s \in SUBSET S : SumFunctionOnSet(g, s) = SumFunctionOnSet(f, s)}
<1>1. {} \in A
  BY SumEmpty
<1>2. ASSUME NEW s \in SUBSET S, NEW x \in s, s \ {x} \in A
      PROVE  s \in A
  <2>1. IsFiniteSet(s)
    BY FS_Subset
  <2>2. SumFunctionOnSet(f, s) = f[x] + SumFunctionOnSet(f, s \ {x})
    BY <2>1, SumRemove
  <2>3. SumFunctionOnSet(g, s) = g[x] + SumFunctionOnSet(g, s \ {x})
    BY <2>1, SumRemove
  <2>4. QED
    BY <1>2, <2>2, <2>3
<1>3. S \in A
  <2> HIDE DEF A
  <2>1. QED
    BY <1>1, <1>2, SubsetInduction
<1>4. QED
  BY <1>3

(* A change of one term changes the sum by as much.                        *)
LEMMA SumUpdate ==
    ASSUME NEW S, IsFiniteSet(S), NEW f, NEW g, NEW x \in S,
           \A y \in S : f[y] \in Int /\ g[y] \in Int,
           \A y \in S \ {x} : g[y] = f[y]
    PROVE  SumFunctionOnSet(g, S) = SumFunctionOnSet(f, S) + g[x] - f[x]
<1>1. SumFunctionOnSet(f, S) = f[x] + SumFunctionOnSet(f, S \ {x})
  BY SumRemove
<1>2. SumFunctionOnSet(g, S) = g[x] + SumFunctionOnSet(g, S \ {x})
  BY SumRemove
<1>3. IsFiniteSet(S \ {x})
  BY FS_Subset
<1>4. SumFunctionOnSet(g, S \ {x}) = SumFunctionOnSet(f, S \ {x})
  BY <1>3, SumSame
<1>5. SumFunctionOnSet(f, S \ {x}) \in Int
  BY <1>3, SumType
<1>6. QED
  BY <1>1, <1>2, <1>4, <1>5

(* A sum of sums is the sum of both.                                       *)
LEMMA SumAdd ==
    ASSUME NEW S, IsFiniteSet(S), NEW f, NEW g, NEW h,
           \A x \in S : f[x] \in Int /\ g[x] \in Int /\ h[x] = f[x] + g[x]
    PROVE  SumFunctionOnSet(h, S) = SumFunctionOnSet(f, S) + SumFunctionOnSet(g, S)
<1> DEFINE F(s) == SumFunctionOnSet(f, s)
           G(s) == SumFunctionOnSet(g, s)
           H(s) == SumFunctionOnSet(h, s)
           A == {s \in SUBSET S : H(s) = F(s) + G(s)}
<1>1. {} \in A
  BY SumEmpty
<1>2. ASSUME NEW s \in SUBSET S, NEW x \in s, s \ {x} \in A
      PROVE  s \in A
  <2>1. IsFiniteSet(s) /\ IsFiniteSet(s \ {x})
    BY FS_Subset
  <2>2. F(s) = f[x] + F(s \ {x})
    BY <2>1, SumRemove
  <2>3. G(s) = g[x] + G(s \ {x})
    BY <2>1, SumRemove
  <2>4. H(s) = h[x] + H(s \ {x})
    BY <2>1, SumRemove
  <2>5. F(s \ {x}) \in Int /\ G(s \ {x}) \in Int
    BY <2>1, SumType
  <2>6. f[x] \in Int /\ g[x] \in Int /\ h[x] = f[x] + g[x] /\ H(s \ {x}) = F(s \ {x}) + G(s \ {x})
    BY <1>2
  <2>7. H(s) = F(s) + G(s)
    <3> HIDE DEF F, G, H
    <3>1. QED
      BY <2>2, <2>3, <2>4, <2>5, <2>6
  <2>8. QED
    BY <2>7
<1>3. S \in A
  <2> HIDE DEF A
  <2>1. QED
    BY <1>1, <1>2, SubsetInduction
<1>4. QED
  BY <1>3

(* Smaller terms have a smaller sum.                                       *)
LEMMA SumAtMost ==
    ASSUME NEW S, IsFiniteSet(S), NEW f, NEW g,
           \A x \in S : f[x] \in Int /\ g[x] \in Int /\ f[x] <= g[x]
    PROVE  SumFunctionOnSet(f, S) <= SumFunctionOnSet(g, S)
<1> DEFINE F(s) == SumFunctionOnSet(f, s)
           G(s) == SumFunctionOnSet(g, s)
           A == {s \in SUBSET S : F(s) <= G(s)}
<1>1. {} \in A
  BY SumEmpty
<1>2. ASSUME NEW s \in SUBSET S, NEW x \in s, s \ {x} \in A
      PROVE  s \in A
  <2>1. IsFiniteSet(s) /\ IsFiniteSet(s \ {x})
    BY FS_Subset
  <2>2. F(s) = f[x] + F(s \ {x})
    BY <2>1, SumRemove
  <2>3. G(s) = g[x] + G(s \ {x})
    BY <2>1, SumRemove
  <2>5. F(s \ {x}) \in Int /\ G(s \ {x}) \in Int
    BY <2>1, SumType
  <2>6. f[x] \in Int /\ g[x] \in Int /\ f[x] <= g[x] /\ F(s \ {x}) <= G(s \ {x})
    BY <1>2
  <2>7. F(s) <= G(s)
    <3> HIDE DEF F, G
    <3>1. QED
      BY <2>2, <2>3, <2>5, <2>6
  <2>8. QED
    BY <2>7
<1>3. S \in A
  <2> HIDE DEF A
  <2>1. QED
    BY <1>1, <1>2, SubsetInduction
<1>4. QED
  BY <1>3

(* A constant factor may be taken out.                                     *)
LEMMA SumScaled ==
    ASSUME NEW S, IsFiniteSet(S), NEW f, NEW g, NEW c \in Int,
           \A x \in S : f[x] \in Int /\ g[x] = c * f[x]
    PROVE  SumFunctionOnSet(g, S) = c * SumFunctionOnSet(f, S)
<1> DEFINE F(s) == SumFunctionOnSet(f, s)
           G(s) == SumFunctionOnSet(g, s)
           A == {s \in SUBSET S : G(s) = c * F(s)}
<1>1. {} \in A
  BY SumEmpty
<1>2. ASSUME NEW s \in SUBSET S, NEW x \in s, s \ {x} \in A
      PROVE  s \in A
  <2>1. IsFiniteSet(s) /\ IsFiniteSet(s \ {x})
    BY FS_Subset
  <2>2. F(s) = f[x] + F(s \ {x})
    BY <2>1, SumRemove
  <2>3. G(s) = g[x] + G(s \ {x})
    BY <2>1, SumRemove
  <2>5. F(s \ {x}) \in Int
    BY <2>1, SumType
  <2>6. f[x] \in Int /\ g[x] = c * f[x] /\ G(s \ {x}) = c * F(s \ {x})
    BY <1>2
  <2>7. G(s) = c * F(s)
    <3> HIDE DEF F, G
    <3>1. QED
      BY <2>2, <2>3, <2>5, <2>6
  <2>8. QED
    BY <2>7
<1>3. S \in A
  <2> HIDE DEF A
  <2>1. QED
    BY <1>1, <1>2, SubsetInduction
<1>4. QED
  BY <1>3

(* A sum over two sets that have nothing in common.                        *)
LEMMA SumSplit ==
    ASSUME NEW S, IsFiniteSet(S), NEW f, \A x \in S : f[x] \in Int, NEW T \in SUBSET S
    PROVE  SumFunctionOnSet(f, S) = SumFunctionOnSet(f, T) + SumFunctionOnSet(f, S \ T)
<1> DEFINE F(s) == SumFunctionOnSet(f, s)
           A == {s \in SUBSET T : F((S \ T) \cup s) = F(s) + F(S \ T)}
<1>0. IsFiniteSet(T) /\ IsFiniteSet(S \ T) /\ F(S \ T) \in Int
  BY FS_Subset, SumType
<1>1. {} \in A
  <2>1. (S \ T) \cup {} = S \ T
    OBVIOUS
  <2>2. QED
    BY <1>0, <2>1, SumEmpty
<1>2. ASSUME NEW s \in SUBSET T, NEW x \in s, s \ {x} \in A
      PROVE  s \in A
  <2>1. IsFiniteSet(s) /\ IsFiniteSet(s \ {x}) /\ IsFiniteSet((S \ T) \cup s)
    BY FS_Subset
  <2>2. F(s) = f[x] + F(s \ {x})
    BY <2>1, SumRemove
  <2>3. F((S \ T) \cup s) = f[x] + F(((S \ T) \cup s) \ {x})
    BY <2>1, SumRemove
  <2>4. ((S \ T) \cup s) \ {x} = (S \ T) \cup (s \ {x})
    OBVIOUS
  <2>5. F(s \ {x}) \in Int /\ f[x] \in Int
    BY <2>1, SumType
  <2>6. F((S \ T) \cup (s \ {x})) = F(s \ {x}) + F(S \ T)
    BY <1>2
  <2>7. F((S \ T) \cup s) = f[x] + (F(s \ {x}) + F(S \ T))
    BY <2>3, <2>4, <2>6
  <2>8. F((S \ T) \cup s) = F(s) + F(S \ T)
    BY <1>0, <2>2, <2>5, <2>7
  <2>9. QED
    BY <2>8
<1>3. T \in A
  <2> HIDE DEF A
  <2>1. QED
    BY <1>0, <1>1, <1>2, SubsetInduction
<1>4. (S \ T) \cup T = S
  OBVIOUS
<1>5. QED
  BY <1>3, <1>4


(* A sum of natural numbers is one.                                        *)
LEMMA SumNat ==
    ASSUME NEW S, IsFiniteSet(S), NEW f, \A x \in S : f[x] \in Nat
    PROVE  SumFunctionOnSet(f, S) \in Nat
<1> DEFINE A == {s \in SUBSET S : SumFunctionOnSet(f, s) \in Nat}
<1>1. {} \in A
  BY SumEmpty
<1>2. ASSUME NEW s \in SUBSET S, NEW x \in s, s \ {x} \in A
      PROVE  s \in A
  <2>1. IsFiniteSet(s)
    BY FS_Subset
  <2>2. SumFunctionOnSet(f, s) = f[x] + SumFunctionOnSet(f, s \ {x})
    BY <2>1, SumRemove
  <2>3. QED
    BY <1>2, <2>2
<1>3. S \in A
  <2> HIDE DEF A
  <2>1. QED
    BY <1>1, <1>2, SubsetInduction
<1>4. QED
  BY <1>3

(* Terms may be summed up by classes: first those of each class.           *)
LEMMA SumByClass ==
    ASSUME NEW S, IsFiniteSet(S), NEW H, IsFiniteSet(H), NEW f, NEW class,
           \A x \in S : f[x] \in Int /\ class[x] \in H
    PROVE  SumFunctionOnSet(f, S) = SumFunctionOnSet(
              [h \in H |-> SumFunctionOnSet(f, {x \in S : class[x] = h})], H)
<1> DEFINE Of(s, h) == {x \in s : class[x] = h}
           By(s) == [h \in H |-> SumFunctionOnSet(f, Of(s, h))]
           A == {s \in SUBSET S : SumFunctionOnSet(f, s) = SumFunctionOnSet(By(s), H)}
<1>1. {} \in A
  <2>1. \A h \in H : By({})[h] = 0
    <3>1. \A h \in H : Of({}, h) = {}
      OBVIOUS
    <3>2. QED
      BY <3>1, SumEmpty
  <2> HIDE DEF By
  <2>2. \A h \in H : By({})[h] \in Int /\ By({})[h] = 0 * By({})[h]
    BY <2>1
  <2>3. SumFunctionOnSet(By({}), H) = 0 * SumFunctionOnSet(By({}), H)
    BY <2>2, SumScaled
  <2>4. SumFunctionOnSet(By({}), H) \in Int
    BY <2>2, SumType
  <2>5. SumFunctionOnSet(By({}), H) = 0
    BY <2>3, <2>4
  <2>6. QED
    BY <2>5, SumEmpty
<1>2. ASSUME NEW s \in SUBSET S, NEW x \in s, s \ {x} \in A
      PROVE  s \in A
  <2> DEFINE t == s \ {x}
  <2>1. IsFiniteSet(s) /\ IsFiniteSet(t) /\ t \in SUBSET S /\ f[x] \in Int /\ class[x] \in H
    BY FS_Subset
  <2>2. SumFunctionOnSet(f, s) = f[x] + SumFunctionOnSet(f, t)
    BY <2>1, SumRemove
  <2>3. \A h \in H : By(s)[h] \in Int /\ By(t)[h] \in Int
    <3>1. \A h \in H : /\ IsFiniteSet(Of(s, h)) /\ \A y \in Of(s, h) : f[y] \in Int
                       /\ IsFiniteSet(Of(t, h)) /\ \A y \in Of(t, h) : f[y] \in Int
      BY <2>1, FS_Subset
    <3>2. QED
      BY <3>1, SumType
  <2>4. \A h \in H \ {class[x]} : By(s)[h] = By(t)[h]
    <3>1. \A h \in H \ {class[x]} : Of(s, h) = Of(t, h)
      OBVIOUS
    <3>2. QED
      BY <3>1
  <2>5. By(s)[class[x]] = f[x] + By(t)[class[x]]
    <3> DEFINE c == class[x]
    <3>1. x \in Of(s, c) /\ Of(s, c) \ {x} = Of(t, c)
      OBVIOUS
    <3>2. IsFiniteSet(Of(s, c)) /\ \A y \in Of(s, c) : f[y] \in Int
      BY <2>1, FS_Subset
    <3>3. SumFunctionOnSet(f, Of(s, c)) = f[x] + SumFunctionOnSet(f, Of(s, c) \ {x})
      BY <3>1, <3>2, SumRemove
    <3>4. QED
      BY <2>1, <3>1, <3>3
  <2>6. SumFunctionOnSet(f, t) = SumFunctionOnSet(By(t), H)
    BY <1>2
  <2>7. SumFunctionOnSet(f, t) \in Int
    BY <2>1, SumType
  <2> DEFINE g == By(s)
             k == By(t)
             c == class[x]
  <2>8. /\ \A h \in H : k[h] \in Int /\ g[h] \in Int
        /\ \A h \in H \ {c} : g[h] = k[h]
        /\ g[c] = f[x] + k[c] /\ c \in H
        /\ SumFunctionOnSet(f, t) = SumFunctionOnSet(k, H)
    BY <2>1, <2>3, <2>4, <2>5, <2>6
  <2> HIDE DEF g, k, c, t
  <2>9. SumFunctionOnSet(g, H) = SumFunctionOnSet(k, H) + g[c] - k[c]
    BY <2>8, SumUpdate
  <2>10. SumFunctionOnSet(f, s) = SumFunctionOnSet(g, H)
    BY <2>1, <2>2, <2>7, <2>8, <2>9
  <2>11. QED
    BY <2>10 DEF g
<1>3. S \in A
  <2> HIDE DEF A
  <2>1. QED
    BY <1>1, <1>2, SubsetInduction
<1>4. QED
  BY <1>3

-----------------------------------------------------------------------------
(* Sums of all the values of a function.                                   *)

(* The sum of a function is that over its domain.                          *)
LEMMA SumOfFunction ==
    \A f : SumFunction(f) = SumFunctionOnSet(f, DOMAIN f)
  BY DEF SumFunction

(* The sum of a function to the integers is one.                           *)
LEMMA SumFunctionType ==
    ASSUME NEW S, IsFiniteSet(S), NEW f \in [S -> Int]
    PROVE  SumFunction(f) \in Int
<1>1. DOMAIN f = S /\ \A x \in S : f[x] \in Int
  OBVIOUS
<1>2. SumFunctionOnSet(f, S) \in Int
  BY <1>1, SumType
<1>3. QED
  BY <1>1, <1>2, SumOfFunction

(* One value that is changed.                                              *)
LEMMA SumChange ==
    ASSUME NEW S, IsFiniteSet(S), NEW f, NEW g, NEW x \in S,
           f \in [S -> Int], g \in [S -> Int], \A y \in S \ {x} : g[y] = f[y]
    PROVE  SumFunction(g) = SumFunction(f) + g[x] - f[x]
<1>1. DOMAIN f = S /\ DOMAIN g = S /\ \A y \in S : f[y] \in Int /\ g[y] \in Int
  OBVIOUS
<1>2. SumFunctionOnSet(g, S) = SumFunctionOnSet(f, S) + g[x] - f[x]
  BY <1>1, SumUpdate
<1>3. QED
  BY <1>1, <1>2, SumOfFunction

(* Values that are added one by one.                                       *)
LEMMA SumPlus ==
    ASSUME NEW S, IsFiniteSet(S), NEW f \in [S -> Int], NEW g \in [S -> Int]
    PROVE  /\ [x \in S |-> f[x] + g[x]] \in [S -> Int]
           /\ SumFunction([x \in S |-> f[x] + g[x]]) = SumFunction(f) + SumFunction(g)
<1> DEFINE h == [x \in S |-> f[x] + g[x]]
<1>1. /\ h \in [S -> Int] /\ DOMAIN f = S /\ DOMAIN g = S /\ DOMAIN h = S
      /\ \A x \in S : f[x] \in Int /\ g[x] \in Int /\ h[x] = f[x] + g[x]
  OBVIOUS
<1> HIDE DEF h
<1>2. SumFunctionOnSet(h, S) = SumFunctionOnSet(f, S) + SumFunctionOnSet(g, S)
  BY <1>1, SumAdd
<1>3. h \in [S -> Int] /\ SumFunction(h) = SumFunction(f) + SumFunction(g)
  BY <1>1, <1>2, SumOfFunction
<1>4. QED
  BY <1>3 DEF h

(* A constant factor may be taken out of the sum of a function.            *)
LEMMA SumTimes ==
    ASSUME NEW S, IsFiniteSet(S), NEW f \in [S -> Int], NEW c \in Int
    PROVE  SumFunction([x \in S |-> c * f[x]]) = c * SumFunction(f)
<1> DEFINE h == [x \in S |-> c * f[x]]
<1>1. /\ DOMAIN f = S /\ DOMAIN h = S
      /\ \A x \in S : f[x] \in Int /\ h[x] = c * f[x]
  OBVIOUS
<1> HIDE DEF h
<1>2. SumFunctionOnSet(h, S) = c * SumFunctionOnSet(f, S)
  BY <1>1, SumScaled
<1>3. SumFunction(h) = c * SumFunction(f)
  BY <1>1, <1>2, SumOfFunction
<1>4. QED
  BY <1>3 DEF h

(* A sum of zeros is zero.                                                 *)
LEMMA SumOfZeros ==
    ASSUME NEW S, IsFiniteSet(S)
    PROVE  SumFunction([x \in S |-> 0]) = 0
<1> DEFINE z == [x \in S |-> 0]
           y == [x \in S |-> 0 * z[x]]
<1>1. z \in [S -> Int] /\ y = z
  OBVIOUS
<1>2. SumFunction(y) = 0 * SumFunction(z) /\ SumFunction(z) \in Int
  <2> HIDE DEF z
  <2>1. QED
    BY <1>1, SumTimes, SumFunctionType
<1>3. QED
  BY <1>1, <1>2

(* The same over a set.                                                    *)
LEMMA SumZero ==
    ASSUME NEW S, IsFiniteSet(S), NEW f, \A x \in S : f[x] = 0
    PROVE  SumFunctionOnSet(f, S) = 0
<1> DEFINE z == [x \in S |-> 0]
<1>1. DOMAIN z = S /\ \A x \in S : z[x] \in Int /\ f[x] = z[x]
  OBVIOUS
<1>2. SumFunction(z) = 0
  BY ONLY IsFiniteSet(S), SumOfZeros
<1> HIDE DEF z
<1>3. SumFunction(z) = SumFunctionOnSet(z, S)
  BY ONLY <1>1, SumOfFunction
<1>4. SumFunctionOnSet(f, S) = SumFunctionOnSet(z, S)
  BY ONLY IsFiniteSet(S), <1>1, SumSame
<1>5. QED
  BY <1>2, <1>3, <1>4

(* Terms that are zero may be left out.                                    *)
LEMMA SumOfSupport ==
    ASSUME NEW S, IsFiniteSet(S), NEW f, \A x \in S : f[x] \in Int, NEW T \in SUBSET S,
           \A x \in S \ T : f[x] = 0
    PROVE  SumFunctionOnSet(f, S) = SumFunctionOnSet(f, T)
<1>1. IsFiniteSet(T) /\ IsFiniteSet(S \ T)
  BY FS_Subset
<1>2. SumFunctionOnSet(f, T) \in Int
  BY <1>1, SumType
<1>3. SumFunctionOnSet(f, S \ T) = 0
  BY <1>1, SumZero
<1>4. SumFunctionOnSet(f, S) = SumFunctionOnSet(f, T) + SumFunctionOnSet(f, S \ T)
  BY SumSplit
<1>5. QED
  BY <1>2, <1>3, <1>4

(* Part of a sum of natural numbers.                                       *)
LEMMA SumOfPart ==
    ASSUME NEW S, IsFiniteSet(S), NEW f, \A x \in S : f[x] \in Nat, NEW T \in SUBSET S
    PROVE  /\ SumFunctionOnSet(f, T) \in Nat /\ SumFunctionOnSet(f, S) \in Nat
           /\ SumFunctionOnSet(f, T) <= SumFunctionOnSet(f, S)
<1>1. IsFiniteSet(T) /\ IsFiniteSet(S \ T)
  BY FS_Subset
<1>2. /\ SumFunctionOnSet(f, T) \in Nat /\ SumFunctionOnSet(f, S \ T) \in Nat
      /\ SumFunctionOnSet(f, S) \in Nat
  BY <1>1, SumNat
<1>3. SumFunctionOnSet(f, S) = SumFunctionOnSet(f, T) + SumFunctionOnSet(f, S \ T)
  BY SumSplit
<1>4. QED
  BY <1>2, <1>3

-----------------------------------------------------------------------------
(* The largest of a finite set of integers.                                *)
LEMMA MaxIn ==
    ASSUME NEW S, IsFiniteSet(S), S # {}, S \subseteq Int
    PROVE  Max(S) \in S /\ \A x \in S : x <= Max(S)
<1> DEFINE Bounded(s) == s # {} => \E m \in s : \A x \in s : x <= m
           A == {s \in SUBSET S : Bounded(s)}
<1>1. {} \in A
  OBVIOUS
<1>2. ASSUME NEW s \in SUBSET S, NEW x \in s, s \ {x} \in A
      PROVE  s \in A
  <2>1. CASE s \ {x} = {}
    <3>1. \A y \in s : y <= x
      <4>1. \A y \in s : y = x /\ y \in Int
        BY <2>1
      <4>2. QED
        BY <4>1
    <3>2. QED
      BY <3>1
  <2>2. CASE s \ {x} # {}
    <3>1. PICK m \in s \ {x} : \A y \in s \ {x} : y <= m
      BY <1>2, <2>2
    <3>2. m \in Int /\ x \in Int /\ \A y \in s : y \in Int
      OBVIOUS
    <3>3. CASE x <= m
      BY <3>1, <3>2, <3>3
    <3>4. CASE m <= x
      BY <3>1, <3>2, <3>4
    <3>5. QED
      BY <3>2, <3>3, <3>4
  <2>3. QED
    BY <2>1, <2>2
<1>3. S \in A
  <2> HIDE DEF A
  <2>1. QED
    BY <1>1, <1>2, SubsetInduction
<1>4. PICK m \in S : \A x \in S : x <= m
  BY <1>3
<1>5. \A x \in S : m >= x
  BY <1>4
<1>6. Max(S) \in S /\ \A x \in S : Max(S) >= x
  BY <1>5 DEF Max
<1>7. QED
  BY <1>6

(* The smallest of any set of natural numbers.                             *)
LEMMA MinIn ==
    ASSUME NEW S, S # {}, S \subseteq Nat
    PROVE  Min(S) \in S /\ \A x \in S : Min(S) <= x
<1>1. \E n \in S : \A m \in S : ~(<<m, n>> \in OpToRel(<, Nat))
  BY NatLessThanWellFounded, WFMin
<1>2. PICK n \in S : \A m \in S : ~(m < n)
  BY <1>1 DEF OpToRel
<1>3. \A x \in S : n <= x
  BY <1>2
<1>4. QED
  BY <1>3 DEF Min
=============================================================================
