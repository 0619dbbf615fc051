----------------------------- MODULE Data_proofs -----------------------------
(***************************************************************************)
(* Facts about the data the models compute with: sums over a set, and the  *)
(* elements of a set in order.  The community module Functions defines the *)
(* sum of a function by a fold, which takes out one chosen element after   *)
(* the other; the lemmas here make it a sum over the elements in any       *)
(* order.                                                                  *)
(*                                                                         *)
(* They rest on induction over the natural numbers and over finite sets.   *)
(* Both are stated for a SET of the values that have the property, not for *)
(* a predicate, so that they are first-order facts; they follow from the   *)
(* well-foundedness of < on Nat.                                           *)
(***************************************************************************)
EXTENDS Sorting, SequencesExt, FiniteSetTheorems, SequenceTheorems, WellFoundedInduction,
        TLAPS

-------------------------------------------------------------------------------
(* Induction.                                                              *)

LEMMA LeastNat ==
  ASSUME NEW T, T \subseteq Nat, T # {}
  PROVE  \E x \in T : \A y \in T : x <= y
<1>1. PICK x \in T : \A y \in T : ~ (<<y, x>> \in OpToRel(<, Nat))
  BY WFMin, NatLessThanWellFounded
<1>2. ASSUME NEW y \in T PROVE x <= y
  <2>1. x \in Nat /\ y \in Nat /\ <<y, x>> \in Nat \X Nat
    OBVIOUS
  <2>2. ~(y < x)
    BY <1>1, <2>1 DEF OpToRel
  <2> QED BY <2>1, <2>2
<1> QED BY <1>1, <1>2

LEMMA NatInduct ==
  ASSUME NEW S, 0 \in S, \A n \in Nat : n \in S => n + 1 \in S
  PROVE  \A n \in Nat : n \in S
<1> SUFFICES ASSUME NEW k \in Nat, k \notin S PROVE FALSE
  OBVIOUS
<1> DEFINE T == { n \in Nat : n \notin S }
<1>1. PICK x \in T : \A y \in T : x <= y
  BY LeastNat
<1>2. x # 0 /\ x - 1 \in Nat
  BY <1>1
<1>3. x - 1 \in S
  BY <1>1, <1>2
<1> QED BY <1>1, <1>2, <1>3

(* A set of subsets that has the empty one, and every one of its members   *)
(* with any further element, has all of S.                                 *)
LEMMA SetInduct ==
  ASSUME NEW S, IsFiniteSet(S), NEW C, {} \in C,
         \A T \in SUBSET S : \A x \in S \ T : T \in C => T \cup {x} \in C
  PROVE  S \in C
<1> DEFINE N == { n \in Nat : \A T \in SUBSET S : Cardinality(T) = n => T \in C }
<1>1. \A T \in SUBSET S : IsFiniteSet(T) /\ Cardinality(T) \in Nat
  BY FS_Subset, FS_CardinalityType
<1>2. 0 \in N
  <2> SUFFICES ASSUME NEW T \in SUBSET S, Cardinality(T) = 0 PROVE T \in C
    OBVIOUS
  <2>1. T = {}
    BY <1>1, FS_EmptySet
  <2> QED BY <2>1
<1>3. ASSUME NEW n \in Nat, n \in N PROVE n + 1 \in N
  <2> SUFFICES ASSUME NEW T \in SUBSET S, Cardinality(T) = n + 1 PROVE T \in C
    OBVIOUS
  <2>1. T # {} /\ IsFiniteSet(T)
    BY <1>1, FS_EmptySet
  <2>2. PICK x \in T : TRUE
    BY <2>1
  <2>3. Cardinality(T \ {x}) = Cardinality(T) - 1
    BY <2>1, <2>2, FS_RemoveElement
  <2>4. T \ {x} \in C
    <3>1. Cardinality(T \ {x}) = n /\ T \ {x} \in SUBSET S
      BY <2>3
    <3> QED BY <1>3, <3>1
  <2>5. (T \ {x}) \cup {x} \in C
    BY <2>2, <2>4
  <2>6. (T \ {x}) \cup {x} = T
    BY <2>2
  <2> QED BY <2>5, <2>6
<1> HIDE DEF N
<1>4. \A n \in Nat : n \in N
  BY <1>2, <1>3, NatInduct
<1> QED BY <1>1, <1>4 DEF N

-------------------------------------------------------------------------------
(* The fold.                                                               *)

Some(s) == CHOOSE x \in s : TRUE

(* One step of the fold over s, where g has the sums of smaller sets.      *)
FoldStep(f, g, s) == IF s = {} THEN 0 ELSE f[Some(s)] + g[s \ {Some(s)}]

(* g has the sums of f over all subsets of S. *)
HasSums(f, S, g) == g = [ s \in SUBSET S |-> FoldStep(f, g, s) ]

LEMMA SomeIn ==
  ASSUME NEW s, s # {}
  PROVE  Some(s) \in s
BY DEF Some

LEMMA SmallerSet ==
  ASSUME NEW s, IsFiniteSet(s), s # {}
  PROVE  /\ IsFiniteSet(s \ {Some(s)}) /\ Cardinality(s) \in Nat
         /\ Cardinality(s \ {Some(s)}) = Cardinality(s) - 1
BY SomeIn, FS_RemoveElement, FS_CardinalityType

LEMMA SumIsFold ==
  ASSUME NEW f, NEW S
  PROVE  SumFunctionOnSet(f, S) = (CHOOSE g : HasSums(f, S, g))[S]
BY DEF SumFunctionOnSet, FoldFunctionOnSet, MapThenFoldSet, FoldStep, Some, HasSums

(* The fold is defined: from the sums of the sets of up to n elements come *)
(* those of the sets of n + 1.                                             *)
LEMMA SumsExist ==
  ASSUME NEW f, NEW S, IsFiniteSet(S)
  PROVE  \E g : HasSums(f, S, g)
<1> DEFINE UpTo(g, n) == \A s \in SUBSET S : Cardinality(s) <= n => g[s] = FoldStep(f, g, s)
           N == { n \in Nat : \E g : UpTo(g, n) }
<1>1. \A s \in SUBSET S : IsFiniteSet(s) /\ Cardinality(s) \in Nat
  BY FS_Subset, FS_CardinalityType
<1>2. 0 \in N
  <2> DEFINE g == [ s \in SUBSET S |-> 0 ]
  <2>1. ASSUME NEW s \in SUBSET S, Cardinality(s) <= 0 PROVE g[s] = FoldStep(f, g, s)
    <3>1. Cardinality(s) = 0
      BY <1>1, <2>1
    <3>2. s = {}
      BY <1>1, <3>1, FS_EmptySet
    <3> QED BY <3>2 DEF FoldStep
  <2>2. UpTo(g, 0)
    BY <2>1
  <2> HIDE DEF UpTo
  <2> QED BY <2>2
<1>3. ASSUME NEW n \in Nat, n \in N PROVE n + 1 \in N
  <2>1. PICK g : UpTo(g, n)
    BY <1>3
  <2> DEFINE h == [ s \in SUBSET S |-> IF Cardinality(s) <= n THEN g[s] ELSE FoldStep(f, g, s) ]
  <2>2. ASSUME NEW s \in SUBSET S, Cardinality(s) <= n + 1 PROVE h[s] = FoldStep(f, h, s)
    <3>1. h[s] = FoldStep(f, g, s)
      BY <2>1
    <3>2. CASE s = {}
      BY <3>1, <3>2 DEF FoldStep
    <3>3. CASE s # {}
      <4>1. s \ {Some(s)} \in SUBSET S /\ Cardinality(s \ {Some(s)}) <= n
        BY <1>1, <2>2, <3>3, SmallerSet
      <4>2. h[s \ {Some(s)}] = g[s \ {Some(s)}]
        BY <4>1
      <4> HIDE DEF h
      <4> QED BY <3>1, <3>3, <4>2 DEF FoldStep
    <3> QED BY <3>2, <3>3
  <2>3. UpTo(h, n + 1)
    BY <2>2
  <2> HIDE DEF UpTo
  <2> QED BY <2>3
<1> HIDE DEF N
<1>4. Cardinality(S) \in N
  BY <1>1, <1>2, <1>3, NatInduct
<1>5. PICK g : UpTo(g, Cardinality(S))
  BY <1>4 DEF N
<1> DEFINE h == [ s \in SUBSET S |-> g[s] ]
<1>6. ASSUME NEW s \in SUBSET S PROVE h[s] = FoldStep(f, h, s)
  <2>1. Cardinality(s) <= Cardinality(S)
    BY <1>1, FS_Subset
  <2>2. g[s] = FoldStep(f, g, s)
    BY <1>5, <2>1
  <2>3. s \ {Some(s)} \in SUBSET S
    OBVIOUS
  <2> QED BY <2>2, <2>3 DEF FoldStep
<1>7. HasSums(f, S, h)
  <2>1. h = [ s \in SUBSET S |-> h[s] ]
    OBVIOUS
  <2> HIDE DEF h
  <2> QED BY <1>6, <2>1 DEF HasSums
<1> QED BY <1>7

(* Two folds agree where their functions do. *)
LEMMA SumsAgree ==
  ASSUME NEW f, NEW S, IsFiniteSet(S), NEW g, HasSums(f, S, g),
         NEW f2, NEW S2, NEW g2, HasSums(f2, S2, g2),
         NEW T \in SUBSET S, T \subseteq S2, \A x \in T : f[x] = f2[x]
  PROVE  g[T] = g2[T]
<1> DEFINE N == { n \in Nat : \A s \in SUBSET T : Cardinality(s) = n => g[s] = g2[s] }
<1>1. \A s \in SUBSET T : IsFiniteSet(s) /\ Cardinality(s) \in Nat
  BY FS_Subset, FS_CardinalityType
<1>2. ASSUME NEW s \in SUBSET T
      PROVE  g[s] = FoldStep(f, g, s) /\ g2[s] = FoldStep(f2, g2, s)
  BY DEF HasSums
<1>3. 0 \in N
  <2> SUFFICES ASSUME NEW s \in SUBSET T, Cardinality(s) = 0 PROVE g[s] = g2[s]
    OBVIOUS
  <2>1. s = {}
    BY <1>1, FS_EmptySet
  <2> QED BY <1>2, <2>1 DEF FoldStep
<1>4. ASSUME NEW n \in Nat, n \in N PROVE n + 1 \in N
  <2> SUFFICES ASSUME NEW s \in SUBSET T, Cardinality(s) = n + 1 PROVE g[s] = g2[s]
    OBVIOUS
  <2>1. s # {}
    BY FS_EmptySet
  <2>2. Some(s) \in T /\ s \ {Some(s)} \in SUBSET T /\ Cardinality(s \ {Some(s)}) = n
    BY <1>1, <2>1, SomeIn, SmallerSet
  <2>3. g[s \ {Some(s)}] = g2[s \ {Some(s)}]
    BY <1>4, <2>2
  <2> QED BY <1>2, <2>1, <2>2, <2>3 DEF FoldStep
<1> HIDE DEF N
<1>5. Cardinality(T) \in N
  BY <1>1, <1>3, <1>4, NatInduct
<1> QED BY <1>5 DEF N

(* The sums a fold over S has on the way are those of the subsets.         *)
LEMMA SumsAreSums ==
  ASSUME NEW f, NEW S, IsFiniteSet(S), NEW g, HasSums(f, S, g), NEW T \in SUBSET S
  PROVE  SumFunctionOnSet(f, T) = g[T]
<1> DEFINE h == CHOOSE k : HasSums(f, T, k)
<1>1. IsFiniteSet(T)
  BY FS_Subset
<1>2. HasSums(f, T, h)
  BY <1>1, SumsExist
<1>3. SumFunctionOnSet(f, T) = h[T]
  BY SumIsFold
<1> HIDE DEF h
<1>4. h[T] = g[T]
  BY <1>1, <1>2, SumsAgree
<1> QED BY <1>3, <1>4

LEMMA SumUnfolds ==
  ASSUME NEW f, NEW S, IsFiniteSet(S)
  PROVE  SumFunctionOnSet(f, S) = IF S = {} THEN 0
                                  ELSE f[Some(S)] + SumFunctionOnSet(f, S \ {Some(S)})
<1>1. PICK g : HasSums(f, S, g)
  BY SumsExist
<1>2. g[S] = FoldStep(f, g, S)
  BY <1>1 DEF HasSums
<1>3. \A T \in SUBSET S : SumFunctionOnSet(f, T) = g[T]
  BY <1>1, SumsAreSums
<1> QED BY <1>2, <1>3 DEF FoldStep

-------------------------------------------------------------------------------
(* Sums.                                                                   *)

LEMMA SumEmpty ==
  ASSUME NEW f
  PROVE  SumFunctionOnSet(f, {}) = 0
BY SumUnfolds, FS_EmptySet

(* A sum of naturals is a natural, and any element may be taken out of it  *)
(* first.                                                                  *)
LEMMA SumNat ==
  ASSUME NEW f, NEW S, IsFiniteSet(S), \A x \in S : f[x] \in Nat
  PROVE  SumFunctionOnSet(f, S) \in Nat
<1> DEFINE sum(s) == SumFunctionOnSet(f, s)
           N == { n \in Nat : \A s \in SUBSET S : Cardinality(s) = n => sum(s) \in Nat }
<1>1. \A s \in SUBSET S : IsFiniteSet(s) /\ Cardinality(s) \in Nat
  BY FS_Subset, FS_CardinalityType
<1>2. 0 \in N
  <2> SUFFICES ASSUME NEW s \in SUBSET S, Cardinality(s) = 0 PROVE sum(s) \in Nat
    OBVIOUS
  <2>1. s = {}
    BY <1>1, FS_EmptySet
  <2> QED BY <2>1, SumEmpty
<1>3. ASSUME NEW n \in Nat, n \in N PROVE n + 1 \in N
  <2> SUFFICES ASSUME NEW s \in SUBSET S, Cardinality(s) = n + 1 PROVE sum(s) \in Nat
    OBVIOUS
  <2>1. s # {} /\ IsFiniteSet(s)
    BY <1>1, FS_EmptySet
  <2>2. Some(s) \in S /\ s \ {Some(s)} \in SUBSET S /\ Cardinality(s \ {Some(s)}) = n
    BY <2>1, SomeIn, SmallerSet
  <2>3. sum(s \ {Some(s)}) \in Nat
    BY <1>3, <2>2
  <2>4. sum(s) = f[Some(s)] + sum(s \ {Some(s)})
    BY <2>1, SumUnfolds
  <2> HIDE DEF sum
  <2> QED BY <2>2, <2>3, <2>4
<1> HIDE DEF N
<1>4. Cardinality(S) \in N
  BY <1>1, <1>2, <1>3, NatInduct
<1> QED BY <1>4 DEF N

LEMMA SumRemove ==
  ASSUME NEW f, NEW S, IsFiniteSet(S), \A x \in S : f[x] \in Nat, NEW x \in S
  PROVE  SumFunctionOnSet(f, S) = f[x] + SumFunctionOnSet(f, S \ {x})
<1> DEFINE sum(s) == SumFunctionOnSet(f, s)
           N == { n \in Nat : \A s \in SUBSET S : Cardinality(s) = n =>
                                \A y \in s : sum(s) = f[y] + sum(s \ {y}) }
<1>1. \A s \in SUBSET S : IsFiniteSet(s) /\ Cardinality(s) \in Nat
  BY FS_Subset, FS_CardinalityType
<1>2. \A s \in SUBSET S : sum(s) \in Nat
  BY <1>1, SumNat
<1>3. 0 \in N
  <2>1. \A s \in SUBSET S : Cardinality(s) = 0 => s = {}
    BY <1>1, FS_EmptySet
  <2> QED BY <2>1
<1>4. ASSUME NEW n \in Nat, n \in N PROVE n + 1 \in N
  <2> SUFFICES ASSUME NEW s \in SUBSET S, Cardinality(s) = n + 1, NEW y \in s
               PROVE  sum(s) = f[y] + sum(s \ {y})
    OBVIOUS
  <2> DEFINE z == Some(s)
  <2>1. s # {} /\ IsFiniteSet(s)
    BY <1>1
  <2>2. z \in s /\ sum(s) = f[z] + sum(s \ {z})
    BY <2>1, SomeIn, SumUnfolds
  <2>3. /\ Cardinality(s \ {z}) = n /\ s \ {z} \in SUBSET S
        /\ Cardinality(s \ {y}) = n /\ s \ {y} \in SUBSET S
    <3>1. Cardinality(s \ {z}) = Cardinality(s) - 1 /\ Cardinality(s \ {y}) = Cardinality(s) - 1
      BY <2>1, <2>2, FS_RemoveElement
    <3> QED BY <3>1
  <2> HIDE DEF z
  <2>4. CASE y = z
    BY <2>2, <2>4
  <2>5. CASE y # z
    <3>1. sum(s \ {z}) = f[y] + sum((s \ {z}) \ {y})
      BY <1>4, <2>3, <2>5
    <3>2. sum(s \ {y}) = f[z] + sum((s \ {y}) \ {z})
      BY <1>4, <2>2, <2>3, <2>5
    <3>3. (s \ {z}) \ {y} = (s \ {y}) \ {z}
      OBVIOUS
    <3>4. f[y] \in Nat /\ f[z] \in Nat /\ sum((s \ {y}) \ {z}) \in Nat
      BY <1>2, <2>2
    <3> HIDE DEF sum
    <3> QED BY <2>2, <3>1, <3>2, <3>3, <3>4
  <2> QED BY <2>4, <2>5
<1> HIDE DEF N
<1>5. Cardinality(S) \in N
  BY <1>1, <1>3, <1>4, NatInduct
<1> QED BY <1>5 DEF N

LEMMA SumAdd ==
  ASSUME NEW f, NEW T, IsFiniteSet(T), NEW x, x \notin T, f[x] \in Nat,
         \A y \in T : f[y] \in Nat
  PROVE  SumFunctionOnSet(f, T \cup {x}) = SumFunctionOnSet(f, T) + f[x]
<1>1. IsFiniteSet(T \cup {x})
  BY FS_AddElement
<1>2. (T \cup {x}) \ {x} = T /\ x \in T \cup {x} /\ \A y \in T \cup {x} : f[y] \in Nat
  OBVIOUS
<1>3. SumFunctionOnSet(f, T \cup {x}) = f[x] + SumFunctionOnSet(f, (T \cup {x}) \ {x})
  BY <1>1, <1>2, SumRemove
<1>4. SumFunctionOnSet(f, T) \in Nat
  BY SumNat
<1> QED BY <1>2, <1>3, <1>4

LEMMA SumEqual ==
  ASSUME NEW f, NEW g, NEW S, IsFiniteSet(S), \A x \in S : f[x] = g[x]
  PROVE  SumFunctionOnSet(f, S) = SumFunctionOnSet(g, S)
<1>1. PICK h : HasSums(f, S, h)
  BY SumsExist
<1>2. PICK k : HasSums(g, S, k)
  BY SumsExist
<1>3. h[S] = k[S]
  BY <1>1, <1>2, SumsAgree
<1>4. SumFunctionOnSet(f, S) = h[S] /\ SumFunctionOnSet(g, S) = k[S]
  BY <1>1, <1>2, SumsAreSums
<1> QED BY <1>3, <1>4

LEMMA SumMono ==
  ASSUME NEW f, NEW g, NEW S, IsFiniteSet(S),
         \A x \in S : f[x] \in Nat /\ g[x] \in Nat /\ f[x] <= g[x]
  PROVE  SumFunctionOnSet(f, S) <= SumFunctionOnSet(g, S)
<1> DEFINE sf(T) == SumFunctionOnSet(f, T)
           sg(T) == SumFunctionOnSet(g, T)
           C == { T \in SUBSET S : sf(T) <= sg(T) }
<1>1. \A T \in SUBSET S : IsFiniteSet(T) /\ sf(T) \in Nat /\ sg(T) \in Nat
  BY FS_Subset, SumNat
<1>2. {} \in C
  BY SumEmpty
<1>3. ASSUME NEW T \in SUBSET S, NEW x \in S \ T, T \in C PROVE T \cup {x} \in C
  <2>1. sf(T \cup {x}) = sf(T) + f[x] /\ sg(T \cup {x}) = sg(T) + g[x]
    BY <1>1, SumAdd
  <2>2. sf(T) <= sg(T)
    BY <1>3
  <2>3. T \cup {x} \in SUBSET S
    OBVIOUS
  <2> HIDE DEF sf, sg
  <2>4. sf(T \cup {x}) <= sg(T \cup {x})
    BY <1>1, <2>1, <2>2
  <2> QED BY <2>3, <2>4
<1> HIDE DEF C
<1>4. S \in C
  BY <1>2, <1>3, SetInduct
<1> QED BY <1>4 DEF C

LEMMA SumPlus ==
  ASSUME NEW f, NEW g, NEW h, NEW S, IsFiniteSet(S),
         \A x \in S : f[x] \in Nat /\ g[x] \in Nat /\ h[x] = f[x] + g[x]
  PROVE  SumFunctionOnSet(h, S) = SumFunctionOnSet(f, S) + SumFunctionOnSet(g, S)
<1> DEFINE sf(T) == SumFunctionOnSet(f, T)
           sg(T) == SumFunctionOnSet(g, T)
           sh(T) == SumFunctionOnSet(h, T)
           C == { T \in SUBSET S : sh(T) = sf(T) + sg(T) }
<1>0. \A x \in S : h[x] \in Nat
  OBVIOUS
<1>1. \A T \in SUBSET S : IsFiniteSet(T) /\ sf(T) \in Nat /\ sg(T) \in Nat
  BY FS_Subset, SumNat
<1>2. {} \in C
  BY SumEmpty
<1>3. ASSUME NEW T \in SUBSET S, NEW x \in S \ T, T \in C PROVE T \cup {x} \in C
  <2>1. /\ sf(T \cup {x}) = sf(T) + f[x] /\ sg(T \cup {x}) = sg(T) + g[x]
        /\ sh(T \cup {x}) = sh(T) + h[x]
    BY <1>0, <1>1, SumAdd
  <2>2. sh(T) = sf(T) + sg(T)
    BY <1>3
  <2>3. T \cup {x} \in SUBSET S /\ f[x] \in Nat /\ g[x] \in Nat /\ h[x] = f[x] + g[x]
    OBVIOUS
  <2> HIDE DEF sf, sg, sh
  <2>4. sh(T \cup {x}) = sf(T \cup {x}) + sg(T \cup {x})
    BY <1>1, <2>1, <2>2, <2>3
  <2> QED BY <2>3, <2>4
<1> HIDE DEF C
<1>4. S \in C
  BY <1>2, <1>3, SetInduct
<1> QED BY <1>4 DEF C

(* A sum of equal numbers. *)
LEMMA SumConstant ==
  ASSUME NEW f, NEW S, IsFiniteSet(S), NEW c \in Nat, \A x \in S : f[x] = c
  PROVE  SumFunctionOnSet(f, S) = c * Cardinality(S)
<1> DEFINE sum(U) == SumFunctionOnSet(f, U)
           C == { U \in SUBSET S : sum(U) = c * Cardinality(U) }
<1>1. {} \in C
  <2>1. sum({}) = 0 /\ Cardinality({}) = 0 /\ c * 0 = 0
    BY SumEmpty, FS_EmptySet
  <2> QED BY <2>1
<1>2. ASSUME NEW U \in SUBSET S, NEW x \in S \ U, U \in C PROVE U \cup {x} \in C
  <2>1. IsFiniteSet(U)
    BY FS_Subset
  <2>2. sum(U \cup {x}) = sum(U) + c
    BY <2>1, SumAdd
  <2>3. Cardinality(U \cup {x}) = Cardinality(U) + 1 /\ Cardinality(U) \in Nat
    BY <2>1, FS_AddElement, FS_CardinalityType
  <2>4. sum(U) = c * Cardinality(U)
    BY <1>2
  <2> DEFINE m == Cardinality(U)
  <2> HIDE DEF sum, m
  <2>5. c * (m + 1) = c * m + c
    BY <2>3 DEF m
  <2>6. sum(U \cup {x}) = c * Cardinality(U \cup {x})
    BY <2>2, <2>3, <2>4, <2>5 DEF m
  <2> QED BY <2>6
<1>3. S \in C
  <2> HIDE DEF C
  <2> QED BY <1>1, <1>2, SetInduct
<1> QED BY <1>3

(* Elements that count for nothing may be left out. *)
LEMMA SumOutside ==
  ASSUME NEW f, NEW S, IsFiniteSet(S), NEW T \in SUBSET S,
         \A x \in S : f[x] \in Nat, \A x \in S \ T : f[x] = 0
  PROVE  SumFunctionOnSet(f, S) = SumFunctionOnSet(f, T)
<1> DEFINE sum(U) == SumFunctionOnSet(f, U)
           C == { U \in SUBSET (S \ T) : sum(T \cup U) = sum(T) }
<1>1. IsFiniteSet(S \ T) /\ \A U \in SUBSET S : IsFiniteSet(U) /\ sum(U) \in Nat
  BY FS_Subset, SumNat
<1>2. {} \in C
  <2>1. T \cup {} = T
    OBVIOUS
  <2> QED BY <2>1
<1>3. ASSUME NEW U \in SUBSET (S \ T), NEW x \in (S \ T) \ U, U \in C PROVE U \cup {x} \in C
  <2>1. /\ T \cup U \in SUBSET S /\ x \notin T \cup U /\ f[x] = 0
        /\ T \cup (U \cup {x}) = (T \cup U) \cup {x} /\ U \cup {x} \in SUBSET (S \ T)
    OBVIOUS
  <2> DEFINE V == T \cup U
  <2>2. sum(V \cup {x}) = sum(V) + f[x]
    <3>1. IsFiniteSet(V) /\ x \notin V /\ f[x] \in Nat /\ \A y \in V : f[y] \in Nat
      BY <1>1, <2>1
    <3> HIDE DEF V
    <3> QED BY <3>1, SumAdd
  <2>3. sum(T \cup U) = sum(T) /\ sum(T) \in Nat
    BY <1>1, <1>3
  <2>4. sum(T \cup (U \cup {x})) = sum(T)
    <3>1. T \cup (U \cup {x}) = V \cup {x}
      BY <2>1
    <3>2. sum(V) = sum(T)
      BY <2>3
    <3>3. sum(V \cup {x}) = sum(T) + f[x]
      BY <2>2, <3>2
    <3>4. sum(T) + f[x] = sum(T)
      BY <2>1, <2>3
    <3> QED BY <3>1, <3>3, <3>4
  <2> QED BY <2>1, <2>4
<1> HIDE DEF C
<1>4. S \ T \in C
  BY <1>1, <1>2, <1>3, SetInduct
<1>5. T \cup (S \ T) = S
  OBVIOUS
<1> QED BY <1>4, <1>5 DEF C

LEMMA SumSubset ==
  ASSUME NEW f, NEW S, IsFiniteSet(S), NEW T \in SUBSET S, \A x \in S : f[x] \in Nat
  PROVE  SumFunctionOnSet(f, T) <= SumFunctionOnSet(f, S)
<1> DEFINE g == [ x \in S |-> IF x \in T THEN f[x] ELSE 0 ]
<1>1. \A x \in S : g[x] \in Nat /\ g[x] <= f[x] /\ (x \in T => g[x] = f[x])
                   /\ (x \notin T => g[x] = 0)
  OBVIOUS
<1> HIDE DEF g
<1>2. IsFiniteSet(T)
  BY FS_Subset
<1>3. SumFunctionOnSet(g, T) = SumFunctionOnSet(f, T)
  BY <1>1, <1>2, SumEqual
<1>4. SumFunctionOnSet(g, S) = SumFunctionOnSet(g, T)
  BY <1>1, SumOutside
<1>5. SumFunctionOnSet(g, S) <= SumFunctionOnSet(f, S)
  BY <1>1, SumMono
<1> QED BY <1>3, <1>4, <1>5

-------------------------------------------------------------------------------
(* Order.                                                                  *)

(* The elements of S that a set R of pairs puts before x.                  *)
Ahead(S, R, x) == { y \in S : <<y, x>> \in R }

Place(S, R, x) == Cardinality(Ahead(S, R, x))

(* R orders the elements of S strictly and totally.                        *)
Orders(S, R) ==
    /\ \A x \in S : <<x, x>> \notin R
    /\ \A x, y, z \in S : <<x, y>> \in R /\ <<y, z>> \in R => <<x, z>> \in R
    /\ \A x, y \in S : x # y => <<x, y>> \in R \/ <<y, x>> \in R

(* In a finite set each of n elements has a place of its own from 0 to     *)
(* n - 1, and none is left free.                                           *)
LEMMA PlacesTaken ==
  ASSUME NEW S, IsFiniteSet(S), NEW R, Orders(S, R)
  PROVE  /\ \A x \in S : Place(S, R, x) \in 0 .. Cardinality(S) - 1
         /\ \A x, y \in S : <<y, x>> \in R <=> Place(S, R, y) < Place(S, R, x)
         /\ \A i \in 1 .. Cardinality(S) : \E x \in S : Place(S, R, x) = i - 1
<1> DEFINE n == Cardinality(S)
<1>1. n \in Nat
  BY FS_CardinalityType
<1>2. \A x \in S : IsFiniteSet(Ahead(S, R, x)) /\ Place(S, R, x) \in Nat
  BY FS_Subset, FS_CardinalityType DEF Ahead, Place
<1>3. ASSUME NEW x \in S PROVE Place(S, R, x) \in 0 .. n - 1
  <2>1. Ahead(S, R, x) \in SUBSET (S \ {x})
    BY DEF Ahead, Orders
  <2>2. IsFiniteSet(S \ {x}) /\ Cardinality(S \ {x}) = n - 1
    BY FS_RemoveElement
  <2>3. Place(S, R, x) <= n - 1
    BY <2>1, <2>2, FS_Subset DEF Place
  <2> QED BY <1>1, <1>2, <2>3
<1>4. ASSUME NEW x \in S, NEW y \in S, <<y, x>> \in R
      PROVE  Place(S, R, y) < Place(S, R, x)
  <2>1. Ahead(S, R, y) \cup {y} \in SUBSET Ahead(S, R, x)
    BY <1>4 DEF Ahead, Orders
  <2>2. y \notin Ahead(S, R, y)
    BY DEF Ahead, Orders
  <2>3. Cardinality(Ahead(S, R, y) \cup {y}) = Place(S, R, y) + 1
    BY <1>2, <2>2, FS_AddElement DEF Place
  <2>4. Cardinality(Ahead(S, R, y) \cup {y}) <= Place(S, R, x)
    BY <1>2, <2>1, FS_Subset DEF Place
  <2> QED BY <1>2, <2>3, <2>4
<1>5. ASSUME NEW x \in S, NEW y \in S, Place(S, R, y) < Place(S, R, x)
      PROVE  <<y, x>> \in R
  <2>1. x # y
    BY <1>2, <1>5
  <2>2. <<x, y>> \notin R
    <3>1. <<x, y>> \in R => Place(S, R, x) < Place(S, R, y)
      BY <1>4
    <3> QED BY <1>2, <1>5, <3>1
  <2> QED BY <2>1, <2>2 DEF Orders
<1>6. ASSUME NEW i \in 1 .. n PROVE \E x \in S : Place(S, R, x) = i - 1
  <2> DEFINE f == [ x \in S |-> Place(S, R, x) + 1 ]
  <2>1. f \in [S -> 1 .. n]
    BY <1>1, <1>3
  <2>2. \A x, y \in S : f[x] = f[y] => x = y
    <3> SUFFICES ASSUME NEW x \in S, NEW y \in S, f[x] = f[y], x # y PROVE FALSE
      OBVIOUS
    <3>1. Place(S, R, x) = Place(S, R, y)
      BY <1>2
    <3>2. <<x, y>> \in R \/ <<y, x>> \in R
      BY DEF Orders
    <3> QED BY <1>2, <1>4, <3>1, <3>2
  <2>3. f \in Injection(S, 1 .. n)
    BY <2>1, <2>2 DEF Injection, IsInjective
  <2>4. IsFiniteSet(1 .. n) /\ Cardinality(1 .. n) = n
    BY <1>1, FS_Interval
  <2> HIDE DEF f
  <2>5. f \in Surjection(S, 1 .. n)
    BY <2>3, <2>4, FS_Injection
  <2>6. PICK x \in S : f[x] = i
    BY <2>5 DEF Surjection
  <2> QED BY <1>2, <2>6 DEF f
<1> QED BY <1>3, <1>4, <1>5, <1>6

(* How many elements of T are smaller than t.                              *)
Smaller(T, t) == Cardinality({ u \in T : u < t })

LEMMA SmallerPlaces ==
  ASSUME NEW T, T \subseteq Int, IsFiniteSet(T)
  PROVE  /\ \A x \in T : Smaller(T, x) \in 0 .. Cardinality(T) - 1
         /\ \A x, y \in T : y < x <=> Smaller(T, y) < Smaller(T, x)
         /\ \A i \in 1 .. Cardinality(T) : \E x \in T : Smaller(T, x) = i - 1
<1> DEFINE R == { p \in Int \X Int : p[1] < p[2] }
<1>1. \A x, y \in Int : <<x, y>> \in R <=> x < y
  OBVIOUS
<1> HIDE DEF R
<1>2. Orders(T, R)
  BY <1>1 DEF Orders
<1>3. ASSUME NEW t \in T PROVE Place(T, R, t) = Smaller(T, t)
  <2>1. Ahead(T, R, t) = { u \in T : u < t }
    BY <1>1 DEF Ahead
  <2> QED BY <2>1 DEF Place, Smaller
<1>4. /\ \A x \in T : Place(T, R, x) \in 0 .. Cardinality(T) - 1
      /\ \A x, y \in T : <<y, x>> \in R <=> Place(T, R, y) < Place(T, R, x)
      /\ \A i \in 1 .. Cardinality(T) : \E x \in T : Place(T, R, x) = i - 1
  BY <1>2, PlacesTaken
<1>5. ASSUME NEW x \in T, NEW y \in T PROVE y < x <=> Smaller(T, y) < Smaller(T, x)
  <2>1. <<y, x>> \in R <=> y < x
    BY <1>1
  <2> QED BY <1>3, <1>4, <2>1
<1>6. ASSUME NEW i \in 1 .. Cardinality(T) PROVE \E x \in T : Smaller(T, x) = i - 1
  <2>1. PICK x \in T : Place(T, R, x) = i - 1
    BY <1>4
  <2> QED BY <1>3, <2>1
<1> QED BY <1>3, <1>4, <1>5, <1>6

LEMMA AscendingSorts ==
  ASSUME NEW T, T \subseteq Int, IsFiniteSet(T)
  PROVE  /\ Cardinality(T) \in Nat
         /\ Ascending(T) \in [1 .. Cardinality(T) -> T]
         /\ \A i, j \in 1 .. Cardinality(T) : i < j => Ascending(T)[i] < Ascending(T)[j]
         /\ \A t \in T : \E i \in 1 .. Cardinality(T) : Ascending(T)[i] = t
<1> DEFINE n == Cardinality(T)
           a == Ascending(T)
<1>1. n \in Nat
  BY FS_CardinalityType
<1>2. /\ \A x \in T : Smaller(T, x) \in 0 .. n - 1
      /\ \A x, y \in T : y < x <=> Smaller(T, y) < Smaller(T, x)
      /\ \A i \in 1 .. n : \E x \in T : Smaller(T, x) = i - 1
  BY SmallerPlaces
<1>3. a = [ i \in 1 .. n |-> CHOOSE t \in T : Smaller(T, t) = i - 1 ]
  BY DEF Ascending, Smaller
<1>4. T \subseteq Int
  OBVIOUS
<1> HIDE DEF n, a
<1>5. ASSUME NEW i \in 1 .. n PROVE a[i] \in T /\ Smaller(T, a[i]) = i - 1
  BY <1>2, <1>3
<1>6. a \in [1 .. n -> T]
  BY <1>3, <1>5
<1>7. ASSUME NEW i \in 1 .. n, NEW j \in 1 .. n, i < j PROVE a[i] < a[j]
  <2>1. a[i] \in T /\ a[j] \in T /\ Smaller(T, a[i]) = i - 1 /\ Smaller(T, a[j]) = j - 1
    BY <1>5
  <2>2. i - 1 < j - 1
    BY <1>1, <1>7
  <2>3. a[i] < a[j] <=> Smaller(T, a[i]) < Smaller(T, a[j])
    BY <1>2, <2>1
  <2> QED BY <2>1, <2>2, <2>3
<1>8. ASSUME NEW t \in T PROVE \E i \in 1 .. n : a[i] = t
  <2> DEFINE i == Smaller(T, t) + 1
  <2>1. i \in 1 .. n /\ i - 1 = Smaller(T, t)
    BY <1>1, <1>2
  <2>2. a[i] \in T /\ Smaller(T, a[i]) = Smaller(T, t)
    BY <1>5, <2>1
  <2> HIDE DEF i
  <2>3. Smaller(T, t) \in Int
    BY <1>1, <1>2
  <2>4. a[i] < t <=> Smaller(T, a[i]) < Smaller(T, t)
    BY <1>2, <2>2
  <2>5. t < a[i] <=> Smaller(T, t) < Smaller(T, a[i])
    BY <1>2, <2>2
  <2>6. ~(Smaller(T, t) < Smaller(T, t))
    BY <2>3
  <2>7. ~(a[i] < t) /\ ~(t < a[i])
    BY <2>2, <2>4, <2>5, <2>6
  <2>8. a[i] \in Int /\ t \in Int
    BY <1>4, <2>2
  <2>9. a[i] = t
    BY <2>7, <2>8
  <2> QED BY <2>1, <2>9
<1> QED BY <1>1, <1>6, <1>7, <1>8 DEF n, a

(* A sum does not depend on what its terms are filed under.                *)
LEMMA SumBijection ==
  ASSUME NEW S, IsFiniteSet(S), NEW T, NEW b \in Bijection(S, T), NEW f, NEW g,
         \A y \in T : f[y] \in Nat, \A x \in S : g[x] = f[b[x]]
  PROVE  SumFunctionOnSet(g, S) = SumFunctionOnSet(f, T)
<1> DEFINE image(U) == { b[x] : x \in U }
           sf(U) == SumFunctionOnSet(f, U)
           sg(U) == SumFunctionOnSet(g, U)
           C == { U \in SUBSET S : IsFiniteSet(image(U)) /\ sg(U) = sf(image(U)) }
<1>1. /\ \A x \in S : b[x] \in T
      /\ \A x, y \in S : b[x] = b[y] => x = y
      /\ \A y \in T : \E x \in S : b[x] = y
  BY DEF Bijection, Injection, Surjection, IsInjective
<1>2. \A x \in S : g[x] \in Nat /\ g[x] = f[b[x]]
  BY <1>1
<1>3. {} \in C
  <2>1. image({}) = {}
    OBVIOUS
  <2> QED BY <2>1, SumEmpty, FS_EmptySet
<1>4. ASSUME NEW U \in SUBSET S, NEW x \in S \ U, U \in C PROVE U \cup {x} \in C
  <2>1. image(U \cup {x}) = image(U) \cup {b[x]}
    OBVIOUS
  <2>2. b[x] \notin image(U) /\ image(U) \subseteq T /\ b[x] \in T
    BY <1>1
  <2>3. IsFiniteSet(image(U)) /\ sg(U) = sf(image(U)) /\ IsFiniteSet(U)
    BY <1>4, FS_Subset
  <2> HIDE DEF image
  <2>4. IsFiniteSet(image(U) \cup {b[x]})
    BY <2>3, FS_AddElement
  <2>5. sf(image(U) \cup {b[x]}) = sf(image(U)) + f[b[x]]
    <3>1. f[b[x]] \in Nat /\ \A y \in image(U) : f[y] \in Nat
      BY <2>2
    <3> QED BY <2>2, <2>3, <3>1, SumAdd
  <2>6. sg(U \cup {x}) = sg(U) + g[x]
    <3>1. g[x] \in Nat /\ x \notin U /\ \A y \in U : g[y] \in Nat
      BY <1>2
    <3> QED BY <2>3, <3>1, SumAdd
  <2> HIDE DEF sf, sg
  <2>7. sg(U \cup {x}) = sf(image(U \cup {x})) /\ IsFiniteSet(image(U \cup {x}))
    BY <1>2, <2>1, <2>3, <2>4, <2>5, <2>6
  <2> QED BY <2>7
<1>5. image(S) = T
  BY <1>1
<1> HIDE DEF C, image
<1>6. S \in C
  BY <1>3, <1>4, SetInduct
<1> QED BY <1>5, <1>6 DEF C

-------------------------------------------------------------------------------
(* Recursion.                                                              *)

(* F computes the value of a function at x from the function itself, of    *)
(* which it uses only the values at arguments of smaller measure.  Then    *)
(* there is such a function.                                               *)
Recursive(S, V, F, measure, bound) ==
    /\ F \in [S \X [S -> V] -> V]
    /\ measure \in [S -> 0 .. bound]
    /\ \A x \in S : \A g, h \in [S -> V] :
          (\A y \in S : measure[y] < measure[x] => g[y] = h[y]) => F[<<x, g>>] = F[<<x, h>>]

Solvable(S, V, F) == \E f \in [S -> V] : \A x \in S : f[x] = F[<<x, f>>]

LEMMA RecursionExists ==
  ASSUME NEW S, NEW V, V # {}, NEW F, NEW measure, NEW bound \in Nat,
         Recursive(S, V, F, measure, bound)
  PROVE  Solvable(S, V, F)
<1> DEFINE upTo(n, f) == \A x \in S : measure[x] < n => f[x] = F[<<x, f>>]
           N == { n \in Nat : \E f \in [S -> V] : upTo(n, f) }
<1>1. /\ \A x \in S : \A g \in [S -> V] : F[<<x, g>>] \in V
      /\ \A x \in S : measure[x] \in Nat /\ measure[x] <= bound
      /\ \A x \in S : \A g, h \in [S -> V] :
            (\A y \in S : measure[y] < measure[x] => g[y] = h[y]) => F[<<x, g>>] = F[<<x, h>>]
  <2>1. ASSUME NEW x \in S, NEW g \in [S -> V] PROVE F[<<x, g>>] \in V
    <3>1. <<x, g>> \in S \X [S -> V]
      OBVIOUS
    <3> QED BY <3>1 DEF Recursive
  <2>2. ASSUME NEW x \in S PROVE measure[x] \in Nat /\ measure[x] <= bound
    <3>1. measure[x] \in 0 .. bound
      BY DEF Recursive
    <3> QED BY <3>1
  <2> QED BY <2>1, <2>2 DEF Recursive
<1>2. 0 \in N
  <2>1. PICK v : v \in V
    OBVIOUS
  <2>2. [x \in S |-> v] \in [S -> V]
    BY <2>1
  <2>3. upTo(0, [x \in S |-> v])
    BY <1>1
  <2> HIDE DEF upTo
  <2> QED BY <2>2, <2>3
<1>3. ASSUME NEW n \in Nat, n \in N PROVE n + 1 \in N
  <2>1. PICK f \in [S -> V] : upTo(n, f)
    BY <1>3
  <2> DEFINE g == [x \in S |-> IF measure[x] = n THEN F[<<x, f>>] ELSE f[x]]
  <2>2. g \in [S -> V]
    BY <1>1
  <2>3. \A x \in S : measure[x] < n => g[x] = f[x]
    BY <1>1
  <2>4. \A x \in S : measure[x] = n => g[x] = F[<<x, f>>]
    OBVIOUS
  <2> HIDE DEF g
  <2>5. ASSUME NEW x \in S, measure[x] < n + 1 PROVE g[x] = F[<<x, g>>]
    <3>1. \A y \in S : measure[y] < measure[x] => g[y] = f[y]
      BY <1>1, <2>3, <2>5
    <3>2. F[<<x, g>>] = F[<<x, f>>]
      BY <1>1, <2>1, <2>2, <3>1
    <3>3. measure[x] < n \/ measure[x] = n
      BY <1>1, <2>5
    <3> QED BY <2>1, <2>3, <2>4, <3>2, <3>3
  <2>6. upTo(n + 1, g)
    BY <2>5
  <2> HIDE DEF upTo
  <2> QED BY <2>2, <2>6
<1> HIDE DEF N
<1>4. bound + 1 \in N
  BY <1>2, <1>3, NatInduct
<1>5. PICK f \in [S -> V] : upTo(bound + 1, f)
  BY <1>4 DEF N
<1> QED BY <1>1, <1>5 DEF Solvable

-------------------------------------------------------------------------------
(* Listings of a set.                                                      *)

(* A listing goes through the elements one by one.                         *)
LEMMA ListingBijects ==
  ASSUME NEW S, IsFiniteSet(S), NEW s \in SetToSeqs(S)
  PROVE  /\ s \in Bijection(1 .. Cardinality(S), S)
         /\ s \in Seq(S) /\ Len(s) = Cardinality(S)
         /\ \A x \in S : \E i \in 1 .. Cardinality(S) : s[i] = x
<1> DEFINE D == 1 .. Cardinality(S)
<1>1. IsFiniteSet(D) /\ Cardinality(D) = Cardinality(S) /\ Cardinality(S) \in Nat
  BY FS_CardinalityType, FS_Interval
<1>2. s \in [D -> S] /\ \A i, j \in D : i # j => s[i] # s[j]
  BY DEF SetToSeqs
<1>3. s \in Injection(D, S)
  BY <1>2 DEF Injection, IsInjective
<1>4. s \in Surjection(D, S)
  BY <1>1, <1>3, FS_Injection
<1>5. s \in Seq(S) /\ Len(s) = Cardinality(S)
  BY <1>1, <1>2
<1> QED BY <1>3, <1>4, <1>5 DEF Bijection, Surjection

(* The first k of a sequence.                                              *)
FirstOf(f, s, k) == f \in Seq(Range(s)) /\ Len(f) = k /\ DOMAIN f = 1 .. k
                    /\ \A i \in 1 .. k : f[i] = s[i]

LEMMA SubSeqIsFirst ==
  ASSUME NEW S, NEW s \in Seq(S), NEW k \in 0 .. Len(s)
  PROVE  FirstOf(SubSeq(s, 1, k), s, k)
<1> DEFINE f == SubSeq(s, 1, k)
<1>1. k \in Nat /\ Len(s) \in Nat /\ DOMAIN s = 1 .. Len(s)
  OBVIOUS
<1>2. \A i \in 1 .. k : s[i] \in Range(s)
  BY <1>1 DEF Range
<1>3. /\ f \in Seq(Range(s)) /\ Len(f) = (IF 1 <= k THEN k - 1 + 1 ELSE 0)
      /\ \A i \in 1 .. k - 1 + 1 : f[i] = s[1 + i - 1]
  BY <1>1, <1>2, SubSeqProperties
<1> HIDE DEF f
<1>4. k - 1 + 1 = k /\ \A i \in 1 .. k : 1 + i - 1 = i
  BY <1>1
<1>5. Len(f) = k
  BY <1>1, <1>3
<1>6. DOMAIN f = 1 .. k
  BY <1>3, <1>5
<1>7. \A i \in 1 .. k : f[i] = s[i]
  BY <1>3, <1>4
<1> QED BY <1>3, <1>5, <1>6, <1>7 DEF FirstOf, f

(* The sum of the sizes of sets that have nothing in common.               *)
LEMMA SumOfParts ==
  ASSUME NEW S, IsFiniteSet(S), NEW f, NEW g, \A x \in S : IsFiniteSet(f[x]),
         \A x, y \in S : x # y => f[x] \cap f[y] = {},
         \A x \in S : g[x] = Cardinality(f[x])
  PROVE  /\ IsFiniteSet(UNION { f[x] : x \in S })
         /\ SumFunctionOnSet(g, S) = Cardinality(UNION { f[x] : x \in S })
<1> DEFINE all(U) == UNION { f[x] : x \in U }
           sum(U) == SumFunctionOnSet(g, U)
           C == { U \in SUBSET S : IsFiniteSet(all(U)) /\ sum(U) = Cardinality(all(U)) }
<1>1. \A x \in S : g[x] \in Nat
  BY FS_CardinalityType
<1>2. {} \in C
  <2>1. all({}) = {}
    OBVIOUS
  <2> QED BY <2>1, SumEmpty, FS_EmptySet
<1>3. ASSUME NEW U \in SUBSET S, NEW x \in S \ U, U \in C PROVE U \cup {x} \in C
  <2>1. all(U \cup {x}) = all(U) \cup f[x]
    OBVIOUS
  <2>2. all(U) \cap f[x] = {}
    OBVIOUS
  <2>3. IsFiniteSet(all(U)) /\ sum(U) = Cardinality(all(U)) /\ IsFiniteSet(U)
        /\ IsFiniteSet(f[x])
    BY <1>3, FS_Subset
  <2> HIDE DEF all
  <2>4. /\ IsFiniteSet(all(U) \cup f[x])
        /\ Cardinality(all(U) \cup f[x])
             = Cardinality(all(U)) + Cardinality(f[x]) - Cardinality(all(U) \cap f[x])
    BY <2>3, FS_Union
  <2>5. Cardinality(all(U) \cap f[x]) = 0
    BY <2>2, FS_EmptySet
  <2>6. sum(U \cup {x}) = sum(U) + g[x]
    BY <1>1, <2>3, SumAdd
  <2>7. Cardinality(all(U)) \in Nat /\ Cardinality(f[x]) \in Nat
    BY <2>3, FS_CardinalityType
  <2> HIDE DEF sum
  <2>8. Cardinality(all(U) \cup f[x]) = Cardinality(all(U)) + Cardinality(f[x])
    BY <2>4, <2>5, <2>7
  <2>9. g[x] = Cardinality(f[x])
    OBVIOUS
  <2>10. sum(U \cup {x}) = Cardinality(all(U \cup {x}))
    BY <2>1, <2>3, <2>6, <2>8, <2>9
  <2>11. IsFiniteSet(all(U \cup {x})) /\ U \cup {x} \in SUBSET S
    BY <2>1, <2>4
  <2> QED BY <2>10, <2>11
<1> HIDE DEF C
<1>4. S \in C
  BY <1>2, <1>3, SetInduct
<1> QED BY <1>4 DEF C
===============================================================================
