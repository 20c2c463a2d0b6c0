------------------------------ MODULE TotalsProofs ------------------------------
(***************************************************************************)
(* Facts about finite sums, for every component that has one.              *)
(***************************************************************************)
EXTENDS Totals, Integers, FiniteSetTheorems, TLAPS

-----------------------------------------------------------------------------
(* Sums.  The folds of the library are recursive functions on sets; what is *)
(* true of a sum is shown by induction over the subsets of a finite set.    *)

\* Induction over the subsets of a finite set, with a set of them for the predicate.
LEMMA SubsetInduction ==
  ASSUME NEW S, IsFiniteSet(S), NEW Good, {} \in Good,
         \A T \in SUBSET S : T # {} /\ (\A x \in T : T \ {x} \in Good) => T \in Good
  PROVE  SUBSET S \subseteq Good
<1> DEFINE Bad == (SUBSET S) \ Good
<1> SUFFICES ASSUME Bad # {} PROVE FALSE
  OBVIOUS
<1>1. IsWellFoundedOn(StrictSubsetOrdering(S), SUBSET S)
  BY FS_StrictSubsetOrderingWellFounded, FS_FiniteSubsetsOfFinite
<1>2. PICK T \in Bad : \A U \in Bad : <<U, T>> \notin StrictSubsetOrdering(S)
  <2>1. Bad \subseteq SUBSET S
    OBVIOUS
  <2> HIDE DEF Bad
  <2> QED
    BY <1>1, <2>1, WFMin
<1>3. ASSUME NEW x \in T PROVE T \ {x} \in Good
  <2>1. T \ {x} \in SUBSET S /\ T \ {x} # T
    BY <1>3
  <2>2. <<T \ {x}, T>> \in StrictSubsetOrdering(S)
    BY <2>1 DEF StrictSubsetOrdering
  <2> QED
    BY <1>2, <2>1, <2>2
<1> QED
  BY <1>3

-----------------------------------------------------------------------------
\* The recursive function behind Total.
Chosen(s) == CHOOSE x \in s : TRUE

Unfolds(f, S, h) ==
  h = [s \in SUBSET S |-> IF s = {} THEN 0 ELSE f[Chosen(s)] + h[s \ {Chosen(s)}]]

LEMMA ChosenIn ==
  ASSUME NEW s, s # {}
  PROVE  Chosen(s) \in s
BY DEF Chosen

LEMMA Agree ==
  ASSUME NEW f, NEW S, IsFiniteSet(S), NEW U, S \subseteq U,
         NEW g, Unfolds(f, S, g), NEW h, Unfolds(f, U, h)
  PROVE  g[S] = h[S]
<1> DEFINE Good == {s \in SUBSET S : g[s] = h[s]}
<1>1. {} \in Good
  BY DEF Unfolds
<1>2. ASSUME NEW s \in SUBSET S, s # {}, \A x \in s : s \ {x} \in Good PROVE s \in Good
  <2>1. g[s \ {Chosen(s)}] = h[s \ {Chosen(s)}]
    BY <1>2, ChosenIn
  <2>2. s \in SUBSET U
    OBVIOUS
  <2> QED
    BY <1>2, <2>1, <2>2 DEF Unfolds
<1>3. SUBSET S \subseteq Good
  <2> HIDE DEF Good
  <2> QED
    BY <1>1, <1>2, SubsetInduction
<1> QED
  BY <1>3

LEMMA Exists ==
  ASSUME NEW f, NEW S, IsFiniteSet(S)
  PROVE  \E h : Unfolds(f, S, h)
<1> DEFINE H(U) == CHOOSE h : Unfolds(f, U, h)
<1> DEFINE Good == {T \in SUBSET S : \A U \in SUBSET T : \E h : Unfolds(f, U, h)}
<1>1. {} \in Good
  <2>1. Unfolds(f, {}, [s \in {{}} |-> 0])
    BY DEF Unfolds
  <2> QED
    BY <2>1
<1>2. ASSUME NEW T \in SUBSET S, T # {}, \A x \in T : T \ {x} \in Good PROVE T \in Good
  <2> DEFINE v(s) == IF s = {} THEN 0 ELSE f[Chosen(s)] + H(s \ {Chosen(s)})[s \ {Chosen(s)}]
  <2> DEFINE h == [s \in SUBSET T |-> v(s)]
  <2>1. ASSUME NEW U \in SUBSET T, U # T PROVE \E k : Unfolds(f, U, k)
    <3>1. PICK x \in T : U \subseteq T \ {x}
      BY <2>1
    <3> QED
      BY <3>1, <1>2
  <2>2. ASSUME NEW U \in SUBSET T, U # T PROVE H(U)[U] = v(U)
    <3>1. Unfolds(f, U, H(U))
      BY <2>1, <2>2
    <3>2. CASE U = {}
      BY <3>1, <3>2 DEF Unfolds
    <3>3. CASE U # {}
      <4> DEFINE V == U \ {Chosen(U)}
      <4>1. V \in SUBSET T /\ V # T /\ V \subseteq U
        BY <2>2
      <4>2. Unfolds(f, V, H(V))
        BY <2>1, <4>1
      <4>3. IsFiniteSet(V)
        BY FS_Subset, <4>1
      <4>4. H(U)[V] = H(V)[V]
        <5> HIDE DEF V, H
        <5> QED
          BY <3>1, <4>1, <4>2, <4>3, Agree
      <4>5. H(U)[U] = f[Chosen(U)] + H(U)[V]
        <5> HIDE DEF H
        <5> QED
          BY <3>1, <3>3 DEF Unfolds
      <4> QED
        BY <3>3, <4>4, <4>5
    <3> QED
      BY <3>2, <3>3
  <2>3. Unfolds(f, T, h)
    <3> SUFFICES ASSUME NEW s \in SUBSET T
                 PROVE  v(s) = IF s = {} THEN 0 ELSE f[Chosen(s)] + h[s \ {Chosen(s)}]
      <4> HIDE DEF v
      <4> QED
        BY DEF Unfolds
    <3>1. CASE s = {}
      BY <3>1
    <3>2. CASE s # {}
      <4> DEFINE V == s \ {Chosen(s)}
      <4>1. V \in SUBSET T /\ V # T
        BY <3>2, ChosenIn
      <4>2. h[V] = v(V)
        BY <4>1
      <4>3. H(V)[V] = v(V)
        BY <4>1, <2>2
      <4>4. v(s) = f[Chosen(s)] + H(V)[V]
        BY <3>2
      <4> QED
        BY <3>2, <4>2, <4>3, <4>4
    <3> QED
      BY <3>1, <3>2
  <2> QED
    BY <2>1, <2>3
<1>3. SUBSET S \subseteq Good
  <2> HIDE DEF Good
  <2> QED
    BY <1>1, <1>2, SubsetInduction
<1> QED
  BY <1>3

LEMMA TotalUnfolds ==
  ASSUME NEW f, NEW S, IsFiniteSet(S)
  PROVE  \E h : Unfolds(f, S, h) /\ Total(f, S) = h[S]
<1>1. Total(f, S) = (CHOOSE h : Unfolds(f, S, h))[S]
  BY DEF Total, MapThenSumSet, MapThenFoldSet, Unfolds, Chosen
<1> QED
  BY <1>1, Exists

LEMMA TotalIs ==
  ASSUME NEW f, NEW S, IsFiniteSet(S), NEW h, Unfolds(f, S, h), NEW T \in SUBSET S
  PROVE  Total(f, T) = h[T]
<1>1. IsFiniteSet(T)
  BY FS_Subset
<1>2. PICK k : Unfolds(f, T, k) /\ Total(f, T) = k[T]
  BY <1>1, TotalUnfolds
<1>3. k[T] = h[T]
  <2>1. T \subseteq S /\ Unfolds(f, T, k)
    BY <1>2
  <2> QED
    BY <1>1, <2>1, Agree
<1> QED
  BY <1>2, <1>3

LEMMA TotalEmpty ==
  ASSUME NEW f
  PROVE  Total(f, {}) = 0
<1>1. PICK h : Unfolds(f, {}, h) /\ Total(f, {}) = h[{}]
  BY TotalUnfolds, FS_EmptySet
<1> QED
  BY <1>1 DEF Unfolds

LEMMA TotalChosen ==
  ASSUME NEW f, NEW S, IsFiniteSet(S), S # {}
  PROVE  Total(f, S) = f[Chosen(S)] + Total(f, S \ {Chosen(S)})
<1> DEFINE T == S \ {Chosen(S)}
<1>1. PICK h : Unfolds(f, S, h) /\ Total(f, S) = h[S]
  BY TotalUnfolds
<1>2. Total(f, T) = h[T]
  BY <1>1, TotalIs
<1>3. h[S] = f[Chosen(S)] + h[T]
  BY <1>1 DEF Unfolds
<1> QED
  BY <1>1, <1>2, <1>3

LEMMA TotalSame ==
  ASSUME NEW S, IsFiniteSet(S), NEW f, NEW g, \A x \in S : f[x] = g[x]
  PROVE  Total(f, S) = Total(g, S)
<1> DEFINE Good == {s \in SUBSET S : Total(f, s) = Total(g, s)}
<1>1. {} \in Good
  BY TotalEmpty
<1>2. ASSUME NEW s \in SUBSET S, s # {}, \A x \in s : s \ {x} \in Good PROVE s \in Good
  <2> DEFINE c == Chosen(s)
  <2>1. IsFiniteSet(s) /\ c \in s
    BY <1>2, FS_Subset, ChosenIn
  <2>2. Total(f, s) = f[c] + Total(f, s \ {c}) /\ Total(g, s) = g[c] + Total(g, s \ {c})
    BY <1>2, <2>1, TotalChosen
  <2>3. f[c] = g[c] /\ Total(f, s \ {c}) = Total(g, s \ {c})
    BY <1>2, <2>1
  <2> HIDE DEF c
  <2>4. Total(f, s) = Total(g, s)
    BY <2>2, <2>3
  <2> QED
    BY <2>4
<1>3. SUBSET S \subseteq Good
  <2> HIDE DEF Good
  <2> QED
    BY <1>1, <1>2, SubsetInduction
<1> QED
  BY <1>3

LEMMA TotalInt ==
  ASSUME NEW S, IsFiniteSet(S), NEW f, \A x \in S : f[x] \in Int
  PROVE  Total(f, S) \in Int
<1> DEFINE Good == {s \in SUBSET S : Total(f, s) \in Int}
<1>1. {} \in Good
  BY TotalEmpty
<1>2. ASSUME NEW s \in SUBSET S, s # {}, \A x \in s : s \ {x} \in Good PROVE s \in Good
  <2>1. IsFiniteSet(s) /\ Chosen(s) \in s
    BY <1>2, FS_Subset, ChosenIn
  <2>2. f[Chosen(s)] \in Int /\ Total(f, s \ {Chosen(s)}) \in Int
    BY <1>2, <2>1
  <2> QED
    BY <1>2, <2>1, <2>2, TotalChosen
<1>3. SUBSET S \subseteq Good
  <2> HIDE DEF Good
  <2> QED
    BY <1>1, <1>2, SubsetInduction
<1> QED
  BY <1>3

LEMMA TotalStep ==
  ASSUME NEW S, IsFiniteSet(S), NEW f, \A x \in S : f[x] \in Int, NEW x \in S
  PROVE  Total(f, S) = f[x] + Total(f, S \ {x})
<1> DEFINE Good == {s \in SUBSET S : \A y \in s : Total(f, s) = f[y] + Total(f, s \ {y})}
<1>1. {} \in Good
  OBVIOUS
<1>2. ASSUME NEW s \in SUBSET S, s # {}, \A z \in s : s \ {z} \in Good PROVE s \in Good
  <2> SUFFICES ASSUME NEW y \in s PROVE Total(f, s) = f[y] + Total(f, s \ {y})
    OBVIOUS
  <2> DEFINE c == Chosen(s)
  <2>1. IsFiniteSet(s) /\ c \in s
    BY <1>2, FS_Subset, ChosenIn
  <2> HIDE DEF c
  <2>2. Total(f, s) = f[c] + Total(f, s \ {c})
    BY <1>2, <2>1, TotalChosen DEF c
  <2>3. CASE y = c
    BY <2>2, <2>3
  <2>4. CASE y # c
    <3>1. y \in s \ {c} /\ c \in s \ {y}
      BY <2>1, <2>4
    <3>2. Total(f, s \ {c}) = f[y] + Total(f, (s \ {c}) \ {y})
      BY <1>2, <2>1, <3>1
    <3>3. Total(f, s \ {y}) = f[c] + Total(f, (s \ {y}) \ {c})
      BY <1>2, <2>1, <3>1
    <3>4. (s \ {c}) \ {y} = (s \ {y}) \ {c}
      OBVIOUS
    <3>5. IsFiniteSet((s \ {y}) \ {c})
      BY <2>1, FS_Subset
    <3>6. Total(f, (s \ {y}) \ {c}) \in Int /\ f[c] \in Int /\ f[y] \in Int
      BY <2>1, <3>5, TotalInt
    <3> DEFINE rest == Total(f, (s \ {y}) \ {c})
    <3>7. Total(f, s \ {c}) = f[y] + rest /\ Total(f, s \ {y}) = f[c] + rest
      BY <3>2, <3>3, <3>4
    <3> HIDE DEF rest
    <3>8. rest \in Int
      BY <3>6 DEF rest
    <3> QED
      BY <2>2, <3>6, <3>7, <3>8
  <2> QED
    BY <2>3, <2>4
<1>3. SUBSET S \subseteq Good
  <2> HIDE DEF Good
  <2> QED
    BY <1>1, <1>2, SubsetInduction
<1> QED
  BY <1>3

LEMMA TotalAdd ==
  ASSUME NEW S, IsFiniteSet(S), NEW f, NEW g, NEW k,
         \A x \in S : f[x] \in Int /\ g[x] \in Int /\ k[x] = f[x] + g[x]
  PROVE  Total(k, S) = Total(f, S) + Total(g, S)
<1> DEFINE Good == {s \in SUBSET S : Total(k, s) = Total(f, s) + Total(g, s)}
<1>1. {} \in Good
  BY TotalEmpty
<1>2. ASSUME NEW s \in SUBSET S, s # {}, \A z \in s : s \ {z} \in Good PROVE s \in Good
  <2> DEFINE c == Chosen(s)
  <2> DEFINE r == s \ {c}
  <2>1. IsFiniteSet(s) /\ IsFiniteSet(r) /\ c \in s
    BY <1>2, FS_Subset, ChosenIn
  <2>2. Total(f, r) \in Int /\ Total(g, r) \in Int
    BY <2>1, TotalInt
  <2>3. Total(k, r) = Total(f, r) + Total(g, r)
    BY <1>2, <2>1
  <2>4. /\ Total(f, s) = f[c] + Total(f, r)
        /\ Total(g, s) = g[c] + Total(g, r)
        /\ Total(k, s) = k[c] + Total(k, r)
    BY <1>2, <2>1, TotalChosen
  <2>5. f[c] \in Int /\ g[c] \in Int /\ k[c] = f[c] + g[c]
    BY <2>1
  <2> HIDE DEF c, r
  <2>6. Total(k, s) = Total(f, s) + Total(g, s)
    BY <2>2, <2>3, <2>4, <2>5
  <2> QED
    BY <2>6
<1>3. SUBSET S \subseteq Good
  <2> HIDE DEF Good
  <2> QED
    BY <1>1, <1>2, SubsetInduction
<1> QED
  BY <1>3

LEMMA TotalZero ==
  ASSUME NEW S, IsFiniteSet(S), NEW f, \A x \in S : f[x] = 0
  PROVE  Total(f, S) = 0
<1>1. Total(f, S) = Total(f, S) + Total(f, S)
  BY TotalAdd
<1> QED
  BY <1>1, TotalInt

LEMMA TotalNat ==
  ASSUME NEW S, IsFiniteSet(S), NEW f, \A x \in S : f[x] \in Nat
  PROVE  Total(f, S) \in Nat
<1> DEFINE Good == {s \in SUBSET S : Total(f, s) \in Nat}
<1>1. {} \in Good
  BY TotalEmpty
<1>2. ASSUME NEW s \in SUBSET S, s # {}, \A x \in s : s \ {x} \in Good PROVE s \in Good
  <2>1. IsFiniteSet(s) /\ Chosen(s) \in s
    BY <1>2, FS_Subset, ChosenIn
  <2>2. f[Chosen(s)] \in Nat /\ Total(f, s \ {Chosen(s)}) \in Nat
    BY <1>2, <2>1
  <2> QED
    BY <1>2, <2>1, <2>2, TotalChosen
<1>3. SUBSET S \subseteq Good
  <2> HIDE DEF Good
  <2> QED
    BY <1>1, <1>2, SubsetInduction
<1> QED
  BY <1>3

\* One argument differs.
LEMMA TotalExcept ==
  ASSUME NEW S, IsFiniteSet(S), NEW f, NEW g, NEW x \in S,
         \A y \in S : f[y] \in Int /\ g[y] \in Int /\ (y # x => g[y] = f[y])
  PROVE  Total(g, S) = Total(f, S) - f[x] + g[x]
<1>1. IsFiniteSet(S \ {x})
  BY FS_Subset
<1>2. Total(g, S \ {x}) = Total(f, S \ {x})
  BY <1>1, TotalSame
<1>3. Total(f, S \ {x}) \in Int
  BY <1>1, TotalInt
<1> QED
  BY <1>2, <1>3, TotalStep

\* Arguments where f is 0 do not count.
LEMMA TotalSupport ==
  ASSUME NEW S, IsFiniteSet(S), NEW f, NEW T \in SUBSET S, \A x \in S : f[x] \in Int,
         \A x \in S \ T : f[x] = 0
  PROVE  Total(f, T) = Total(f, S)
<1> DEFINE Good == {s \in SUBSET S : Total(f, s) = Total(f, s \intersect T)}
<1>1. {} \in Good
  OBVIOUS
<1>2. ASSUME NEW s \in SUBSET S, s # {}, \A x \in s : s \ {x} \in Good PROVE s \in Good
  <2> DEFINE c == Chosen(s)
  <2>1. IsFiniteSet(s) /\ IsFiniteSet(s \intersect T) /\ IsFiniteSet(s \ {c}) /\ c \in s
    BY <1>2, FS_Subset, ChosenIn
  <2> HIDE DEF c
  <2>2. Total(f, s) = f[c] + Total(f, s \ {c})
    BY <2>1, TotalStep
  <2>3. Total(f, s \ {c}) = Total(f, (s \ {c}) \intersect T)
    BY <1>2, <2>1
  <2>4. CASE c \in T
    <3>1. Total(f, s \intersect T) = f[c] + Total(f, (s \intersect T) \ {c})
      BY <2>1, <2>4, TotalStep
    <3>2. (s \intersect T) \ {c} = (s \ {c}) \intersect T
      OBVIOUS
    <3> QED
      BY <2>2, <2>3, <3>1, <3>2
  <2>5. CASE c \notin T
    <3>1. (s \ {c}) \intersect T = s \intersect T
      BY <2>5
    <3>2. f[c] = 0
      BY <2>1, <2>5
    <3>3. Total(f, s \intersect T) \in Int
      BY <2>1, TotalInt
    <3>4. Total(f, s \ {c}) = Total(f, s \intersect T)
      BY <2>3, <3>1
    <3>5. Total(f, s) = Total(f, s \intersect T)
      BY <2>2, <3>2, <3>3, <3>4
    <3> QED
      BY <3>5
  <2> QED
    BY <2>4, <2>5
<1>3. SUBSET S \subseteq Good
  <2> HIDE DEF Good
  <2> QED
    BY <1>1, <1>2, SubsetInduction
<1>4. S \intersect T = T
  OBVIOUS
<1> QED
  BY <1>3, <1>4

ByClass(f, S, class, K) == [k \in K |-> Total(f, {x \in S : class[x] = k})]

\* A sum is the sum of the sums over the classes of its arguments.
LEMMA TotalByClass ==
  ASSUME NEW S, IsFiniteSet(S), NEW f, \A x \in S : f[x] \in Int,
         NEW K, IsFiniteSet(K), NEW class \in [S -> K]
  PROVE  Total(f, S) = Total(ByClass(f, S, class, K), K)
<1> DEFINE In(s, k) == {x \in s : class[x] = k}
           Sums(s) == [k \in K |-> Total(f, In(s, k))]
           Good == {s \in SUBSET S : Total(f, s) = Total(Sums(s), K)}
<1>1. {} \in Good
  <2>1. \A k \in K : In({}, k) = {}
    OBVIOUS
  <2>2. \A k \in K : Sums({})[k] = 0
    BY <2>1, TotalEmpty
  <2> HIDE DEF Sums
  <2>3. Total(Sums({}), K) = 0
    BY <2>2, TotalZero
  <2> QED
    BY <2>3, TotalEmpty
<1>2. ASSUME NEW s \in SUBSET S, s # {}, \A x \in s : s \ {x} \in Good PROVE s \in Good
  <2>1. PICK c \in s : TRUE
    BY <1>2
  <2> DEFINE r == s \ {c}
             d == class[c]
  <2>2. IsFiniteSet(s) /\ r \in SUBSET S /\ d \in K
    BY FS_Subset
  <2>3. \A k \in K : IsFiniteSet(In(s, k)) /\ IsFiniteSet(In(r, k))
    BY <2>2, FS_Subset
  <2>4. \A k \in K : Sums(s)[k] \in Int /\ Sums(r)[k] \in Int
    BY <2>2, <2>3, TotalInt
  <2>5. \A k \in K : k # d => In(s, k) = In(r, k)
    OBVIOUS
  <2>6. In(s, d) \ {c} = In(r, d) /\ c \in In(s, d)
    OBVIOUS
  <2>7. Total(f, In(s, d)) = f[c] + Total(f, In(r, d))
    <3>1. \A x \in In(s, d) : f[x] \in Int
      OBVIOUS
    <3>2. IsFiniteSet(In(s, d))
      BY <2>2, <2>3
    <3> HIDE DEF In
    <3>3. Total(f, In(s, d)) = f[c] + Total(f, In(s, d) \ {c})
      BY <2>6, <3>1, <3>2, TotalStep
    <3> QED
      BY <2>6, <3>3
  <2>8. Sums(s)[d] = f[c] + Sums(r)[d] /\ \A k \in K : k # d => Sums(s)[k] = Sums(r)[k]
    BY <2>2, <2>5, <2>7
  <2>9. Total(f, s) = f[c] + Total(f, r)
    BY <2>2, TotalStep
  <2>10. Total(f, r) = Total(Sums(r), K)
    BY <1>2
  <2>11. f[c] \in Int
    OBVIOUS
  <2> HIDE DEF Sums, r, d
  <2>12. Total(Sums(s), K) = Total(Sums(r), K) - Sums(r)[d] + Sums(s)[d]
    BY <2>2, <2>4, <2>8, TotalExcept
  <2>13. Total(Sums(r), K) \in Int
    BY <2>4, TotalInt
  <2>14. Total(Sums(s), K) = f[c] + Total(Sums(r), K)
    BY <2>2, <2>4, <2>8, <2>11, <2>12, <2>13
  <2> QED
    BY <2>9, <2>10, <2>14
<1>3. SUBSET S \subseteq Good
  <2> HIDE DEF Good
  <2> QED
    BY <1>1, <1>2, SubsetInduction
<1>4. Sums(S) = ByClass(f, S, class, K)
  BY DEF ByClass
<1> QED
  BY <1>3, <1>4

LEMMA FinitePair ==
  ASSUME NEW x, NEW y
  PROVE  IsFiniteSet({x, y}) /\ IsFiniteSet({y})
<1>1. {y} \union {x} = {x, y} /\ {} \union {y} = {y}
  OBVIOUS
<1>2. IsFiniteSet({} \union {y})
  BY FS_EmptySet, FS_AddElement
<1>3. IsFiniteSet({y} \union {x})
  BY <1>1, <1>2, FS_AddElement
<1> QED
  BY <1>1, <1>2, <1>3

LEMMA TotalPair ==
  ASSUME NEW f, NEW x, NEW y, x # y, f[x] \in Int, f[y] \in Int
  PROVE  Total(f, {x, y}) = f[x] + f[y]
<1>1. IsFiniteSet({x, y}) /\ IsFiniteSet({y})
  BY FinitePair
<1>2. Total(f, {x, y}) = f[x] + Total(f, {y})
  <2>1. {x, y} \ {x} = {y}
    OBVIOUS
  <2>2. Total(f, {x, y}) = f[x] + Total(f, {x, y} \ {x})
    BY <1>1, TotalStep
  <2> QED
    BY <2>1, <2>2
<1>3. Total(f, {y}) = f[y] + Total(f, {})
  <2>1. {y} \ {y} = {}
    OBVIOUS
  <2>2. Total(f, {y}) = f[y] + Total(f, {y} \ {y})
    BY <1>1, TotalStep
  <2> QED
    BY <2>1, <2>2
<1> QED
  BY <1>2, <1>3, TotalEmpty

\* A finite set has an element with the least number.
LEMMA LeastOf ==
  ASSUME NEW S, IsFiniteSet(S), S # {}, NEW f, \A x \in S : f[x] \in Nat
  PROVE  \E x \in S : \A y \in S : f[x] <= f[y]
<1> DEFINE Good == {s \in SUBSET S : s = {} \/ \E x \in s : \A y \in s : f[x] <= f[y]}
<1>1. {} \in Good
  OBVIOUS
<1>2. ASSUME NEW s \in SUBSET S, s # {}, \A x \in s : s \ {x} \in Good PROVE s \in Good
  <2>1. PICK x \in s : TRUE
    BY <1>2
  <2>2. CASE s \ {x} = {}
    <3>1. \A y \in s : f[x] <= f[y]
      BY <2>2
    <3> QED
      BY <3>1
  <2>3. CASE s \ {x} # {}
    <3>1. PICK z \in s \ {x} : \A y \in s \ {x} : f[z] <= f[y]
      BY <1>2, <2>3
    <3>2. f[x] \in Nat /\ f[z] \in Nat /\ \A y \in s : f[y] \in Nat
      OBVIOUS
    <3>3. CASE f[x] <= f[z]
      <4>1. \A y \in s : f[x] <= f[y]
        BY <3>1, <3>2, <3>3
      <4> QED
        BY <4>1
    <3>4. CASE ~(f[x] <= f[z])
      <4>1. \A y \in s : f[z] <= f[y]
        BY <3>1, <3>2, <3>4
      <4> QED
        BY <4>1
    <3> QED
      BY <3>3, <3>4
  <2> QED
    BY <2>2, <2>3
<1>3. SUBSET S \subseteq Good
  <2> HIDE DEF Good
  <2> QED
    BY <1>1, <1>2, SubsetInduction
<1> QED
  BY <1>3

\* A sum of larger terms is larger, and so is a sum than one of its terms.
LEMMA TotalAtMost ==
  ASSUME NEW S, IsFiniteSet(S), NEW f, NEW g,
         \A x \in S : f[x] \in Int /\ g[x] \in Int /\ f[x] <= g[x]
  PROVE  Total(f, S) <= Total(g, S)
<1>1. PICK k : k = [x \in S |-> g[x] - f[x]]
  OBVIOUS
<1>2. \A x \in S : f[x] \in Int /\ k[x] \in Int /\ g[x] = f[x] + k[x]
  BY <1>1
<1>3. \A x \in S : k[x] \in Nat
  BY <1>1
<1>4. Total(g, S) = Total(f, S) + Total(k, S)
  BY <1>2, TotalAdd
<1>5. Total(f, S) \in Int /\ Total(k, S) \in Nat
  BY <1>2, <1>3, TotalInt, TotalNat
<1> QED
  BY <1>4, <1>5

LEMMA OneOfTotal ==
  ASSUME NEW S, IsFiniteSet(S), NEW f, \A x \in S : f[x] \in Nat, NEW x \in S
  PROVE  f[x] <= Total(f, S)
<1>1. IsFiniteSet(S \ {x}) /\ \A y \in S : f[y] \in Int
  BY FS_Subset
<1>2. Total(f, S) = f[x] + Total(f, S \ {x})
  BY <1>1, TotalStep
<1>3. Total(f, S \ {x}) \in Nat
  BY <1>1, TotalNat
<1> QED
  BY <1>2, <1>3

================================================================================
