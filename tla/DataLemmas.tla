----------------------------- MODULE DataLemmas -----------------------------
(***************************************************************************)
(* Facts about finite sets, sums over them and prefixes of sequences, which *)
(* the proofs of several components rest on.  Induction is stated with a    *)
(* set of the arguments for which the claim holds.                          *)
(***************************************************************************)
EXTENDS Integers, Sequences, FiniteSets, FiniteSetsExt, Functions, FiniteSetTheorems,
        WellFoundedInduction, SequenceTheorems, TLAPS

-----------------------------------------------------------------------------
(* Induction *)

\* A nonempty family of subsets of a finite set has a least one.
LEMMA LeastSubset ==
    ASSUME NEW S, IsFiniteSet(S), NEW Bad, Bad # {}, \A U \in Bad : U \subseteq S
    PROVE  \E U \in Bad : \A V \in Bad : V \subseteq U => V = U
<1>1. Bad \subseteq FiniteSubsetsOf(S)
  BY FS_Subset DEF FiniteSubsetsOf
<1>2. PICK U \in Bad : \A V \in Bad : <<V, U>> \notin StrictSubsetOrdering(S)
  BY <1>1, FS_StrictSubsetOrderingWellFounded, WFMin
<1>3. ASSUME NEW V \in Bad, V \subseteq U, V # U
      PROVE  FALSE
  BY <1>1, <1>2, <1>3 DEF StrictSubsetOrdering, FiniteSubsetsOf
<1> QED
  BY <1>3

\* What holds of a set whenever it holds of its strict subsets, holds.
LEMMA SubsetInduction ==
    ASSUME NEW S, IsFiniteSet(S), NEW G,
           \A T \in SUBSET S : (\A U \in SUBSET T : U # T => U \in G) => T \in G
    PROVE  SUBSET S \subseteq G
<1> DEFINE Bad == {U \in SUBSET S : U \notin G}
<1> SUFFICES ASSUME Bad # {}
             PROVE  FALSE
  OBVIOUS
<1>1. PICK U \in Bad : \A V \in Bad : V \subseteq U => V = U
  <2>1. \A U \in Bad : U \subseteq S
    OBVIOUS
  <2> HIDE DEF Bad
  <2> QED
    BY <2>1, LeastSubset
<1>2. \A V \in SUBSET U : V # U => V \in G
  BY <1>1
<1> QED
  BY <1>1, <1>2

\* What holds of 0, and of n + 1 whenever it holds of n, holds.
LEMMA NaturalInduction ==
    ASSUME NEW G, 0 \in G, \A n \in Nat : n \in G => n + 1 \in G
    PROVE  Nat \subseteq G
<1> SUFFICES ASSUME NEW m \in Nat, m \notin G
             PROVE  FALSE
  OBVIOUS
<1> DEFINE Bad == {U \in SUBSET (1 .. m) : \E k \in 0 .. m : U = 1 .. k /\ k \notin G}
<1>1. 1 .. m \in Bad /\ IsFiniteSet(1 .. m)
  BY FS_Interval
<1>2. PICK U \in Bad : \A V \in Bad : V \subseteq U => V = U
  <2>1. \A U \in Bad : U \subseteq 1 .. m
    OBVIOUS
  <2>2. Bad # {}
    BY <1>1
  <2>3. IsFiniteSet(1 .. m)
    BY <1>1
  <2> HIDE DEF Bad
  <2> QED
    BY <2>1, <2>2, <2>3, LeastSubset
<1>3. PICK k \in 0 .. m : U = 1 .. k /\ k \notin G
  OBVIOUS
<1>4. k # 0 /\ k - 1 \in 0 .. m /\ k - 1 \in Nat
  BY <1>3
<1>5. k - 1 \notin G
  BY <1>3, <1>4, (k - 1) + 1 = k
<1>6. 1 .. (k - 1) \in Bad /\ 1 .. (k - 1) \subseteq 1 .. k
  BY <1>4, <1>5
<1>7. k \in 1 .. k /\ k \notin 1 .. (k - 1)
  BY <1>4
<1> QED
  BY <1>2, <1>3, <1>6, <1>7

-----------------------------------------------------------------------------
(* Sums over finite sets *)

\* The function by which the library defines the sum of f over S.
Picked(s) == CHOOSE x \in s : TRUE
Sums(g, f, D) ==
    g = [s \in D |-> IF s = {} THEN 0 ELSE f[Picked(s)] + g[s \ {Picked(s)}]]

Totals(g, f, S) == Sums(g, f, SUBSET S)

LEMMA SumIsFold ==
    ASSUME NEW f, NEW S
    PROVE  SumFunctionOnSet(f, S) = (CHOOSE g : Totals(g, f, S))[S]
BY DEF SumFunctionOnSet, FoldFunctionOnSet, MapThenFoldSet, Sums, Totals, Picked

LEMMA PickedIn ==
    ASSUME NEW s, s # {}
    PROVE  Picked(s) \in s
BY DEF Picked

\* There is such a function: it is built from the small subsets up.
LEMMA SumsExists ==
    ASSUME NEW f, NEW S, IsFiniteSet(S)
    PROVE  \E g : Totals(g, f, S)
<1> DEFINE D(n) == {s \in SUBSET S : Cardinality(s) <= n}
           G == {n \in Nat : \E g : Sums(g, f, D(n))}
<1>1. \A s \in SUBSET S : IsFiniteSet(s) /\ Cardinality(s) \in Nat
  BY FS_Subset, FS_CardinalityType
<1>2. \A n \in Nat : \A s \in D(n + 1) : s # {} => s \ {Picked(s)} \in D(n)
  <2> SUFFICES ASSUME NEW n \in Nat, NEW s \in D(n + 1), s # {}
               PROVE  s \ {Picked(s)} \in D(n)
    OBVIOUS
  <2>1. Cardinality(s \ {Picked(s)}) = Cardinality(s) - 1
    BY <1>1, PickedIn, FS_RemoveElement
  <2> QED
    BY <1>1, <2>1
<1>3. \A n \in Nat : D(n) \subseteq D(n + 1)
  BY <1>1
<1>4. 0 \in G
  <2>1. D(0) = {{}}
    BY <1>1, FS_EmptySet
  <2>2. Sums([s \in D(0) |-> 0], f, D(0))
    BY <2>1 DEF Sums, Totals
  <2> QED
    BY <2>2
<1>5. \A n \in Nat : n \in G => n + 1 \in G
  <2> SUFFICES ASSUME NEW n \in Nat, n \in G
               PROVE  n + 1 \in G
    OBVIOUS
  <2>0. PICK g : Sums(g, f, D(n))
    OBVIOUS
  <2> DEFINE h == [s \in D(n + 1) |-> IF s = {} THEN 0 ELSE f[Picked(s)] + g[s \ {Picked(s)}]]
  <2>1. \A s \in D(n) : g[s] = IF s = {} THEN 0 ELSE f[Picked(s)] + g[s \ {Picked(s)}]
    <3> HIDE DEF D
    <3> QED BY <2>0 DEF Sums, Totals
  <2>2. \A s \in D(n) : h[s] = g[s]
    <3> HIDE DEF D
    <3> QED BY <1>3, <2>1
  <2>3. h = [s \in D(n + 1) |-> IF s = {} THEN 0 ELSE f[Picked(s)] + h[s \ {Picked(s)}]]
    <3>1. \A s \in D(n + 1) : s # {} => h[s \ {Picked(s)}] = g[s \ {Picked(s)}]
      <4> HIDE DEF D, h
      <4> QED BY <1>2, <2>2
    <3> HIDE DEF D
    <3> QED BY <3>1, Zenon
  <2>4. Sums(h, f, D(n + 1))
    <3> HIDE DEF D, h
    <3> QED BY <2>3 DEF Sums, Totals
  <2> QED
    <3>1. \E k : Sums(k, f, D(n + 1))
      <4> HIDE DEF D, h
      <4> QED BY <2>4
    <3> HIDE DEF D
    <3> QED
      BY <3>1, n + 1 \in Nat, Zenon
<1>6. Cardinality(S) \in G
  <2> HIDE DEF G
  <2> QED BY <1>1, <1>4, <1>5, NaturalInduction
<1>7. D(Cardinality(S)) = SUBSET S
  BY <1>1, FS_Subset
<1> QED
  BY <1>6, <1>7, Zenon DEF Totals

\* Two such functions agree where both are defined.
LEMMA SumsAgree ==
    ASSUME NEW f, NEW S, IsFiniteSet(S), NEW T, T \subseteq S,
           NEW g, Totals(g, f, S), NEW h, Totals(h, f, T)
    PROVE  g[T] = h[T]
<1> DEFINE G == {s \in SUBSET T : g[s] = h[s]}
<1>1. IsFiniteSet(T)
  BY FS_Subset
<1>2. ASSUME NEW s \in SUBSET T, \A u \in SUBSET s : u # s => u \in G
      PROVE  s \in G
  <2>1. /\ g[s] = IF s = {} THEN 0 ELSE f[Picked(s)] + g[s \ {Picked(s)}]
        /\ h[s] = IF s = {} THEN 0 ELSE f[Picked(s)] + h[s \ {Picked(s)}]
    BY DEF Sums, Totals
  <2>2. s # {} => g[s \ {Picked(s)}] = h[s \ {Picked(s)}]
    BY <1>2, PickedIn
  <2> QED
    BY <2>1, <2>2
<1>3. SUBSET T \subseteq G
  <2> HIDE DEF G
  <2> QED BY <1>1, <1>2, SubsetInduction
<1> QED
  BY <1>3

\* Any such function gives the sums over the sets it is defined on.
LEMMA SumIs ==
    ASSUME NEW f, NEW S, IsFiniteSet(S), NEW T, T \subseteq S, NEW g, Totals(g, f, S)
    PROVE  SumFunctionOnSet(f, T) = g[T]
<1> DEFINE h == CHOOSE k : Totals(k, f, T)
<1>1. Totals(h, f, T)
  BY SumsExists, FS_Subset
<1>2. \A k : Totals(k, f, T) => g[T] = k[T]
  BY SumsAgree
<1> QED
  BY <1>1, <1>2, SumIsFold

LEMMA SumEmpty ==
    ASSUME NEW f
    PROVE  SumFunctionOnSet(f, {}) = 0
<1>1. PICK g : Totals(g, f, {})
  BY SumsExists, FS_EmptySet
<1>2. SumFunctionOnSet(f, {}) = g[{}]
  BY <1>1, SumIs, FS_EmptySet
<1>3. g[{}] = 0
  BY <1>1 DEF Totals, Sums
<1> QED
  BY <1>2, <1>3

\* The sum loses the element the library picks.
LEMMA SumStep ==
    ASSUME NEW f, NEW S, IsFiniteSet(S), S # {}
    PROVE  SumFunctionOnSet(f, S) = f[Picked(S)] + SumFunctionOnSet(f, S \ {Picked(S)})
<1>1. PICK g : Totals(g, f, S)
  BY SumsExists
<1>2. g[S] = f[Picked(S)] + g[S \ {Picked(S)}]
  BY <1>1 DEF Sums, Totals
<1>3. SumFunctionOnSet(f, S) = g[S]
  BY <1>1, SumIs
<1>4. SumFunctionOnSet(f, S \ {Picked(S)}) = g[S \ {Picked(S)}]
  BY <1>1, SumIs
<1> QED
  BY <1>2, <1>3, <1>4

LEMMA SumType ==
    ASSUME NEW f, NEW S, IsFiniteSet(S), \A x \in S : f[x] \in Int
    PROVE  SumFunctionOnSet(f, S) \in Int
<1> DEFINE G == {T \in SUBSET S : SumFunctionOnSet(f, T) \in Int}
<1>1. ASSUME NEW T \in SUBSET S, \A U \in SUBSET T : U # T => U \in G
      PROVE  T \in G
  <2>1. CASE T = {}
    BY <2>1, SumEmpty
  <2>2. CASE T # {}
    <3>1. IsFiniteSet(T) /\ Picked(T) \in T
      BY <2>2, PickedIn, FS_Subset
    <3>2. T \ {Picked(T)} \in G /\ f[Picked(T)] \in Int
      BY <1>1, <3>1
    <3>3. SumFunctionOnSet(f, T) = f[Picked(T)] + SumFunctionOnSet(f, T \ {Picked(T)})
      BY <2>2, <3>1, SumStep
    <3> QED
      BY <3>2, <3>3
  <2> QED
    BY <2>1, <2>2
<1>2. SUBSET S \subseteq G
  <2> HIDE DEF G
  <2> QED BY <1>1, SubsetInduction
<1> QED
  BY <1>2

\* The sum loses any element.
LEMMA SumRemove ==
    ASSUME NEW f, NEW S, IsFiniteSet(S), \A x \in S : f[x] \in Int, NEW x \in S
    PROVE  SumFunctionOnSet(f, S) = f[x] + SumFunctionOnSet(f, S \ {x})
<1> DEFINE G == {T \in SUBSET S :
                   \A y \in T : SumFunctionOnSet(f, T) = f[y] + SumFunctionOnSet(f, T \ {y})}
<1>1. ASSUME NEW T \in SUBSET S, \A U \in SUBSET T : U # T => U \in G
      PROVE  T \in G
  <2> SUFFICES ASSUME NEW y \in T
               PROVE  SumFunctionOnSet(f, T) = f[y] + SumFunctionOnSet(f, T \ {y})
    OBVIOUS
  <2>1. IsFiniteSet(T)
    BY FS_Subset
  <2>2. PICK z \in T : SumFunctionOnSet(f, T) = f[z] + SumFunctionOnSet(f, T \ {z})
    BY <2>1, PickedIn, SumStep
  <2>3. CASE y = z
    BY <2>2, <2>3
  <2>4. CASE y # z
    <3>1. SumFunctionOnSet(f, T \ {z}) = f[y] + SumFunctionOnSet(f, (T \ {z}) \ {y})
      <4>1. T \ {z} \in G
        BY <1>1, <2>1
      <4> QED
        BY <2>4, <4>1
    <3>2. SumFunctionOnSet(f, T \ {y}) = f[z] + SumFunctionOnSet(f, (T \ {z}) \ {y})
      <4>1. T \ {y} \in G /\ z \in T \ {y}
        BY <1>1, <2>4
      <4>2. (T \ {z}) \ {y} = (T \ {y}) \ {z}
        OBVIOUS
      <4> QED
        BY <4>1, <4>2
    <3>4. /\ f[y] \in Int /\ f[z] \in Int
          /\ SumFunctionOnSet(f, (T \ {z}) \ {y}) \in Int
      <4>1. IsFiniteSet((T \ {z}) \ {y}) /\ \A u \in (T \ {z}) \ {y} : f[u] \in Int
        BY <2>1, FS_Subset
      <4> QED
        BY <2>1, <4>1, SumType
    <3> QED
      BY <2>2, <3>1, <3>2, <3>4
  <2> QED
    BY <2>3, <2>4
<1>2. SUBSET S \subseteq G
  <2> HIDE DEF G
  <2> QED BY <1>1, SubsetInduction
<1> QED
  BY <1>2

\* The sum gains an element.
LEMMA SumAdd ==
    ASSUME NEW f, NEW S, IsFiniteSet(S), NEW x, x \notin S, f[x] \in Int, \A y \in S : f[y] \in Int
    PROVE  SumFunctionOnSet(f, S \cup {x}) = SumFunctionOnSet(f, S) + f[x]
<1>1. IsFiniteSet(S \cup {x}) /\ \A y \in S \cup {x} : f[y] \in Int
  BY FS_AddElement
<1>2. SumFunctionOnSet(f, S \cup {x}) = f[x] + SumFunctionOnSet(f, (S \cup {x}) \ {x})
  BY <1>1, SumRemove
<1>3. (S \cup {x}) \ {x} = S
  OBVIOUS
<1>4. SumFunctionOnSet(f, (S \cup {x}) \ {x}) = SumFunctionOnSet(f, S)
  BY <1>3, Zenon
<1>5. SumFunctionOnSet(f, S) \in Int
  BY SumType
<1> QED
  BY <1>2, <1>4, <1>5

\* The sum is at least that of a part, if no summand is negative.
LEMMA SumOfPart ==
    ASSUME NEW f, NEW S, IsFiniteSet(S), \A x \in S : f[x] \in Nat, NEW T, T \subseteq S
    PROVE  /\ SumFunctionOnSet(f, T) \in Nat
           /\ SumFunctionOnSet(f, T) <= SumFunctionOnSet(f, S)
<1> DEFINE G == {U \in SUBSET S :
                   \A V \in SUBSET U : /\ SumFunctionOnSet(f, V) \in Nat
                                       /\ SumFunctionOnSet(f, V) <= SumFunctionOnSet(f, U)}
<1>1. ASSUME NEW U \in SUBSET S, \A W \in SUBSET U : W # U => W \in G
      PROVE  U \in G
  <2>1. \A W : W \subseteq U /\ W # U => SumFunctionOnSet(f, W) \in Nat
    BY <1>1
  <2>2. SumFunctionOnSet(f, U) \in Nat
    <3>1. CASE U = {}
      BY <3>1, SumEmpty
    <3>2. CASE U # {}
      <4>1. IsFiniteSet(U) /\ Picked(U) \in U
        BY <3>2, PickedIn, FS_Subset
      <4>2. SumFunctionOnSet(f, U) = f[Picked(U)] + SumFunctionOnSet(f, U \ {Picked(U)})
        BY <3>2, <4>1, SumStep
      <4>3. SumFunctionOnSet(f, U \ {Picked(U)}) \in Nat /\ f[Picked(U)] \in Nat
        BY <2>1, <4>1
      <4> QED
        BY <4>2, <4>3
    <3> QED
      BY <3>1, <3>2
  <2> SUFFICES ASSUME NEW V \in SUBSET U, V # U
               PROVE  /\ SumFunctionOnSet(f, V) \in Nat
                      /\ SumFunctionOnSet(f, V) <= SumFunctionOnSet(f, U)
    BY <2>2
  <2>3. PICK x \in U : x \notin V
    OBVIOUS
  <2>4. /\ SumFunctionOnSet(f, U) = f[x] + SumFunctionOnSet(f, U \ {x})
        /\ f[x] \in Nat
    <3>1. IsFiniteSet(U) /\ \A y \in U : f[y] \in Int
      BY FS_Subset
    <3> QED
      BY <3>1, SumRemove
  <2>5. /\ SumFunctionOnSet(f, V) \in Nat
        /\ SumFunctionOnSet(f, V) <= SumFunctionOnSet(f, U \ {x})
        /\ SumFunctionOnSet(f, U \ {x}) \in Nat
    <3>1. U \ {x} \in G
      BY <1>1
    <3> QED
      BY <2>3, <3>1
  <2> QED
    BY <2>4, <2>5
<1>2. SUBSET S \subseteq G
  <2> HIDE DEF G
  <2> QED BY <1>1, SubsetInduction
<1> QED
  BY <1>2

\* The sum over two sets without a common element.
LEMMA SumOfUnion ==
    ASSUME NEW f, NEW S, NEW T, IsFiniteSet(S), IsFiniteSet(T), S \cap T = {},
           \A x \in S \cup T : f[x] \in Int
    PROVE  SumFunctionOnSet(f, S \cup T) = SumFunctionOnSet(f, S) + SumFunctionOnSet(f, T)
<1> DEFINE G == {U \in SUBSET T :
                   SumFunctionOnSet(f, S \cup U) = SumFunctionOnSet(f, S) + SumFunctionOnSet(f, U)}
<1>0. SumFunctionOnSet(f, S) \in Int
  BY SumType
<1>1. ASSUME NEW U \in SUBSET T, \A W \in SUBSET U : W # U => W \in G
      PROVE  U \in G
  <2>1. CASE U = {}
    BY <1>0, <2>1, SumEmpty
  <2>2. ASSUME NEW x \in U
        PROVE  U \in G
    <3>1. /\ IsFiniteSet(U) /\ IsFiniteSet(S \cup U) /\ IsFiniteSet(U \ {x})
          /\ \A y \in S \cup U : f[y] \in Int
      BY FS_Subset, FS_Union
    <3>2. SumFunctionOnSet(f, U) = f[x] + SumFunctionOnSet(f, U \ {x})
      BY <3>1, SumRemove
    <3>3. SumFunctionOnSet(f, S \cup U) = f[x] + SumFunctionOnSet(f, (S \cup U) \ {x})
      BY <3>1, SumRemove
    <3>4. (S \cup U) \ {x} = S \cup (U \ {x})
      OBVIOUS
    <3>5. SumFunctionOnSet(f, (S \cup U) \ {x}) = SumFunctionOnSet(f, S \cup (U \ {x}))
      BY <3>4, Zenon
    <3>6. SumFunctionOnSet(f, S \cup (U \ {x})) = SumFunctionOnSet(f, S) + SumFunctionOnSet(f, U \ {x})
      BY <1>1
    <3>7. f[x] \in Int /\ SumFunctionOnSet(f, U \ {x}) \in Int
      BY <3>1, SumType
    <3> QED
      BY <1>0, <3>2, <3>3, <3>5, <3>6, <3>7
  <2> QED
    BY <2>1, <2>2
<1>2. SUBSET T \subseteq G
  <2> HIDE DEF G
  <2> QED BY <1>1, SubsetInduction
<1> QED
  BY <1>2

\* Two functions with the same values have the same sum.
LEMMA SumSame ==
    ASSUME NEW f, NEW h, NEW S, IsFiniteSet(S), \A x \in S : f[x] = h[x]
    PROVE  SumFunctionOnSet(f, S) = SumFunctionOnSet(h, S)
<1> DEFINE G == {T \in SUBSET S : SumFunctionOnSet(f, T) = SumFunctionOnSet(h, T)}
<1>1. ASSUME NEW T \in SUBSET S, \A U \in SUBSET T : U # T => U \in G
      PROVE  T \in G
  <2>1. CASE T = {}
    BY <2>1, SumEmpty
  <2>2. CASE T # {}
    <3>1. IsFiniteSet(T) /\ Picked(T) \in T
      BY <2>2, PickedIn, FS_Subset
    <3>2. /\ SumFunctionOnSet(f, T) = f[Picked(T)] + SumFunctionOnSet(f, T \ {Picked(T)})
          /\ SumFunctionOnSet(h, T) = h[Picked(T)] + SumFunctionOnSet(h, T \ {Picked(T)})
      BY <2>2, <3>1, SumStep
    <3>3. SumFunctionOnSet(f, T \ {Picked(T)}) = SumFunctionOnSet(h, T \ {Picked(T)})
      BY <1>1, <3>1
    <3> QED
      BY <3>1, <3>2, <3>3
  <2> QED
    BY <2>1, <2>2
<1>2. SUBSET S \subseteq G
  <2> HIDE DEF G
  <2> QED BY <1>1, SubsetInduction
<1> QED
  BY <1>2

\* A sum may be taken over the images of its indices, if they are distinct.
LEMMA SumOfImage ==
    ASSUME NEW f, NEW g, NEW h, NEW S, IsFiniteSet(S), \A x \in S : f[x] \in Int,
           \A x, y \in S : g[x] = g[y] => x = y, \A x \in S : h[g[x]] = f[x]
    PROVE  /\ IsFiniteSet({g[x] : x \in S})
           /\ SumFunctionOnSet(h, {g[x] : x \in S}) = SumFunctionOnSet(f, S)
<1> DEFINE Image(T) == {g[x] : x \in T}
           G == {T \in SUBSET S : /\ IsFiniteSet(Image(T))
                                  /\ SumFunctionOnSet(h, Image(T)) = SumFunctionOnSet(f, T)}
<1>1. ASSUME NEW T \in SUBSET S, \A U \in SUBSET T : U # T => U \in G
      PROVE  T \in G
  <2>1. CASE T = {}
    <3>1. Image(T) = {}
      BY <2>1
    <3>2. IsFiniteSet(Image(T)) /\ SumFunctionOnSet(h, Image(T)) = 0
      BY <3>1, SumEmpty, FS_EmptySet
    <3>3. SumFunctionOnSet(f, T) = 0
      BY <2>1, SumEmpty
    <3> QED
      BY <3>2, <3>3
  <2>2. ASSUME NEW x \in T
        PROVE  T \in G
    <3>1. /\ IsFiniteSet(Image(T \ {x}))
          /\ SumFunctionOnSet(h, Image(T \ {x})) = SumFunctionOnSet(f, T \ {x})
      BY <1>1
    <3>2. g[x] \notin Image(T \ {x}) /\ Image(T) = Image(T \ {x}) \cup {g[x]}
      OBVIOUS
    <3>3. h[g[x]] = f[x] /\ f[x] \in Int /\ \A y \in Image(T \ {x}) : h[y] \in Int
      OBVIOUS
    <3>4. IsFiniteSet(T) /\ IsFiniteSet(T \ {x}) /\ \A y \in T : f[y] \in Int
      BY FS_Subset
    <3>5. SumFunctionOnSet(f, T) = f[x] + SumFunctionOnSet(f, T \ {x})
      BY <3>4, SumRemove
    <3>6. SumFunctionOnSet(f, T \ {x}) \in Int
      BY <3>4, SumType
    <3> HIDE DEF Image
    <3>7. SumFunctionOnSet(h, Image(T \ {x}) \cup {g[x]}) = SumFunctionOnSet(h, Image(T \ {x})) + h[g[x]]
      BY <3>1, <3>2, <3>3, SumAdd
    <3>8. IsFiniteSet(Image(T \ {x}) \cup {g[x]})
      BY <3>1, FS_AddElement
    <3>9. IsFiniteSet(Image(T)) /\ SumFunctionOnSet(h, Image(T)) = SumFunctionOnSet(h, Image(T \ {x})) + h[g[x]]
      BY <3>2, <3>7, <3>8, Zenon
    <3>10. SumFunctionOnSet(h, Image(T)) = SumFunctionOnSet(f, T)
      BY <3>1, <3>3, <3>5, <3>6, <3>9
    <3> QED
      BY <3>9, <3>10
  <2> QED
    BY <2>1, <2>2
<1>2. SUBSET S \subseteq G
  <2> HIDE DEF G
  <2> QED BY <1>1, SubsetInduction
<1> QED
  BY <1>2

\* Two sums that differ in one place only.
LEMMA SumMoves ==
    ASSUME NEW f, NEW g, NEW S, NEW T, IsFiniteSet(S), NEW x, S \ {x} = T \ {x},
           \A y \in S : f[y] \in Int, \A y \in S \ {x} : g[y] = f[y], x \in T => g[x] \in Int
    PROVE  /\ IsFiniteSet(T)
           /\ SumFunctionOnSet(f, S) \in Int /\ SumFunctionOnSet(g, T) \in Int
           /\ SumFunctionOnSet(g, T) - (IF x \in T THEN g[x] ELSE 0)
                = SumFunctionOnSet(f, S) - (IF x \in S THEN f[x] ELSE 0)
<1> DEFINE R == S \ {x}
<1>1. IsFiniteSet(R) /\ R = T \ {x} /\ x \notin R
  BY FS_Subset
<1>2. T = R \/ T = R \cup {x}
  BY <1>1
<1>3. IsFiniteSet(T)
  <2>1. IsFiniteSet(R \cup {x})
    BY <1>1, FS_AddElement
  <2> QED
    BY <1>1, <1>2, <2>1, Zenon
<1>4. \A y \in T : g[y] \in Int
  BY <1>1
<1>5. /\ SumFunctionOnSet(f, S) \in Int /\ SumFunctionOnSet(g, T) \in Int
      /\ SumFunctionOnSet(f, R) \in Int
  BY <1>1, <1>3, <1>4, SumType
<1>6. SumFunctionOnSet(g, R) = SumFunctionOnSet(f, R)
  BY <1>1, SumSame
<1>7. SumFunctionOnSet(f, S) - (IF x \in S THEN f[x] ELSE 0) = SumFunctionOnSet(f, R)
  <2>1. CASE x \in S
    <3>1. SumFunctionOnSet(f, S) = f[x] + SumFunctionOnSet(f, R)
      BY <2>1, SumRemove
    <3> QED
      BY <1>5, <2>1, <3>1
  <2>2. CASE x \notin S
    <3>1. S = R
      BY <2>2
    <3>2. SumFunctionOnSet(f, S) = SumFunctionOnSet(f, R)
      BY <3>1, Zenon
    <3> QED
      BY <1>5, <2>2, <3>2
  <2> QED
    BY <2>1, <2>2
<1>8. SumFunctionOnSet(g, T) - (IF x \in T THEN g[x] ELSE 0) = SumFunctionOnSet(g, R)
  <2>1. CASE x \in T
    <3>1. SumFunctionOnSet(g, T) = g[x] + SumFunctionOnSet(g, T \ {x})
      BY <1>3, <1>4, <2>1, SumRemove
    <3>2. SumFunctionOnSet(g, T \ {x}) = SumFunctionOnSet(g, R)
      BY <1>1, Zenon
    <3> QED
      BY <1>4, <1>5, <1>6, <2>1, <3>1, <3>2
  <2>2. CASE x \notin T
    <3>1. T = R
      BY <1>1, <2>2
    <3>2. SumFunctionOnSet(g, T) = SumFunctionOnSet(g, R)
      BY <3>1, Zenon
    <3> QED
      BY <1>5, <2>2, <3>2
  <2> QED
    BY <2>1, <2>2
<1> QED
  BY <1>3, <1>5, <1>6, <1>7, <1>8

-----------------------------------------------------------------------------
(* Greatest elements *)

\* A finite nonempty set has an element of greatest weight.  (By descent on the
\* strict subsets: a least set without one loses an element and still has none.)
LEMMA GreatestWeight ==
    ASSUME NEW S, IsFiniteSet(S), S # {}, NEW w \in [S -> Nat]
    PROVE  \E i \in S : \A j \in S : w[j] <= w[i]
<1>. DEFINE Bad == {U \in FiniteSubsetsOf(S) :
                       U # {} /\ ~ \E i \in U : \A j \in U : w[j] <= w[i]}
<1>. SUFFICES ASSUME Bad # {} PROVE FALSE
  BY DEF FiniteSubsetsOf
<1>1. PICK U \in Bad : \A V \in Bad : <<V, U>> \notin StrictSubsetOrdering(S)
  <2>. Bad \subseteq FiniteSubsetsOf(S)
    OBVIOUS
  <2>. QED BY FS_StrictSubsetOrderingWellFounded, WFMin
<1>2. PICK x \in U : TRUE
  OBVIOUS
<1>3. U \ {x} \in FiniteSubsetsOf(S) /\ U \in FiniteSubsetsOf(S) /\ U \subseteq S
  BY FS_RemoveElement DEF FiniteSubsetsOf
<1>4. <<U \ {x}, U>> \in StrictSubsetOrdering(S)
  BY <1>2, <1>3 DEF StrictSubsetOrdering, FiniteSubsetsOf
<1>5. U \ {x} \notin Bad
  BY <1>1, <1>4
<1>6. CASE U \ {x} = {}
  <2>1. U = {x} /\ w[x] \in Nat
    BY <1>2, <1>3, <1>6
  <2>. QED BY <1>1, <2>1
<1>7. CASE U \ {x} # {}
  <2>1. PICK i \in U \ {x} : \A j \in U \ {x} : w[j] <= w[i]
    BY <1>3, <1>5, <1>7
  <2>2. w[x] \in Nat /\ w[i] \in Nat /\ \A j \in U : w[j] \in Nat
    BY <1>2, <1>3
  <2>3. CASE w[x] <= w[i]
    BY <1>1, <2>1, <2>3
  <2>4. CASE w[i] <= w[x]
    BY <1>1, <2>1, <2>2, <2>4
  <2>. QED BY <2>2, <2>3, <2>4
<1>. QED BY <1>6, <1>7

\* Max is at least the weight of every index.
LEMMA MaxOfWeights ==
    ASSUME NEW S, IsFiniteSet(S), NEW w \in [S -> Nat], NEW x \in S
    PROVE  Max({w[i] : i \in S}) \in Nat /\ w[x] <= Max({w[i] : i \in S})
<1>1. PICK i \in S : \A j \in S : w[j] <= w[i]
  BY GreatestWeight
<1>2. \E m \in {w[j] : j \in S} : \A n \in {w[j] : j \in S} : m >= n
  BY <1>1
<1>. QED BY <1>2 DEF Max

LEMMA MaxOfIndices ==
    ASSUME NEW n \in Nat, NEW S \in SUBSET (1..n), S # {}
    PROVE  Max(S) \in S /\ \A j \in S : j <= Max(S)
<1>1. IsFiniteSet(S)
  <2>1. IsFiniteSet(1..n)
    BY FS_Interval
  <2>. QED BY <2>1, FS_Subset
<1>2. \E i \in S : \A j \in S : [k \in S |-> k][j] <= [k \in S |-> k][i]
  BY <1>1, GreatestWeight, [k \in S |-> k] \in [S -> Nat]
<1>3. \E i \in S : \A j \in S : i >= j
  BY <1>2
<1>. QED BY <1>3 DEF Max

LEMMA GreatestOf ==
    ASSUME NEW S \in SUBSET Nat, IsFiniteSet(S), S # {}
    PROVE  \E m \in S : \A n \in S : n <= m
<1>1. \E i \in S : \A j \in S : [k \in S |-> k][j] <= [k \in S |-> k][i]
  BY GreatestWeight, [k \in S |-> k] \in [S -> Nat]
<1>. QED BY <1>1

LEMMA MinOfSet ==
    ASSUME NEW S \in SUBSET Nat, S # {}
    PROVE  Min(S) \in S /\ \A n \in S : Min(S) <= n
<1>. DEFINE G == {n \in Nat : \A m \in S : n <= m}
<1>1. ASSUME ~ \E m \in S : \A n \in S : m <= n
      PROVE  FALSE
  <2>1. 0 \in G
    OBVIOUS
  <2>2. \A n \in Nat : n \in G => n + 1 \in G
    BY <1>1
  <2>3. Nat \subseteq G
    <3>. HIDE DEF G
    <3>. QED BY <2>1, <2>2, NaturalInduction
  <2>4. PICK m \in S : TRUE
    OBVIOUS
  <2>5. m + 1 \in G
    BY <2>3
  <2>. QED BY <2>4, <2>5
<1>. QED BY <1>1 DEF Min

-----------------------------------------------------------------------------
(* Prefixes *)

LEMMA PrefixProperties ==
    ASSUME NEW R, NEW s \in Seq(R), NEW n \in 0..Len(s)
    PROVE  /\ SubSeq(s, 1, n) \in Seq(R)
           /\ Len(SubSeq(s, 1, n)) = n
           /\ \A i \in 1..n : SubSeq(s, 1, n)[i] = s[i]
  BY SubSeqProperties

LEMMA PrefixWhole ==
    ASSUME NEW R, NEW s \in Seq(R)
    PROVE  SubSeq(s, 1, Len(s)) = s
<1>1. Len(s) \in 0..Len(s)
  OBVIOUS
<1>. QED BY <1>1, PrefixProperties, SeqEqual

LEMMA PrefixOfAppend ==
    ASSUME NEW R, NEW s \in Seq(R), NEW e \in R, NEW n \in 0..Len(s)
    PROVE  SubSeq(Append(s, e), 1, n) = SubSeq(s, 1, n)
<1>1. Append(s, e) \in Seq(R) /\ n \in 0..Len(Append(s, e)) /\ \A i \in 1..n : Append(s, e)[i] = s[i]
  OBVIOUS
<1>. QED BY <1>1, PrefixProperties, SeqEqual

LEMMA PrefixOfPrefix ==
    ASSUME NEW R, NEW s \in Seq(R), NEW n \in 0..Len(s), NEW k \in 0..n
    PROVE  SubSeq(SubSeq(s, 1, n), 1, k) = SubSeq(s, 1, k)
<1>1. /\ SubSeq(s, 1, n) \in Seq(R)
      /\ Len(SubSeq(s, 1, n)) = n
      /\ \A i \in 1..n : SubSeq(s, 1, n)[i] = s[i]
  BY PrefixProperties
<1>2. k \in 0..Len(SubSeq(s, 1, n)) /\ k \in 0..Len(s)
  BY <1>1
<1>3. SubSeq(SubSeq(s, 1, n), 1, k) \in Seq(R) /\ SubSeq(s, 1, k) \in Seq(R)
      /\ Len(SubSeq(SubSeq(s, 1, n), 1, k)) = k /\ Len(SubSeq(s, 1, k)) = k
  BY <1>1, <1>2, PrefixProperties
<1>4. \A i \in 1..k : SubSeq(SubSeq(s, 1, n), 1, k)[i] = SubSeq(s, 1, k)[i]
  BY <1>1, <1>2, PrefixProperties
<1>. QED BY <1>3, <1>4, SeqEqual

LEMMA PrefixExtend ==
    ASSUME NEW R, NEW s \in Seq(R), NEW n \in 0..(Len(s) - 1)
    PROVE  Append(SubSeq(s, 1, n), s[n + 1]) = SubSeq(s, 1, n + 1)
<1>1. n \in 0..Len(s) /\ n + 1 \in 0..Len(s) /\ s[n + 1] \in R
  OBVIOUS
<1>2. /\ SubSeq(s, 1, n) \in Seq(R) /\ Len(SubSeq(s, 1, n)) = n
      /\ \A i \in 1..n : SubSeq(s, 1, n)[i] = s[i]
      /\ SubSeq(s, 1, n + 1) \in Seq(R) /\ Len(SubSeq(s, 1, n + 1)) = n + 1
      /\ \A i \in 1..(n + 1) : SubSeq(s, 1, n + 1)[i] = s[i]
  BY <1>1, PrefixProperties
<1>3. /\ Append(SubSeq(s, 1, n), s[n + 1]) \in Seq(R)
      /\ Len(Append(SubSeq(s, 1, n), s[n + 1])) = n + 1
      /\ \A i \in 1..(n + 1) : Append(SubSeq(s, 1, n), s[n + 1])[i] = s[i]
  BY <1>1, <1>2
<1>. QED BY <1>2, <1>3, SeqEqual
=============================================================================
