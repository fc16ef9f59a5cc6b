------------------------------ MODULE SumLemmas ------------------------------
(***************************************************************************)
(* Sums over finite sets: what SumFunctionOnSet(f, S) of the community     *)
(* module Functions is, element by element.  The accounting proofs         *)
(* (RelayQueue's charges, TradeLedger's shares, pot and basis) rest on     *)
(* these.                                                                  *)
(*                                                                         *)
(* The operator is a recursive function over the subsets of S.  Its        *)
(* recursion is established here from the well-foundedness of strict       *)
(* inclusion on a finite set: a statement about every subset holds when    *)
(* no smallest subset fails it.  The same argument gives induction over    *)
(* finite sets, and over numbers, wherever a proof needs one.              *)
(***************************************************************************)
EXTENDS Integers, FiniteSets, Functions, FiniteSetTheorems, WellFoundedInduction, TLAPS

\* A family of subsets of a finite set has a smallest member: none of its strict subsets is in it.
LEMMA SmallestSubset ==
    ASSUME NEW S, IsFiniteSet(S), NEW F \in SUBSET (SUBSET S), F # {}
    PROVE  \E T \in F : \A U \in SUBSET T : U # T => U \notin F
<1>1. IsWellFoundedOn(StrictSubsetOrdering(S), SUBSET S)
  BY FS_StrictSubsetOrderingWellFounded, FS_FiniteSubsetsOfFinite
<1>2. PICK T \in F : \A U \in F : ~ (<<U, T>> \in StrictSubsetOrdering(S))
  BY <1>1, WFMin
<1>3. ASSUME NEW U \in SUBSET T, U # T PROVE U \notin F
  BY <1>2, <1>3 DEF StrictSubsetOrdering
<1> QED BY <1>2, <1>3

\* A set of naturals that has a member has a least one.
LEMMA LeastNumber ==
    ASSUME NEW S \in SUBSET Nat, NEW n \in S
    PROVE  \E m \in S : m <= n /\ \A k \in S : m <= k
<1> DEFINE D == 0..n
           F == {I \in SUBSET D : \E m \in S : m <= n /\ I = 0..m}
<1>1. IsFiniteSet(D) /\ F \in SUBSET (SUBSET D)
  BY FS_Interval
<1>2. D \in F
  OBVIOUS
<1>3. PICK I \in F : \A U \in SUBSET I : U # I => U \notin F
  <2> HIDE DEF F, D
  <2> QED BY <1>1, <1>2, SmallestSubset
<1>4. PICK m \in S : m <= n /\ I = 0..m
  BY <1>3
<1>5. ASSUME NEW k \in S, k < m PROVE FALSE
  <2>1. 0..k \in SUBSET I /\ 0..k # I /\ 0..k \in SUBSET D
    <3>1. m \in 0..m /\ m \notin 0..k
      BY <1>5
    <3> QED BY <1>4, <1>5, <3>1
  <2>2. k <= n
    BY <1>4, <1>5
  <2> QED BY <1>3, <2>1, <2>2
<1> QED BY <1>4, <1>5

-----------------------------------------------------------------------------
(***************************************************************************)
(* The recursion                                                           *)
(***************************************************************************)
Pick(s) == CHOOSE x \in s : TRUE

\* g adds up f over the subsets of S, taking one element at a time.
Adds(g, f, S) == g = [s \in SUBSET S |-> IF s = {} THEN 0 ELSE f[Pick(s)] + g[s \ {Pick(s)}]]

\* The element taken is one of the set's.
LEMMA PickOne ==
    ASSUME NEW s, s # {}
    PROVE  Pick(s) \in s
BY DEF Pick

\* Two such functions agree on every finite set they both know.
LEMMA AddsAgree ==
    ASSUME NEW f, NEW A, NEW B, NEW g, NEW h, Adds(g, f, A), Adds(h, f, B),
           NEW S, IsFiniteSet(S), S \subseteq A, S \subseteq B
    PROVE  g[S] = h[S]
<1> DEFINE F == {T \in SUBSET S : g[T] # h[T]}
<1>1. SUFFICES ASSUME F # {} PROVE FALSE
  OBVIOUS
<1>2. PICK T \in F : \A U \in SUBSET T : U # T => U \notin F
  <2>1. F \in SUBSET (SUBSET S)
    OBVIOUS
  <2> HIDE DEF F
  <2> QED BY <1>1, <2>1, SmallestSubset
<1>3. T \in SUBSET A /\ T \in SUBSET B /\ g[T] # h[T]
  BY <1>2
<1>4. /\ g[T] = IF T = {} THEN 0 ELSE f[Pick(T)] + g[T \ {Pick(T)}]
      /\ h[T] = IF T = {} THEN 0 ELSE f[Pick(T)] + h[T \ {Pick(T)}]
  BY <1>3 DEF Adds
<1>5. T # {}
  BY <1>3, <1>4
<1>6. g[T \ {Pick(T)}] = h[T \ {Pick(T)}]
  BY <1>2, <1>5, PickOne
<1> QED BY <1>3, <1>4, <1>5, <1>6

\* A function that adds up f over a part of what another knows is that other, there.
LEMMA AddsExist ==
    ASSUME NEW f, NEW S, IsFiniteSet(S)
    PROVE  \E g : Adds(g, f, S)
<1> DEFINE F == {T \in SUBSET S : ~ \E g : Adds(g, f, T)}
           G(T) == CHOOSE g : Adds(g, f, T)
<1>1. SUFFICES ASSUME F # {} PROVE FALSE
  BY S \in SUBSET S
<1>2. PICK T \in F : \A U \in SUBSET T : U # T => U \notin F
  <2>1. F \in SUBSET (SUBSET S)
    OBVIOUS
  <2> HIDE DEF F
  <2> QED BY <1>1, <2>1, SmallestSubset
<1>3. T \in SUBSET S /\ ~ \E g : Adds(g, f, T)
  BY <1>2
<1>4. \A U \in SUBSET T : U # T => Adds(G(U), f, U)
  BY <1>2, <1>3
<1> DEFINE g == [s \in SUBSET T |-> IF s = {} THEN 0
                                    ELSE f[Pick(s)] + G(s \ {Pick(s)})[s \ {Pick(s)}]]
<1>5. ASSUME NEW s \in SUBSET T, s # {}
      PROVE  g[s \ {Pick(s)}] = G(s \ {Pick(s)})[s \ {Pick(s)}]
  <2> DEFINE r == s \ {Pick(s)}
             q == r \ {Pick(r)}
  <2>1. r \in SUBSET T /\ r # T /\ IsFiniteSet(T)
    BY <1>3, <1>5, PickOne, FS_Subset
  <2>2. Adds(G(r), f, r)
    BY <1>4, <2>1
  <2>3. CASE r = {}
    <3>1. g[r] = 0
      BY <2>1, <2>3
    <3>2. G(r)[r] = 0
      BY <2>2, <2>3 DEF Adds
    <3> QED BY <3>1, <3>2
  <2>4. CASE r # {}
    <3>1. q \in SUBSET T /\ q # T /\ q \subseteq r /\ IsFiniteSet(q)
      BY <2>1, <2>4, PickOne, FS_Subset
    <3>2. Adds(G(q), f, q)
      BY <1>4, <3>1
    <3> HIDE DEF G
    <3>3. G(q)[q] = G(r)[q]
      BY <2>2, <3>1, <3>2, AddsAgree
    <3>4. g[r] = f[Pick(r)] + G(q)[q]
      BY <2>1, <2>4
    <3>5. G(r)[r] = f[Pick(r)] + G(r)[q]
      <4> HIDE DEF r
      <4> QED BY <2>2, <2>4 DEF Adds
    <3> QED BY <3>3, <3>4, <3>5
  <2> QED BY <2>3, <2>4
<1>6. Adds(g, f, T)
  <2> HIDE DEF G
  <2>1. g = [s \in SUBSET T |-> IF s = {} THEN 0 ELSE f[Pick(s)] + g[s \ {Pick(s)}]]
    <3>1. \A s \in SUBSET T : (IF s = {} THEN 0 ELSE f[Pick(s)] + G(s \ {Pick(s)})[s \ {Pick(s)}])
                              = (IF s = {} THEN 0 ELSE f[Pick(s)] + g[s \ {Pick(s)}])
      BY <1>5
    <3> QED BY <3>1
  <2> HIDE DEF g
  <2> QED BY <2>1 DEF Adds
<1> QED BY <1>3, <1>6

\* SumFunctionOnSet is what such a function says of the whole set.
LEMMA SumIs ==
    ASSUME NEW f, NEW S, IsFiniteSet(S), NEW g, Adds(g, f, S)
    PROVE  SumFunctionOnSet(f, S) = g[S]
<1> DEFINE it == CHOOSE h : h = [s \in SUBSET S |-> IF s = {} THEN 0 ELSE f[CHOOSE x \in s : TRUE] + h[s \ {CHOOSE x \in s : TRUE}]]
<1>1. SumFunctionOnSet(f, S) = it[S]
  BY DEF SumFunctionOnSet, FoldFunctionOnSet, MapThenFoldSet
<1>2. it = CHOOSE h : Adds(h, f, S)
  BY DEF Adds, Pick
<1>3. Adds(it, f, S)
  BY <1>2
<1> HIDE DEF it
<1> QED BY <1>1, <1>3, AddsAgree

-----------------------------------------------------------------------------
(***************************************************************************)
(* What the sum is                                                         *)
(***************************************************************************)
\* Nothing adds up to zero.
LEMMA SumEmpty ==
    ASSUME NEW f
    PROVE  SumFunctionOnSet(f, {}) = 0
<1>1. IsFiniteSet({})
  BY FS_EmptySet
<1>2. PICK g : Adds(g, f, {})
  BY <1>1, AddsExist
<1>3. g[{}] = 0
  BY <1>2 DEF Adds
<1> QED BY <1>1, <1>2, <1>3, SumIs

\* The recursion, as SumFunctionOnSet takes it.
LEMMA SumStep ==
    ASSUME NEW f, NEW S, IsFiniteSet(S), S # {}
    PROVE  SumFunctionOnSet(f, S) = f[Pick(S)] + SumFunctionOnSet(f, S \ {Pick(S)})
<1> DEFINE r == S \ {Pick(S)}
<1>1. IsFiniteSet(r) /\ r \in SUBSET S
  BY FS_Subset
<1>2. PICK g : Adds(g, f, S)
  BY AddsExist
<1>3. PICK h : Adds(h, f, r)
  BY <1>1, AddsExist
<1>4. g[S] = f[Pick(S)] + g[r]
  BY <1>2 DEF Adds
<1> HIDE DEF r
<1>5. g[r] = h[r]
  BY <1>1, <1>2, <1>3, AddsAgree
<1>6. SumFunctionOnSet(f, S) = g[S] /\ SumFunctionOnSet(f, r) = h[r]
  BY <1>1, <1>2, <1>3, SumIs
<1> QED BY <1>4, <1>5, <1>6 DEF r

\* Integers add up to an integer.
LEMMA SumType ==
    ASSUME NEW f, NEW S, IsFiniteSet(S), \A x \in S : f[x] \in Int
    PROVE  SumFunctionOnSet(f, S) \in Int
<1> DEFINE F == {T \in SUBSET S : SumFunctionOnSet(f, T) \notin Int}
<1>1. SUFFICES ASSUME F # {} PROVE FALSE
  BY S \in SUBSET S
<1>2. PICK T \in F : \A U \in SUBSET T : U # T => U \notin F
  <2>1. F \in SUBSET (SUBSET S)
    OBVIOUS
  <2> HIDE DEF F
  <2> QED BY <1>1, <2>1, SmallestSubset
<1>3. T \in SUBSET S /\ SumFunctionOnSet(f, T) \notin Int /\ IsFiniteSet(T)
  BY <1>2, FS_Subset
<1>4. T # {}
  BY <1>3, SumEmpty
<1>5. Pick(T) \in T /\ T \ {Pick(T)} \in SUBSET T /\ T \ {Pick(T)} # T
  BY <1>4, PickOne
<1>6. SumFunctionOnSet(f, T \ {Pick(T)}) \in Int /\ f[Pick(T)] \in Int
  BY <1>2, <1>3, <1>5
<1>7. SumFunctionOnSet(f, T) = f[Pick(T)] + SumFunctionOnSet(f, T \ {Pick(T)})
  BY <1>3, <1>4, SumStep
<1> QED BY <1>3, <1>6, <1>7

\* Any element may be set apart, not only the one the recursion takes.
LEMMA SumSplit ==
    ASSUME NEW f, NEW S, IsFiniteSet(S), \A y \in S : f[y] \in Int, NEW x \in S
    PROVE  SumFunctionOnSet(f, S) = f[x] + SumFunctionOnSet(f, S \ {x})
<1> DEFINE Splits(T) == \A z \in T : SumFunctionOnSet(f, T) = f[z] + SumFunctionOnSet(f, T \ {z})
           F == {T \in SUBSET S : ~Splits(T)}
<1>1. SUFFICES ASSUME F # {} PROVE FALSE
  BY S \in SUBSET S
<1>2. PICK T \in F : \A U \in SUBSET T : U # T => U \notin F
  <2>1. F \in SUBSET (SUBSET S)
    OBVIOUS
  <2> HIDE DEF F
  <2> QED BY <1>1, <2>1, SmallestSubset
<1>3. T \in SUBSET S /\ ~Splits(T) /\ IsFiniteSet(T)
  BY <1>2, FS_Subset
<1>4. PICK z \in T : SumFunctionOnSet(f, T) # f[z] + SumFunctionOnSet(f, T \ {z})
  BY <1>3
<1> DEFINE p == Pick(T)
<1>5. p \in T /\ SumFunctionOnSet(f, T) = f[p] + SumFunctionOnSet(f, T \ {p})
  BY <1>3, <1>4, PickOne, SumStep
<1> HIDE DEF p
<1>6. p # z
  BY <1>4, <1>5
<1>7. SumFunctionOnSet(f, T \ {p}) = f[z] + SumFunctionOnSet(f, (T \ {p}) \ {z})
  <2>1. T \ {p} \in SUBSET T /\ T \ {p} # T /\ z \in T \ {p}
    BY <1>5, <1>6
  <2>2. Splits(T \ {p})
    BY <1>2, <1>3, <2>1
  <2> QED BY <2>1, <2>2
<1>8. SumFunctionOnSet(f, T \ {z}) = f[p] + SumFunctionOnSet(f, (T \ {z}) \ {p})
  <2>1. T \ {z} \in SUBSET T /\ T \ {z} # T /\ p \in T \ {z}
    BY <1>5, <1>6
  <2>2. Splits(T \ {z})
    BY <1>2, <1>3, <2>1
  <2> QED BY <2>1, <2>2
<1>9. (T \ {p}) \ {z} = (T \ {z}) \ {p}
  OBVIOUS
<1>10. /\ f[p] \in Int /\ f[z] \in Int
       /\ SumFunctionOnSet(f, (T \ {z}) \ {p}) \in Int
  <2>1. IsFiniteSet((T \ {z}) \ {p})
    BY <1>3, FS_Subset
  <2>2. \A y \in (T \ {z}) \ {p} : f[y] \in Int
    BY <1>3
  <2> QED BY <1>3, <1>5, <2>1, <2>2, SumType
<1> DEFINE rest == SumFunctionOnSet(f, (T \ {z}) \ {p})
<1>11. /\ SumFunctionOnSet(f, T) = f[p] + (f[z] + rest)
       /\ SumFunctionOnSet(f, T \ {z}) = f[p] + rest
  BY <1>5, <1>7, <1>8, <1>9
<1>12. f[p] + (f[z] + rest) = f[z] + (f[p] + rest)
  <2> HIDE DEF rest
  <2> QED BY <1>10 DEF rest
<1> QED BY <1>4, <1>11, <1>12

\* Functions that agree on a set have the same sum over it.
LEMMA SumEqual ==
    ASSUME NEW f, NEW h, NEW S, IsFiniteSet(S), \A x \in S : f[x] = h[x]
    PROVE  SumFunctionOnSet(f, S) = SumFunctionOnSet(h, S)
<1> DEFINE F == {T \in SUBSET S : SumFunctionOnSet(f, T) # SumFunctionOnSet(h, T)}
<1>1. SUFFICES ASSUME F # {} PROVE FALSE
  BY S \in SUBSET S
<1>2. PICK T \in F : \A U \in SUBSET T : U # T => U \notin F
  <2>1. F \in SUBSET (SUBSET S)
    OBVIOUS
  <2> HIDE DEF F
  <2> QED BY <1>1, <2>1, SmallestSubset
<1>3. T \in SUBSET S /\ SumFunctionOnSet(f, T) # SumFunctionOnSet(h, T) /\ IsFiniteSet(T)
  BY <1>2, FS_Subset
<1>4. T # {}
  BY <1>3, SumEmpty
<1>5. Pick(T) \in T /\ T \ {Pick(T)} \in SUBSET T /\ T \ {Pick(T)} # T
  BY <1>4, PickOne
<1>6. SumFunctionOnSet(f, T \ {Pick(T)}) = SumFunctionOnSet(h, T \ {Pick(T)}) /\ f[Pick(T)] = h[Pick(T)]
  BY <1>2, <1>3, <1>5
<1> QED BY <1>3, <1>4, <1>6, SumStep

-----------------------------------------------------------------------------
(***************************************************************************)
(* What an update does to it                                               *)
(***************************************************************************)
\* Functions that differ at one element have sums that differ by as much.
LEMMA SumUpdate ==
    ASSUME NEW f, NEW h, NEW S, IsFiniteSet(S), NEW x \in S,
           \A y \in S : f[y] \in Int, \A y \in S \ {x} : h[y] = f[y], h[x] \in Int
    PROVE  SumFunctionOnSet(h, S) = SumFunctionOnSet(f, S) + (h[x] - f[x])
<1>1. IsFiniteSet(S \ {x})
  BY FS_Subset
<1>2. SumFunctionOnSet(h, S \ {x}) = SumFunctionOnSet(f, S \ {x})
  BY <1>1, SumEqual
<1>3. SumFunctionOnSet(f, S) = f[x] + SumFunctionOnSet(f, S \ {x})
  BY SumSplit
<1>4. SumFunctionOnSet(h, S) = h[x] + SumFunctionOnSet(h, S \ {x})
  BY SumSplit
<1>5. SumFunctionOnSet(f, S \ {x}) \in Int /\ f[x] \in Int
  BY <1>1, SumType
<1> QED BY <1>2, <1>3, <1>4, <1>5

\* A sum of sums, element by element.
LEMMA SumPlus ==
    ASSUME NEW f, NEW d, NEW h, NEW S, IsFiniteSet(S),
           \A x \in S : f[x] \in Int /\ d[x] \in Int /\ h[x] = f[x] + d[x]
    PROVE  SumFunctionOnSet(h, S) = SumFunctionOnSet(f, S) + SumFunctionOnSet(d, S)
<1> DEFINE F == {T \in SUBSET S : SumFunctionOnSet(h, T) # SumFunctionOnSet(f, T) + SumFunctionOnSet(d, T)}
<1>1. SUFFICES ASSUME F # {} PROVE FALSE
  BY S \in SUBSET S
<1>2. PICK T \in F : \A U \in SUBSET T : U # T => U \notin F
  <2>1. F \in SUBSET (SUBSET S)
    OBVIOUS
  <2> HIDE DEF F
  <2> QED BY <1>1, <2>1, SmallestSubset
<1>3. /\ T \in SUBSET S /\ IsFiniteSet(T)
      /\ SumFunctionOnSet(h, T) # SumFunctionOnSet(f, T) + SumFunctionOnSet(d, T)
  BY <1>2, FS_Subset
<1>4. T # {}
  BY <1>3, SumEmpty
<1> DEFINE p == Pick(T)
           R == T \ {p}
<1>5. p \in T /\ R \in SUBSET T /\ R # T
  BY <1>4, PickOne
<1>6. /\ SumFunctionOnSet(h, T) = h[p] + SumFunctionOnSet(h, R)
      /\ SumFunctionOnSet(f, T) = f[p] + SumFunctionOnSet(f, R)
      /\ SumFunctionOnSet(d, T) = d[p] + SumFunctionOnSet(d, R)
  BY <1>3, <1>4, SumStep
<1> HIDE DEF p, R
<1>7. SumFunctionOnSet(h, R) = SumFunctionOnSet(f, R) + SumFunctionOnSet(d, R)
  BY <1>2, <1>3, <1>5
<1>8. SumFunctionOnSet(f, R) \in Int /\ SumFunctionOnSet(d, R) \in Int
  BY <1>3, <1>5, FS_Subset, SumType
<1> QED BY <1>3, <1>5, <1>6, <1>7, <1>8

\* The same amount for each element.
LEMMA SumConstant ==
    ASSUME NEW f, NEW S, IsFiniteSet(S), NEW c \in Int, \A x \in S : f[x] = c
    PROVE  SumFunctionOnSet(f, S) = c * Cardinality(S)
<1> DEFINE F == {T \in SUBSET S : SumFunctionOnSet(f, T) # c * Cardinality(T)}
<1>1. SUFFICES ASSUME F # {} PROVE FALSE
  BY S \in SUBSET S
<1>2. PICK T \in F : \A U \in SUBSET T : U # T => U \notin F
  <2>1. F \in SUBSET (SUBSET S)
    OBVIOUS
  <2> HIDE DEF F
  <2> QED BY <1>1, <2>1, SmallestSubset
<1>3. T \in SUBSET S /\ IsFiniteSet(T) /\ SumFunctionOnSet(f, T) # c * Cardinality(T)
  BY <1>2, FS_Subset
<1>4. T # {}
  BY <1>3, SumEmpty, FS_EmptySet
<1> DEFINE R == T \ {Pick(T)}
<1>5. Pick(T) \in T /\ R \in SUBSET T /\ R # T
  BY <1>4, PickOne
<1>6. SumFunctionOnSet(f, T) = c + SumFunctionOnSet(f, R)
  BY <1>3, <1>4, <1>5, SumStep
<1>7. Cardinality(R) = Cardinality(T) - 1
  BY <1>3, <1>5, FS_RemoveElement
<1> HIDE DEF R
<1>8. SumFunctionOnSet(f, R) = c * Cardinality(R)
  BY <1>2, <1>3, <1>5
<1>9. Cardinality(T) \in Nat /\ c * (Cardinality(T) - 1) = c * Cardinality(T) - c
  BY <1>3, FS_CardinalityType
<1> QED BY <1>3, <1>6, <1>7, <1>8, <1>9

\* Of naturals, no element exceeds the sum.
LEMMA SumBounds ==
    ASSUME NEW f, NEW S, IsFiniteSet(S), \A x \in S : f[x] \in Nat
    PROVE  SumFunctionOnSet(f, S) \in Nat /\ \A x \in S : f[x] <= SumFunctionOnSet(f, S)
<1>1. \A T \in SUBSET S : SumFunctionOnSet(f, T) \in Nat
  <2> DEFINE F == {T \in SUBSET S : SumFunctionOnSet(f, T) \notin Nat}
  <2>1. SUFFICES ASSUME F # {} PROVE FALSE
    OBVIOUS
  <2>2. PICK T \in F : \A U \in SUBSET T : U # T => U \notin F
    <3>1. F \in SUBSET (SUBSET S)
      OBVIOUS
    <3> HIDE DEF F
    <3> QED BY <2>1, <3>1, SmallestSubset
  <2>3. T \in SUBSET S /\ SumFunctionOnSet(f, T) \notin Nat /\ IsFiniteSet(T)
    BY <2>2, FS_Subset
  <2>4. T # {}
    BY <2>3, SumEmpty
  <2>5. Pick(T) \in T /\ T \ {Pick(T)} \in SUBSET T /\ T \ {Pick(T)} # T
    BY <2>4, PickOne
  <2>6. SumFunctionOnSet(f, T \ {Pick(T)}) \in Nat /\ f[Pick(T)] \in Nat
    BY <2>2, <2>3, <2>5
  <2>7. SumFunctionOnSet(f, T) = f[Pick(T)] + SumFunctionOnSet(f, T \ {Pick(T)})
    BY <2>3, <2>4, SumStep
  <2> QED BY <2>3, <2>6, <2>7
<1>2. ASSUME NEW x \in S PROVE f[x] <= SumFunctionOnSet(f, S)
  <2>1. SumFunctionOnSet(f, S) = f[x] + SumFunctionOnSet(f, S \ {x})
    BY SumSplit
  <2>2. SumFunctionOnSet(f, S \ {x}) \in Nat
    BY <1>1
  <2> QED BY <2>1, <2>2
<1>3. SumFunctionOnSet(f, S) \in Nat
  BY <1>1, S \in SUBSET S
<1> QED BY <1>2, <1>3
=============================================================================
