----------------------------- MODULE FiniteInduction -----------------------------
(***************************************************************************)
(* Induction over numbers and finite sets for the proofs of this project,  *)
(* stated over sets of values rather than predicates: what holds of no     *)
(* least counterexample holds always.  From it follow what the folds of    *)
(* the community modules need: that the function they recurse through      *)
(* exists, and that a sum does not depend on the order it is taken in.     *)
(***************************************************************************)
EXTENDS FiniteSetsExt, FiniteSetTheorems, WellFoundedInduction, TLAPS

(* Of some natural numbers one is the least. *)
LEMMA LeastNatural ==
    ASSUME NEW S \in SUBSET Nat, S # {}
    PROVE  \E i \in S : \A j \in S : i <= j
<1> DEFINE R == {ss \in Nat \X Nat : ss[1] < ss[2]}
<1>1. IsWellFoundedOn(R, Nat)
  BY NatLessThanWellFounded DEF OpToRel
<1> HIDE DEF R
<1>2. PICK i \in S : \A j \in S : <<j, i>> \notin R
  BY <1>1, WFMin, Zenon
<1>3. \A j \in S : ~(j < i)
  BY <1>2 DEF R
<1> QED
  BY <1>3

(* Counting down from the last of a sequence. *)
LEMMA CountingDown ==
    ASSUME NEW n \in Nat, NEW G, n + 1 \in G, \A k \in 1..n : k + 1 \in G => k \in G
    PROVE  \A k \in 1..n + 1 : k \in G
<1> DEFINE Bad == {m \in Nat : n + 1 - m \in (1..n + 1) \ G}
<1>1. Bad = {}
  <2> SUFFICES ASSUME Bad # {} PROVE FALSE
    OBVIOUS
  <2>1. PICK m \in Bad : \A i \in Bad : m <= i
    BY LeastNatural
  <2>2. m \in Nat /\ m # 0 /\ m - 1 \in Nat /\ m - 1 \notin Bad
    BY <2>1
  <2>3. n + 1 - (m - 1) \in 1..n + 1 /\ n + 1 - m \in 1..n /\ n + 1 - m + 1 = n + 1 - (m - 1)
    BY <2>1, <2>2
  <2>4. n + 1 - (m - 1) \in G
    BY <2>2, <2>3
  <2> QED
    BY <2>1, <2>3, <2>4
<1> SUFFICES ASSUME NEW k \in 1..n + 1, k \notin G PROVE FALSE
  OBVIOUS
<1>2. n + 1 - k \in Nat /\ n + 1 - (n + 1 - k) = k
  OBVIOUS
<1>3. n + 1 - k \in Bad
  BY <1>2
<1> HIDE DEF Bad
<1> QED
  BY <1>1, <1>3

(* Of some subsets of a finite set one has no smaller one among them. *)
LEMMA SmallestSubset ==
    ASSUME NEW S, IsFiniteSet(S), NEW B \in SUBSET SUBSET S, B # {}
    PROVE  \E t \in B : \A u \in SUBSET t : u # t => u \notin B
<1> DEFINE Sizes == {n \in Nat : \E t \in B : Cardinality(t) = n}
<1>1. \A t \in SUBSET S : IsFiniteSet(t) /\ Cardinality(t) \in Nat
  BY FS_Subset, FS_CardinalityType
<1>2. Sizes # {}
  BY <1>1
<1>3. PICK n \in Sizes : \A m \in Sizes : n <= m
  BY <1>2, LeastNatural
<1>4. PICK t \in B : Cardinality(t) = n
  BY <1>3
<1>5. ASSUME NEW u \in SUBSET t, u # t PROVE u \notin B
  <2>1. Cardinality(u) < Cardinality(t)
    BY <1>1, <1>5, FS_Subset
  <2> QED
    BY <1>1, <1>3, <1>4, <2>1
<1> QED
  BY <1>4, <1>5

(* What a fold over S computes of each subset: one element is picked after *)
(* the other, and the first is applied last.                               *)
FoldsOver(g, S, base, pick, next) ==
    \A s \in SUBSET S :
        g[s] = IF s = {} THEN base ELSE next[pick[s]][g[s \ {pick[s]}]]

Foldable(S, V, base, pick, next) ==
    /\ IsFiniteSet(S) /\ base \in V
    /\ \A s \in SUBSET S : s # {} => pick[s] \in s
    /\ \A x \in S, v \in V : next[x][v] \in V

(* The recursion of a fold over a finite set defines a function. *)
LEMMA FoldExists ==
    ASSUME NEW S, NEW V, NEW base, NEW pick, NEW next, Foldable(S, V, base, pick, next)
    PROVE  \E g \in [SUBSET S -> V] : FoldsOver(g, S, base, pick, next)
<1> DEFINE Level(n) == {s \in SUBSET S : Cardinality(s) <= n}
           Folds(g, n) == /\ g \in [Level(n) -> V]
                          /\ \A s \in Level(n) :
                                 g[s] = IF s = {} THEN base
                                        ELSE next[pick[s]][g[s \ {pick[s]}]]
           Bad == {n \in Nat : ~\E g : Folds(g, n)}
<1>0. /\ IsFiniteSet(S) /\ base \in V
      /\ \A s \in SUBSET S : s # {} => pick[s] \in s
      /\ \A x \in S, v \in V : next[x][v] \in V
  BY DEF Foldable
<1>1. \A t \in SUBSET S : IsFiniteSet(t) /\ Cardinality(t) \in Nat
  BY <1>0, FS_Subset, FS_CardinalityType
<1>2. Bad = {}
  <2> SUFFICES ASSUME Bad # {} PROVE FALSE
    OBVIOUS
  <2>1. PICK m \in Bad : \A n \in Bad : m <= n
    BY LeastNatural
  <2>a. m \in Nat /\ \A n \in Nat : n < m => \E g : Folds(g, n)
    <3> HIDE DEF Folds
    <3> QED
      BY <2>1
  <2>2. CASE m = 0
    <3>1. \A s \in Level(0) : s = {}
      BY <1>1, FS_EmptySet
    <3>2. Folds([s \in Level(0) |-> base], 0)
      BY <1>0, <3>1
    <3> QED
      BY <2>1, <2>2, <3>2
  <2>3. CASE m > 0
    <3>2. PICK g : Folds(g, m - 1)
      <4> HIDE DEF Folds
      <4> QED
        BY <2>a, <2>3
    <3> DEFINE h == [s \in Level(m) |-> IF s = {} THEN base
                                        ELSE next[pick[s]][g[s \ {pick[s]}]]]
    <3>3. ASSUME NEW s \in Level(m), s # {}
          PROVE  /\ pick[s] \in S /\ s \ {pick[s]} \in Level(m - 1)
                 /\ g[s \ {pick[s]}] \in V
      <4>1. pick[s] \in s /\ IsFiniteSet(s) /\ Cardinality(s) \in Nat
        BY <1>0, <1>1, <3>3
      <4>2. Cardinality(s \ {pick[s]}) = Cardinality(s) - 1
        BY <4>1, FS_RemoveElement
      <4>3. s \ {pick[s]} \in Level(m - 1)
        BY <2>a, <4>1, <4>2
      <4> QED
        BY <3>2, <4>1, <4>3
    <3>4. h \in [Level(m) -> V]
      BY <1>0, <3>3
    <3>5. Level(m - 1) \subseteq Level(m)
      BY <1>1, <2>a
    <3>6. \A s \in Level(m - 1) : h[s] = g[s]
      BY <3>2, <3>5
    <3>7. Folds(h, m)
      BY <3>3, <3>4, <3>6
    <3> QED
      BY <2>1, <3>7
  <2> QED
    BY <2>a, <2>2, <2>3
<1>3. PICK g : Folds(g, Cardinality(S))
  BY <1>0, <1>1, <1>2
<1>4. Level(Cardinality(S)) = SUBSET S
  BY <1>0, FS_Subset
<1> QED
  BY <1>3, <1>4 DEF FoldsOver

-----------------------------------------------------------------------------
(* Sums over a finite set of places *)

(* What a sum is of each subset, by the element it picks first. *)
SumsBy(g, S, w, pick) ==
    /\ g[{}] = 0
    /\ \A T \in SUBSET S : SumFunctionOnSet(w, T) = g[T]
    /\ \A T \in SUBSET S : T # {} =>
           pick[T] \in T /\ g[T] = w[pick[T]] + g[T \ {pick[T]}]

LEMMA SumRecursion ==
    ASSUME NEW S, IsFiniteSet(S), NEW w \in [S -> Int],
           NEW pick, pick = [s \in SUBSET S |-> CHOOSE y \in s : TRUE]
    PROVE  \E g \in [SUBSET S -> Int] : SumsBy(g, S, w, pick)
<1> DEFINE next == [x \in S |-> [v \in Int |-> w[x] + v]]
<1>1. \A s \in SUBSET S : s # {} => pick[s] \in s
  OBVIOUS
<1>2. \A x \in S, v \in Int : next[x][v] \in Int /\ next[x][v] = w[x] + v
  OBVIOUS
<1> HIDE DEF next
<1>a. PICK g \in [SUBSET S -> Int] : FoldsOver(g, S, 0, pick, next)
  <2>1. Foldable(S, Int, 0, pick, next)
    BY <1>1, <1>2 DEF Foldable
  <2> QED
    BY <2>1, FoldExists
<1>3. \A s \in SUBSET S :
          g[s] = IF s = {} THEN 0 ELSE next[pick[s]][g[s \ {pick[s]}]]
  BY <1>a DEF FoldsOver
<1>4. ASSUME NEW s \in SUBSET S, s # {}
      PROVE  pick[s] \in s /\ g[s] = w[pick[s]] + g[s \ {pick[s]}]
  <2>1. pick[s] \in s /\ pick[s] \in S
    BY <1>1, <1>4
  <2>2. s \ {pick[s]} \in SUBSET S
    OBVIOUS
  <2>3. g[s \ {pick[s]}] \in Int
    BY <2>2
  <2>4. g[s] = next[pick[s]][g[s \ {pick[s]}]]
    BY <1>3, <1>4
  <2> QED
    BY <1>2, <2>1, <2>3, <2>4
<1>5. ASSUME NEW T \in SUBSET S PROVE SumFunctionOnSet(w, T) = g[T]
  <2> DEFINE Sums(h) == h = [s \in SUBSET T |->
                                IF s = {} THEN 0
                                ELSE w[CHOOSE y \in s : TRUE] + h[s \ {CHOOSE y \in s : TRUE}]]
             iter == CHOOSE h : Sums(h)
  <2>1. SumFunctionOnSet(w, T) = iter[T]
    BY DEF SumFunctionOnSet, FoldFunctionOnSet, MapThenFoldSet
  <2>2. \A s \in SUBSET T : s # {} => pick[s] = CHOOSE y \in s : TRUE
    OBVIOUS
  <2>3. Sums([s \in SUBSET T |-> g[s]])
    <3> DEFINE h == [s \in SUBSET T |-> g[s]]
    <3>1. \A s \in SUBSET T : h[s] = IF s = {} THEN 0 ELSE w[pick[s]] + h[s \ {pick[s]}]
      <4> SUFFICES ASSUME NEW s \in SUBSET T
                   PROVE  h[s] = IF s = {} THEN 0 ELSE w[pick[s]] + h[s \ {pick[s]}]
        OBVIOUS
      <4>1. s \in SUBSET S /\ s \ {pick[s]} \in SUBSET T /\ h[s] = g[s]
        OBVIOUS
      <4>2. CASE s = {}
        BY <1>3, <4>1, <4>2
      <4>3. CASE s # {}
        BY <1>4, <4>1, <4>3
      <4> QED
        BY <4>2, <4>3
    <3>2. h = [s \in SUBSET T |-> h[s]]
      OBVIOUS
    <3> HIDE DEF h
    <3>3. h = [s \in SUBSET T |-> IF s = {} THEN 0 ELSE w[pick[s]] + h[s \ {pick[s]}]]
      BY <3>1, <3>2
    <3>4. Sums(h)
      BY <2>2, <3>3
    <3> QED
      BY <3>4 DEF h
  <2>4. Sums(iter)
    BY <2>3
  <2> HIDE DEF iter
  <2>5. \A s \in SUBSET T :
            iter[s] = IF s = {} THEN 0 ELSE w[pick[s]] + iter[s \ {pick[s]}]
    BY <2>2, <2>4
  <2> DEFINE Bad == {s \in SUBSET T : iter[s] # g[s]}
  <2>6. Bad = {}
    <3> SUFFICES ASSUME Bad # {} PROVE FALSE
      OBVIOUS
    <3>1. IsFiniteSet(T) /\ Bad \in SUBSET SUBSET T
      BY FS_Subset
    <3> HIDE DEF Bad
    <3>2. PICK t \in Bad : \A u \in SUBSET t : u # t => u \notin Bad
      BY <3>1, SmallestSubset
    <3> USE DEF Bad
    <3>3. t # {}
      BY <1>3, <2>5, <3>2
    <3>4. t \in SUBSET S /\ pick[t] \in t /\ g[t] = w[pick[t]] + g[t \ {pick[t]}]
      BY <1>4, <3>2, <3>3
    <3>5. iter[t \ {pick[t]}] = g[t \ {pick[t]}]
      BY <3>2, <3>4
    <3> QED
      BY <2>5, <3>2, <3>3, <3>4, <3>5
  <2> QED
    BY <2>1, <2>6
<1> QED
  BY <1>3, <1>4, <1>5 DEF SumsBy

(* A sum is that of any one place and of the rest. *)
LEMMA SumOfRest ==
    ASSUME NEW S, IsFiniteSet(S), NEW w \in [S -> Int]
    PROVE  /\ SumFunctionOnSet(w, {}) = 0
           /\ \A T \in SUBSET S : SumFunctionOnSet(w, T) \in Int
           /\ \A T \in SUBSET S : \A x \in T :
                  SumFunctionOnSet(w, T) = w[x] + SumFunctionOnSet(w, T \ {x})
<1>0. PICK pick : pick = [s \in SUBSET S |-> CHOOSE y \in s : TRUE]
  OBVIOUS
<1>a. PICK g \in [SUBSET S -> Int] : SumsBy(g, S, w, pick)
  BY <1>0, SumRecursion
<1>1. /\ g[{}] = 0
      /\ \A T \in SUBSET S : SumFunctionOnSet(w, T) = g[T]
      /\ \A T \in SUBSET S : T # {} =>
             pick[T] \in T /\ g[T] = w[pick[T]] + g[T \ {pick[T]}]
  BY <1>a DEF SumsBy
<1> DEFINE Bad == {T \in SUBSET S : \E x \in T : g[T] # w[x] + g[T \ {x}]}
<1>2. Bad = {}
  <2> SUFFICES ASSUME Bad # {} PROVE FALSE
    OBVIOUS
  <2>0. Bad \in SUBSET SUBSET S
    OBVIOUS
  <2> HIDE DEF Bad
  <2>1. PICK T \in Bad : \A u \in SUBSET T : u # T => u \notin Bad
    BY <2>0, SmallestSubset
  <2> USE DEF Bad
  <2>2. PICK x \in T : g[T] # w[x] + g[T \ {x}]
    BY <2>1
  <2>3. PICK c \in T : g[T] = w[c] + g[T \ {c}]
    BY <1>1, <2>2
  <2>4. x # c
    BY <2>2, <2>3
  <2>5. T \ {c} \in SUBSET T /\ T \ {c} # T /\ x \in T \ {c}
        /\ T \ {x} \in SUBSET T /\ T \ {x} # T /\ c \in T \ {x}
    BY <2>4
  <2>6. /\ T \ {c} \in SUBSET S /\ T \ {c} \notin Bad
        /\ T \ {x} \in SUBSET S /\ T \ {x} \notin Bad
    BY <2>1, <2>5
  <2>7. g[T \ {c}] = w[x] + g[(T \ {c}) \ {x}] /\ g[T \ {x}] = w[c] + g[(T \ {x}) \ {c}]
    BY <2>5, <2>6
  <2>8. (T \ {c}) \ {x} = (T \ {x}) \ {c} /\ (T \ {c}) \ {x} \in SUBSET S
    OBVIOUS
  <2>9. w[x] \in Int /\ w[c] \in Int /\ g[(T \ {c}) \ {x}] \in Int
    BY <2>8
  <2>10. g[(T \ {c}) \ {x}] = g[(T \ {x}) \ {c}]
    BY <2>8
  <2> HIDE DEF Bad
  <2> QED
    BY <2>2, <2>3, <2>7, <2>9, <2>10
<1>3. ASSUME NEW T \in SUBSET S, NEW x \in T
      PROVE  SumFunctionOnSet(w, T) = w[x] + SumFunctionOnSet(w, T \ {x})
  <2>1. T \ {x} \in SUBSET S
    OBVIOUS
  <2>2. g[T] = w[x] + g[T \ {x}]
    BY <1>2
  <2> QED
    BY <1>1, <2>1, <2>2
<1>4. SumFunctionOnSet(w, {}) = 0
  BY <1>1
<1>5. \A T \in SUBSET S : SumFunctionOnSet(w, T) \in Int
  BY <1>1
<1> QED
  BY <1>3, <1>4, <1>5
=============================================================================
