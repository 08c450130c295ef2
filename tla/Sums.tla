-------------------------------- MODULE Sums --------------------------------
(***************************************************************************)
(* Sums of weights over finite sets.  The modules write such a sum with    *)
(* MapThenSumSet, a fold that picks the members in an arbitrary order;     *)
(* the lemmas say that the order does not matter, how a sum changes when   *)
(* its set or its weights do, and what it bounds.  The library proves this *)
(* for an operator argument, which no backend installed can instantiate;   *)
(* here weights are a function, and a module that folds shows its fold to  *)
(* be such a sum where it needs it (AddsIsSum, FoldedIsSum).               *)
(* FiniteInduction is the induction all of it rests on: over subsets       *)
(* instead of a predicate, from the well-founded order of finite sets.     *)
(***************************************************************************)
EXTENDS Integers, FiniteSetsExt, FiniteSetTheorems, TLAPS

(* Whatever holds of {} and, with all the sets one smaller, of a set, holds *)
(* of every subset of a finite set.                                         *)
LEMMA FiniteInduction ==
  ASSUME NEW S, IsFiniteSet(S), NEW Good \in SUBSET SUBSET S, {} \in Good,
         \A T \in SUBSET S : T # {} /\ (\A x \in T : T \ {x} \in Good) => T \in Good
  PROVE  \A T \in SUBSET S : T \in Good
<1>. DEFINE Bad == (SUBSET S) \ Good
<1>. SUFFICES ASSUME Bad # {} PROVE FALSE
  OBVIOUS
<1>1. IsWellFoundedOn(StrictSubsetOrdering(S), SUBSET S)
  <2>1. FiniteSubsetsOf(S) = SUBSET S
    BY FS_FiniteSubsetsOfFinite
  <2>2. IsWellFoundedOn(StrictSubsetOrdering(S), FiniteSubsetsOf(S))
    BY FS_StrictSubsetOrderingWellFounded
  <2>. QED  BY <2>1, <2>2, Zenon
<1>2. PICK T \in Bad : \A U \in Bad : <<U, T>> \notin StrictSubsetOrdering(S)
  <2>1. Bad \subseteq SUBSET S
    OBVIOUS
  <2>. HIDE DEF Bad
  <2>. QED  BY <1>1, <2>1, WFMin
<1>3. ASSUME NEW x \in T PROVE T \ {x} \in Good
  <2>. DEFINE pair == <<T \ {x}, T>>
  <2>1. pair[1] = T \ {x} /\ pair[2] = T /\ pair \in (SUBSET S) \X (SUBSET S)
    OBVIOUS
  <2>2. pair \in StrictSubsetOrdering(S)
    <3>. HIDE DEF pair
    <3>1. pair[1] \subseteq pair[2] /\ pair[1] # pair[2]
      BY <2>1
    <3>. QED  BY <2>1, <3>1 DEF StrictSubsetOrdering
  <2>. QED  BY <2>2, <1>2
<1>. QED  BY <1>2, <1>3

-----------------------------------------------------------------------------
(* g sums the weights w over every subset of S, one picked member at a time. *)
Pick(s) == CHOOSE x \in s : TRUE
Adds(w, S, g) ==
  g = [s \in SUBSET S |-> IF s = {} THEN 0 ELSE w[Pick(s)] + g[s \ {Pick(s)}]]

(* The part of such a g that sums the subsets of T alone. *)
Within(g, T) == [s \in SUBSET T |-> g[s]]

SumOf(w, S) == (CHOOSE g : Adds(w, S, g))[S]

LEMMA PickIn ==
  ASSUME NEW s, s # {}
  PROVE  Pick(s) \in s
  BY DEF Pick

LEMMA AddsStep ==
  ASSUME NEW S, NEW w, NEW g, Adds(w, S, g), NEW s \in SUBSET S
  PROVE  /\ s = {} => g[s] = 0
         /\ s # {} => g[s] = w[Pick(s)] + g[s \ {Pick(s)}]
  BY DEF Adds

LEMMA AddsRestrict ==
  ASSUME NEW S, NEW w, NEW g, Adds(w, S, g), NEW T \in SUBSET S
  PROVE  Adds(w, T, Within(g, T))
<1>. DEFINE h == [s \in SUBSET T |-> g[s]]
<1>1. ASSUME NEW s \in SUBSET T
      PROVE  h[s] = IF s = {} THEN 0 ELSE w[Pick(s)] + h[s \ {Pick(s)}]
  <2>1. s \in SUBSET S /\ h[s] = g[s]
    OBVIOUS
  <2>2. (s \ {Pick(s)}) \in SUBSET T
    OBVIOUS
  <2>3. h[s \ {Pick(s)}] = g[s \ {Pick(s)}]
    BY <2>2
  <2>. QED  BY <2>1, <2>3, AddsStep
<1>2. h = [s \in SUBSET T |-> IF s = {} THEN 0 ELSE w[Pick(s)] + h[s \ {Pick(s)}]]
  BY <1>1
<1>. QED  BY <1>2 DEF Adds, Within

LEMMA AddsUnique ==
  ASSUME NEW S, IsFiniteSet(S), NEW w, NEW g, NEW h, Adds(w, S, g), Adds(w, S, h)
  PROVE  \A T \in SUBSET S : g[T] = h[T]
<1>. DEFINE Good == {T \in SUBSET S : g[T] = h[T]}
<1>1. {} \in Good
  <2>1. {} \in SUBSET S
    OBVIOUS
  <2>2. g[{}] = 0 /\ h[{}] = 0
    BY <2>1, AddsStep
  <2>. QED  BY <2>1, <2>2
<1>2. ASSUME NEW T \in SUBSET S, T # {}, \A x \in T : T \ {x} \in Good
      PROVE  T \in Good
  <2>1. Pick(T) \in T
    BY <1>2, PickIn
  <2>2. g[T \ {Pick(T)}] = h[T \ {Pick(T)}]
    BY <1>2, <2>1
  <2>3. g[T] = w[Pick(T)] + g[T \ {Pick(T)}] /\ h[T] = w[Pick(T)] + h[T \ {Pick(T)}]
    BY <1>2, AddsStep
  <2>. QED  BY <2>2, <2>3
<1>3. Good \in SUBSET SUBSET S
  OBVIOUS
<1>4. \A T \in SUBSET S : T \in Good
  <2>. HIDE DEF Good
  <2>. QED  BY <1>1, <1>2, <1>3, FiniteInduction
<1>. QED  BY <1>4

LEMMA AddsExists ==
  ASSUME NEW S, IsFiniteSet(S), NEW w
  PROVE  \E g : Adds(w, S, g)
<1>. DEFINE Good == {T \in SUBSET S : \E g : Adds(w, T, g)}
            Val(s) == SumOf(w, s)
<1>1. {} \in Good
  <2>. DEFINE g == [s \in SUBSET {} |-> 0]
  <2>1. g = [s \in SUBSET {} |-> IF s = {} THEN 0 ELSE w[Pick(s)] + g[s \ {Pick(s)}]]
    OBVIOUS
  <2>2. Adds(w, {}, g)
    BY <2>1 DEF Adds
  <2>. QED  BY <2>2
<1>2. ASSUME NEW T \in SUBSET S, T # {}, \A x \in T : T \ {x} \in Good
      PROVE  T \in Good
  <2>1. ASSUME NEW s \in SUBSET T, s # T
        PROVE  Val(s) = IF s = {} THEN 0 ELSE w[Pick(s)] + Val(s \ {Pick(s)})
    <3>1. PICK x \in T : s \subseteq T \ {x}
      BY <2>1
    <3>2. PICK h : Adds(w, T \ {x}, h)
      BY <1>2
    <3>3. ASSUME NEW r \in SUBSET s PROVE Val(r) = h[r]
      <4>1. r \in SUBSET (T \ {x}) /\ IsFiniteSet(r)
        BY <3>1, FS_Subset
      <4>2. Adds(w, r, Within(h, r))
        BY <4>1, <3>2, AddsRestrict
      <4>3. Adds(w, r, CHOOSE g : Adds(w, r, g))
        BY <4>2
      <4>4. r \in SUBSET r
        OBVIOUS
      <4>. HIDE DEF Val
      <4>5. (CHOOSE g : Adds(w, r, g))[r] = Within(h, r)[r]
        BY <4>1, <4>2, <4>3, <4>4, AddsUnique
      <4>. QED  BY <4>5, <4>4 DEF Val, SumOf, Within
    <3>4. s \in SUBSET (T \ {x}) /\ s \in SUBSET s /\ s \ {Pick(s)} \in SUBSET s
      BY <3>1
    <3>. HIDE DEF Val
    <3>5. Val(s) = h[s] /\ Val(s \ {Pick(s)}) = h[s \ {Pick(s)}]
      BY <3>3, <3>4
    <3>6. h[s] = IF s = {} THEN 0 ELSE w[Pick(s)] + h[s \ {Pick(s)}]
      BY <3>2, <3>4, AddsStep
    <3>. QED  BY <3>5, <3>6
  <2>. DEFINE g == [s \in SUBSET T |-> IF s = {} THEN 0 ELSE w[Pick(s)] + Val(s \ {Pick(s)})]
  <2>2. ASSUME NEW s \in SUBSET T, s # T PROVE g[s] = Val(s)
    <3>. HIDE DEF Val
    <3>. QED  BY <2>1, <2>2
  <2>3. ASSUME NEW s \in SUBSET T, s # {}
        PROVE  g[s \ {Pick(s)}] = Val(s \ {Pick(s)})
    <3>1. s \ {Pick(s)} \in SUBSET T /\ s \ {Pick(s)} # T
      BY <2>3, PickIn
    <3>. HIDE DEF Val, g
    <3>. QED  BY <3>1, <2>2
  <2>4. g = [s \in SUBSET T |-> IF s = {} THEN 0 ELSE w[Pick(s)] + g[s \ {Pick(s)}]]
    <3>. HIDE DEF Val
    <3>. QED  BY <2>3
  <2>5. Adds(w, T, g)
    <3>. HIDE DEF g
    <3>. QED  BY <2>4 DEF Adds
  <2>. QED  BY <2>5
<1>3. Good \in SUBSET SUBSET S
  OBVIOUS
<1>4. \A T \in SUBSET S : T \in Good
  <2>. HIDE DEF Good
  <2>. QED  BY <1>1, <1>2, <1>3, FiniteInduction
<1>. QED  BY <1>4

(* Any function that adds up the weights gives their sum. *)
LEMMA AddsIsSum ==
  ASSUME NEW S, IsFiniteSet(S), NEW w, NEW g, Adds(w, S, g), NEW T \in SUBSET S
  PROVE  g[T] = SumOf(w, T)
<1>. DEFINE h == Within(g, T)
            c == CHOOSE f : Adds(w, T, f)
<1>1. Adds(w, T, h) /\ IsFiniteSet(T)
  <2>1. Adds(w, T, h)
    BY AddsRestrict
  <2>. QED  BY <2>1, FS_Subset
<1>2. Adds(w, T, c)
  BY <1>1
<1>3. T \in SUBSET T /\ h[T] = g[T]
  BY DEF Within
<1>4. h[T] = c[T]
  <2>. HIDE DEF h, c
  <2>. QED  BY <1>1, <1>2, <1>3, AddsUnique
<1>. QED  BY <1>3, <1>4 DEF SumOf

-----------------------------------------------------------------------------
LEMMA SumStep ==
  ASSUME NEW S, IsFiniteSet(S), NEW w
  PROVE  \E g : /\ Adds(w, S, g)
                /\ \A T \in SUBSET S : g[T] = SumOf(w, T)
<1>1. PICK g : Adds(w, S, g)
  BY AddsExists
<1>. QED  BY <1>1, AddsIsSum

(* Nothing adds up to zero. *)
LEMMA SumEmpty ==
  ASSUME NEW w
  PROVE  SumOf(w, {}) = 0
<1>1. PICK g : Adds(w, {}, g) /\ \A T \in SUBSET {} : g[T] = SumOf(w, T)
  BY SumStep, FS_EmptySet
<1>2. {} \in SUBSET {}
  OBVIOUS
<1>. QED  BY <1>1, <1>2, AddsStep

(* Sums of integers are integers, sums of amounts amounts. *)
LEMMA SumType ==
  ASSUME NEW S, IsFiniteSet(S), NEW w
  PROVE  /\ (\A x \in S : w[x] \in Int) => SumOf(w, S) \in Int
         /\ (\A x \in S : w[x] \in Nat) => SumOf(w, S) \in Nat
<1>1. PICK g : Adds(w, S, g) /\ \A T \in SUBSET S : g[T] = SumOf(w, T)
  BY SumStep
<1>2. ASSUME NEW R, R = Int \/ R = Nat, \A x \in S : w[x] \in R
      PROVE  g[S] \in R
  <2>. DEFINE Good == {T \in SUBSET S : g[T] \in R}
  <2>1. {} \in Good
    <3>1. {} \in SUBSET S
      OBVIOUS
    <3>2. Adds(w, S, g)
      BY <1>1
    <3>3. g[{}] = 0
      BY <3>1, <3>2, AddsStep
    <3>. QED  BY <1>2, <3>1, <3>3
  <2>2. ASSUME NEW T \in SUBSET S, T # {}, \A x \in T : T \ {x} \in Good
        PROVE  T \in Good
    <3>1. Pick(T) \in T
      BY <2>2, PickIn
    <3>2. g[T \ {Pick(T)}] \in R /\ w[Pick(T)] \in R
      BY <2>2, <3>1, <1>2
    <3>3. g[T] = w[Pick(T)] + g[T \ {Pick(T)}]
      BY <2>2, <1>1, AddsStep
    <3>. QED  BY <3>2, <3>3, <1>2
  <2>3. Good \in SUBSET SUBSET S
    OBVIOUS
  <2>4. \A T \in SUBSET S : T \in Good
    <3>. HIDE DEF Good
    <3>. QED  BY <2>1, <2>2, <2>3, FiniteInduction
  <2>. QED  BY <2>4
<1>. QED  BY <1>1, <1>2

(* Any member may be taken out first. *)
LEMMA SumRemove ==
  ASSUME NEW S, IsFiniteSet(S), NEW w, \A x \in S : w[x] \in Int, NEW y \in S
  PROVE  SumOf(w, S) = w[y] + SumOf(w, S \ {y})
<1>1. PICK g : Adds(w, S, g) /\ \A T \in SUBSET S : g[T] = SumOf(w, T)
  BY SumStep
<1>2. ASSUME NEW T \in SUBSET S PROVE g[T] \in Int
  <2>1. IsFiniteSet(T) /\ \A x \in T : w[x] \in Int
    BY FS_Subset
  <2>. QED  BY <2>1, <1>1, SumType
<1>. DEFINE Good == {T \in SUBSET S : \A x \in T : g[T] = w[x] + g[T \ {x}]}
<1>3. {} \in Good
  OBVIOUS
<1>4. ASSUME NEW T \in SUBSET S, T # {}, \A x \in T : T \ {x} \in Good
      PROVE  T \in Good
  <2>. SUFFICES ASSUME NEW x \in T PROVE g[T] = w[x] + g[T \ {x}]
    OBVIOUS
  <2>1. Pick(T) \in T
    BY PickIn
  <2>2. g[T] = w[Pick(T)] + g[T \ {Pick(T)}]
    <3>1. Adds(w, S, g) /\ T # {}
      BY <1>1, <1>4
    <3>. QED  BY <3>1, AddsStep
  <2>3. CASE x = Pick(T)
    BY <2>2, <2>3
  <2>4. CASE x # Pick(T)
    <3>1. g[T \ {Pick(T)}] = w[x] + g[(T \ {Pick(T)}) \ {x}]
      <4>1. T \ {Pick(T)} \in Good /\ x \in T \ {Pick(T)}
        BY <1>4, <2>1, <2>4
      <4>. QED  BY <4>1
    <3>2. g[T \ {x}] = w[Pick(T)] + g[(T \ {x}) \ {Pick(T)}]
      <4>1. T \ {x} \in Good /\ Pick(T) \in T \ {x}
        BY <1>4, <2>1, <2>4
      <4>. QED  BY <4>1
    <3>3. g[T \ {x}] = w[Pick(T)] + g[(T \ {Pick(T)}) \ {x}]
      <4>1. (T \ {x}) \ {Pick(T)} = (T \ {Pick(T)}) \ {x}
        OBVIOUS
      <4>. QED  BY <3>2, <4>1, Zenon
    <3>4. (T \ {Pick(T)}) \ {x} \in SUBSET S /\ w[x] \in Int /\ w[Pick(T)] \in Int
      BY <2>1
    <3>5. g[(T \ {Pick(T)}) \ {x}] \in Int
      BY <3>4, <1>2
    <3>. QED  BY <2>2, <3>1, <3>3, <3>4, <3>5
  <2>. QED  BY <2>3, <2>4
<1>5. Good \in SUBSET SUBSET S
  OBVIOUS
<1>6. \A T \in SUBSET S : T \in Good
  <2>. HIDE DEF Good
  <2>. QED  BY <1>3, <1>4, <1>5, FiniteInduction
<1>7. S \in SUBSET S /\ S \ {y} \in SUBSET S
  OBVIOUS
<1>8. g[S] = w[y] + g[S \ {y}]
  BY <1>6, <1>7
<1>. QED  BY <1>1, <1>7, <1>8

(* A new member adds its weight. *)
LEMMA SumAdd ==
  ASSUME NEW S, IsFiniteSet(S), NEW w, NEW y, y \notin S,
         \A x \in S \cup {y} : w[x] \in Int
  PROVE  SumOf(w, S \cup {y}) = SumOf(w, S) + w[y]
<1>1. IsFiniteSet(S \cup {y})
  BY FS_AddElement
<1>2. SumOf(w, S \cup {y}) = w[y] + SumOf(w, (S \cup {y}) \ {y})
  BY <1>1, SumRemove
<1>3. (S \cup {y}) \ {y} = S
  OBVIOUS
<1>4. SumOf(w, S) \in Int /\ w[y] \in Int
  BY SumType
<1>5. SumOf(w, S \cup {y}) = w[y] + SumOf(w, S)
  BY <1>2, <1>3, Zenon
<1>. QED  BY <1>4, <1>5

(* A sum depends on the weights of its members only. *)
LEMMA SumSame ==
  ASSUME NEW S, IsFiniteSet(S), NEW v, NEW w, \A x \in S : v[x] = w[x]
  PROVE  SumOf(v, S) = SumOf(w, S)
<1>1. PICK g : Adds(v, S, g)
  BY AddsExists
<1>2. Adds(w, S, g)
  <2>1. ASSUME NEW s \in SUBSET S, s # {}
        PROVE  v[Pick(s)] = w[Pick(s)]
    BY <2>1, PickIn
  <2>. QED  BY <1>1, <2>1 DEF Adds
<1>3. S \in SUBSET S
  OBVIOUS
<1>. QED  BY <1>1, <1>2, <1>3, AddsIsSum

(* Changing one weight changes the sum by the difference. *)
LEMMA SumUpdate ==
  ASSUME NEW S, IsFiniteSet(S), NEW v, NEW w, NEW y \in S,
         \A x \in S : v[x] \in Int /\ w[x] \in Int,
         \A x \in S \ {y} : v[x] = w[x]
  PROVE  SumOf(v, S) = SumOf(w, S) - w[y] + v[y]
<1>1. IsFiniteSet(S \ {y})
  BY FS_RemoveElement
<1>2. SumOf(v, S \ {y}) = SumOf(w, S \ {y})
  BY <1>1, SumSame
<1>3. SumOf(v, S) = v[y] + SumOf(v, S \ {y}) /\ SumOf(w, S) = w[y] + SumOf(w, S \ {y})
  BY SumRemove
<1>4. SumOf(w, S \ {y}) \in Int /\ SumOf(v, S \ {y}) \in Int
  BY <1>1, SumType
<1>. QED  BY <1>2, <1>3, <1>4

(* A sum of amounts is at least each of them. *)
LEMMA SumAtLeast ==
  ASSUME NEW S, IsFiniteSet(S), NEW w, \A x \in S : w[x] \in Nat, NEW y \in S
  PROVE  w[y] <= SumOf(w, S)
<1>1. SumOf(w, S) = w[y] + SumOf(w, S \ {y})
  BY SumRemove
<1>2. SumOf(w, S \ {y}) \in Nat
  <2>1. IsFiniteSet(S \ {y})
    BY FS_RemoveElement
  <2>. QED  BY <2>1, SumType
<1>. QED  BY <1>1, <1>2

(* Weights between two bounds sum up to between as many times the bounds. *)
LEMMA SumBetween ==
  ASSUME NEW S, IsFiniteSet(S), NEW w, NEW lo \in Int, NEW hi \in Int,
         \A x \in S : w[x] \in lo..hi
  PROVE  /\ lo * Cardinality(S) <= SumOf(w, S)
         /\ SumOf(w, S) <= hi * Cardinality(S)
<1>. DEFINE Good == {T \in SUBSET S : /\ lo * Cardinality(T) <= SumOf(w, T)
                                     /\ SumOf(w, T) <= hi * Cardinality(T)}
<1>1. {} \in Good
  <2>1. Cardinality({}) = 0
    BY FS_EmptySet
  <2>. QED  BY <2>1, SumEmpty
<1>2. ASSUME NEW T \in SUBSET S, T # {}, \A x \in T : T \ {x} \in Good
      PROVE  T \in Good
  <2>1. PICK y \in T : TRUE
    BY <1>2
  <2>2. IsFiniteSet(T) /\ IsFiniteSet(T \ {y})
    BY FS_Subset
  <2>3. SumOf(w, T) = w[y] + SumOf(w, T \ {y})
    BY <2>2, SumRemove
  <2>4. SumOf(w, T \ {y}) \in Int
    BY <2>2, SumType
  <2>5. /\ Cardinality(T) \in Nat /\ Cardinality(T \ {y}) \in Nat
        /\ Cardinality(T) = Cardinality(T \ {y}) + 1
    BY <2>2, FS_RemoveElement, FS_CardinalityType
  <2>6. /\ lo * Cardinality(T) = lo * Cardinality(T \ {y}) + lo
        /\ hi * Cardinality(T) = hi * Cardinality(T \ {y}) + hi
    BY <2>5
  <2>7. /\ lo * Cardinality(T \ {y}) <= SumOf(w, T \ {y})
        /\ SumOf(w, T \ {y}) <= hi * Cardinality(T \ {y})
    BY <1>2
  <2>8. /\ lo * Cardinality(T \ {y}) \in Int /\ hi * Cardinality(T \ {y}) \in Int
        /\ lo * Cardinality(T) \in Int /\ hi * Cardinality(T) \in Int
    BY <2>5
  <2>. QED  BY <2>3, <2>4, <2>6, <2>7, <2>8
<1>3. Good \in SUBSET SUBSET S
  OBVIOUS
<1>4. \A T \in SUBSET S : T \in Good
  <2>. HIDE DEF Good
  <2>. QED  BY <1>1, <1>2, <1>3, FiniteInduction
<1>. QED  BY <1>4

(* A part and the rest add up to the whole. *)
LEMMA SumSplit ==
  ASSUME NEW S, IsFiniteSet(S), NEW w, \A x \in S : w[x] \in Int
  PROVE  \A T \in SUBSET S : SumOf(w, S) = SumOf(w, T) + SumOf(w, S \ T)
<1>. DEFINE Good == {T \in SUBSET S : SumOf(w, S) = SumOf(w, T) + SumOf(w, S \ T)}
<1>1. \A T \in SUBSET S : IsFiniteSet(T) /\ SumOf(w, T) \in Int
  BY FS_Subset, SumType
<1>2. {} \in Good
  <2>1. S \ {} = S /\ SumOf(w, {}) = 0
    BY SumEmpty
  <2>. QED  BY <1>1, <2>1
<1>3. ASSUME NEW T \in SUBSET S, T # {}, \A x \in T : T \ {x} \in Good
      PROVE  T \in Good
  <2>1. PICK y \in T : TRUE
    BY <1>3
  <2>2. SumOf(w, T) = w[y] + SumOf(w, T \ {y})
    BY <1>1, SumRemove
  <2>3. SumOf(w, S \ (T \ {y})) = SumOf(w, S \ T) + w[y]
    <3>1. S \ (T \ {y}) = (S \ T) \cup {y} /\ y \notin S \ T
      BY <2>1
    <3>2. IsFiniteSet(S \ T) /\ \A x \in (S \ T) \cup {y} : w[x] \in Int
      BY <1>1
    <3>3. SumOf(w, (S \ T) \cup {y}) = SumOf(w, S \ T) + w[y]
      BY <3>1, <3>2, SumAdd
    <3>. QED  BY <3>1, <3>3
  <2>4. SumOf(w, S) = SumOf(w, T \ {y}) + SumOf(w, S \ (T \ {y}))
    BY <1>3
  <2>5. w[y] \in Int /\ SumOf(w, T \ {y}) \in Int /\ SumOf(w, S \ T) \in Int
    BY <1>1
  <2>. QED  BY <2>2, <2>3, <2>4, <2>5
<1>4. Good \in SUBSET SUBSET S
  OBVIOUS
<1>5. \A T \in SUBSET S : T \in Good
  <2>. HIDE DEF Good
  <2>. QED  BY <1>2, <1>3, <1>4, FiniteInduction
<1>. QED  BY <1>5

(* A fold over weights that are a function is their sum. *)
Folded(w, S) == MapThenSumSet(LAMBDA x : w[x], S)

LEMMA FoldedIsSum ==
  ASSUME NEW S, IsFiniteSet(S), NEW w
  PROVE  Folded(w, S) = SumOf(w, S)
<1>. DEFINE fold == CHOOSE g : Adds(w, S, g)
<1>1. Adds(w, S, fold)
  BY AddsExists
<1>2. Folded(w, S) = fold[S]
  BY DEF Folded, MapThenSumSet, MapThenFoldSet, Adds, Pick
<1>. HIDE DEF fold
<1>3. S \in SUBSET S
  OBVIOUS
<1>. QED  BY <1>1, <1>2, <1>3, AddsIsSum

-----------------------------------------------------------------------------
(* One of finitely many has the highest value of all, one the lowest. *)
LEMMA Extremes ==
  ASSUME NEW S, IsFiniteSet(S), S # {}, NEW f, \A x \in S : f[x] \in Int
  PROVE  /\ \E x \in S : \A y \in S : f[y] <= f[x]
         /\ \E x \in S : \A y \in S : f[x] <= f[y]
<1>. DEFINE Bounded(T) == /\ \E x \in T : \A y \in T : f[y] <= f[x]
                          /\ \E x \in T : \A y \in T : f[x] <= f[y]
            Good == {T \in SUBSET S : T = {} \/ Bounded(T)}
<1>1. {} \in Good
  OBVIOUS
<1>2. ASSUME NEW T \in SUBSET S, T # {}, \A x \in T : T \ {x} \in Good
      PROVE  T \in Good
  <2>1. PICK z \in T : TRUE
    BY <1>2
  <2>2. CASE T \ {z} = {}
    <3>1. T = {z} /\ f[z] \in Int
      BY <2>1, <2>2
    <3>. QED  BY <3>1
  <2>3. CASE T \ {z} # {}
    <3>. DEFINE rest == T \ {z}
    <3>1. PICK h \in rest : \A y \in rest : f[y] <= f[h]
      BY <1>2, <2>3
    <3>2. PICK l \in rest : \A y \in rest : f[l] <= f[y]
      BY <1>2, <2>3
    <3>3. f[z] \in Int /\ f[h] \in Int /\ f[l] \in Int /\ \A y \in T : f[y] \in Int
      BY <3>1, <3>2
    <3>4. \E x \in T : \A y \in T : f[y] <= f[x]
      BY <3>1, <3>3
    <3>5. \E x \in T : \A y \in T : f[x] <= f[y]
      BY <3>2, <3>3
    <3>. QED  BY <3>4, <3>5
  <2>. QED  BY <2>2, <2>3
<1>3. Good \in SUBSET SUBSET S
  OBVIOUS
<1>4. \A T \in SUBSET S : T \in Good
  <2>. HIDE DEF Good
  <2>. QED  BY <1>1, <1>2, <1>3, FiniteInduction
<1>. QED  BY <1>4
=============================================================================
