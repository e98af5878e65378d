----------------------------- MODULE DataLemmas -----------------------------
(***************************************************************************)
(* Facts about the data the models are built from, which the other proofs  *)
(* cite: least and greatest members, induction over numbers and finite     *)
(* sets, recursion, sums and folds.  The induction and recursion theorems  *)
(* of the library take operators; here a property is the set of what has   *)
(* it and a step is a function, so that they can be used in first-order    *)
(* proofs.                                                                 *)
(***************************************************************************)
EXTENDS Orders, SequencesExt, FiniteSetTheorems, SequenceTheorems, WellFoundedInduction, TLAPS

(* A set of natural numbers with a member has a least one. *)
LEMMA LeastMember ==
  ASSUME NEW S \in SUBSET Nat, S # {}
  PROVE  Min(S) \in S /\ \A y \in S : Min(S) <= y
<1> DEFINE R == OpToRel(<, Nat)
<1>1. IsWellFoundedOn(R, Nat)
  BY NatLessThanWellFounded
<1>2. \A x, y \in Nat : x < y => <<x, y>> \in R
  BY DEF OpToRel
<1> HIDE DEF R
<1>3. PICK x \in S : \A y \in S : ~ (<<y, x>> \in R)
  BY <1>1, WFMin
<1>4. ASSUME NEW y \in S PROVE x <= y
  <2>1. ~(y < x) /\ x \in Nat /\ y \in Nat
    BY <1>2, <1>3
  <2>2. QED
    BY <2>1
<1>5. QED
  BY <1>4 DEF Min

(* A bounded set of numbers has a greatest element: the one nearest the bound. *)
LEMMA Greatest ==
  ASSUME NEW n \in Nat, NEW S \in SUBSET (0 .. n), S # {}
  PROVE  Max(S) \in S /\ \A y \in S : Max(S) >= y
<1> DEFINE R == OpToRel(<, Nat)
           Distances == {n - y : y \in S}
<1>1. IsWellFoundedOn(R, Nat)
  BY NatLessThanWellFounded
<1>2. \A x, y \in Nat : x < y => <<x, y>> \in R
  BY DEF OpToRel
<1> HIDE DEF R
<1>3. Distances \subseteq Nat /\ Distances # {}
  <2>1. PICK y \in S : TRUE
    OBVIOUS
  <2>2. n - y \in Distances
    BY <2>1
  <2>3. \A x \in S : n - x \in Nat
    OBVIOUS
  <2>4. QED
    BY <2>2, <2>3
<1>4. PICK d \in Distances : \A c \in Distances : ~ (<<c, d>> \in R)
  <2> HIDE DEF Distances
  <2>1. QED
    BY <1>1, <1>3, WFMin
<1>5. PICK x \in S : d = n - x
  BY <1>4
<1>6. ASSUME NEW y \in S PROVE x >= y
  <2>1. n - y \in Distances /\ n - y \in Nat /\ d \in Nat
    BY <1>3, <1>4
  <2>2. ~(n - y < d)
    BY <1>2, <1>4, <2>1
  <2>3. QED
    BY <1>5, <2>2
<1>7. QED
  BY <1>6 DEF Max

(* Of two numbers. *)
LEMMA MinOfTwo ==
  ASSUME NEW a \in Int, NEW b \in Int
  PROVE  Min({a, b}) = IF a <= b THEN a ELSE b
<1>1. Min({a, b}) \in {a, b} /\ \A y \in {a, b} : Min({a, b}) <= y
  <2>1. \E x \in {a, b} : \A y \in {a, b} : x <= y
    OBVIOUS
  <2>2. QED
    BY <2>1 DEF Min
<1>2. QED
  BY <1>1

LEMMA MaxOfTwo ==
  ASSUME NEW a \in Int, NEW b \in Int
  PROVE  Max({a, b}) = IF a >= b THEN a ELSE b
<1>1. Max({a, b}) \in {a, b} /\ \A y \in {a, b} : Max({a, b}) >= y
  <2>1. \E x \in {a, b} : \A y \in {a, b} : x >= y
    OBVIOUS
  <2>2. QED
    BY <2>1 DEF Max
<1>2. QED
  BY <1>1

-----------------------------------------------------------------------------
(* Induction *)

(* What holds of 0 and passes from each number to the next holds of all. *)
LEMMA NumberInduction ==
  ASSUME NEW Good, 0 \in Good, \A n \in Nat : n \in Good => n + 1 \in Good
  PROVE  \A n \in Nat : n \in Good
<1> DEFINE Bad == Nat \ Good
<1>1. SUFFICES ASSUME Bad # {} PROVE FALSE
  OBVIOUS
<1>2. Min(Bad) \in Bad /\ \A x \in Bad : Min(Bad) <= x
  BY <1>1, LeastMember
<1>3. Min(Bad) \in Nat \ {0}
  BY <1>2
<1>4. Min(Bad) - 1 \in Nat /\ Min(Bad) - 1 \in Good
  BY <1>2, <1>3
<1>5. QED
  BY <1>2, <1>4

(* What holds of a finite set if it holds of the set without any one of its
   elements holds of every subset of it. *)
LEMMA SizeInduction ==
  ASSUME NEW S, IsFiniteSet(S), NEW Good, {} \in Good,
         \A T \in SUBSET S : T # {} /\ (\A x \in T : T \ {x} \in Good) => T \in Good
  PROVE  \A T \in SUBSET S : T \in Good
<1> DEFINE Sizes == {n \in Nat : \A T \in SUBSET S : Cardinality(T) = n => T \in Good}
<1>1. 0 \in Sizes
  <2>1. ASSUME NEW T \in SUBSET S, Cardinality(T) = 0 PROVE T \in Good
    BY <2>1, FS_EmptySet, FS_Subset
  <2>2. QED
    BY <2>1
<1>2. ASSUME NEW n \in Nat, n \in Sizes PROVE n + 1 \in Sizes
  <2>1. ASSUME NEW T \in SUBSET S, Cardinality(T) = n + 1 PROVE T \in Good
    <3>1. IsFiniteSet(T) /\ T # {}
      BY <2>1, FS_EmptySet, FS_Subset
    <3>2. ASSUME NEW x \in T PROVE T \ {x} \in Good
      <4>1. Cardinality(T \ {x}) = Cardinality(T) - 1
        BY <3>1, FS_RemoveElement
      <4>2. Cardinality(T \ {x}) = n
        BY <2>1, <4>1
      <4>3. QED
        BY <1>2, <4>2
    <3>3. QED
      BY <3>1, <3>2
  <2>2. QED
    BY <2>1
<1> HIDE DEF Sizes
<1>3. \A n \in Nat : n \in Sizes
  BY <1>1, <1>2, NumberInduction
<1>4. ASSUME NEW T \in SUBSET S PROVE T \in Good
  <2>1. Cardinality(T) \in Nat
    BY FS_Subset, FS_CardinalityType
  <2>2. QED
    BY <1>3, <2>1 DEF Sizes
<1>5. QED
  BY <1>4

(* What holds of the empty set and stays true when an element is added holds
   of every finite set. *)
LEMMA SetInduction ==
  ASSUME NEW S, IsFiniteSet(S), NEW Good, {} \in Good,
         \A T \in SUBSET S : \A x \in S \ T : T \in Good => T \cup {x} \in Good
  PROVE  S \in Good
<1>1. ASSUME NEW T \in SUBSET S, T # {}, \A x \in T : T \ {x} \in Good PROVE T \in Good
  <2>1. PICK x \in T : TRUE
    BY <1>1
  <2>2. T = (T \ {x}) \cup {x} /\ T \ {x} \in SUBSET S /\ x \in S \ (T \ {x})
    BY <2>1
  <2>3. QED
    BY <1>1, <2>1, <2>2
<1>2. QED
  BY <1>1, SizeInduction

Picks(pick, S) == \A T \in SUBSET S : T # {} => pick[T] \in T

(* The same, where the element that leaves a set is chosen. *)
LEMMA PickInduction ==
  ASSUME NEW S, IsFiniteSet(S), NEW pick, Picks(pick, S),
         NEW Good, {} \in Good,
         \A T \in SUBSET S : T # {} /\ T \ {pick[T]} \in Good => T \in Good
  PROVE  \A T \in SUBSET S : T \in Good
<1>1. ASSUME NEW T \in SUBSET S, T # {}, \A x \in T : T \ {x} \in Good PROVE T \in Good
  BY <1>1 DEF Picks
<1>2. QED
  BY <1>1, SizeInduction

IsStep(step, X, S) == \A v \in X, d \in S : step[<<v, d>>] \in X

(* h is given by a value for the empty set and a step from a set without the
   element picked from it. *)
IsRecursive(h, S, X, pick, base, step) ==
  /\ h \in [SUBSET S -> X]
  /\ \A T \in SUBSET S : h[T] = IF T = {} THEN base ELSE step[<<h[T \ {pick[T]}], pick[T]>>]

(* Recursion over the subsets of a finite set: a value for the empty set, and
   a step from a set without its chosen element. *)
LEMMA SetRecursion ==
  ASSUME NEW S, IsFiniteSet(S), NEW pick, Picks(pick, S),
         NEW X, NEW base \in X, NEW step, IsStep(step, X, S)
  PROVE  \E h : IsRecursive(h, S, X, pick, base, step)
<1> DEFINE Upto(n) == {T \in SUBSET S : Cardinality(T) <= n}
           Value(h, T) == IF T = {} THEN base ELSE step[<<h[T \ {pick[T]}], pick[T]>>]
           Sizes == {n \in Nat : \E h \in [Upto(n) -> X] : \A T \in Upto(n) : h[T] = Value(h, T)}
<1>1. 0 \in Sizes
  <2> DEFINE h0 == [T \in Upto(0) |-> base]
  <2>1. \A T \in Upto(0) : T = {}
    <3>1. ASSUME NEW T \in SUBSET S, Cardinality(T) <= 0 PROVE T = {}
      <4>1. IsFiniteSet(T) /\ Cardinality(T) \in Nat
        BY FS_Subset, FS_CardinalityType
      <4>2. Cardinality(T) = 0
        BY <3>1, <4>1
      <4>3. QED
        BY <4>1, <4>2, FS_EmptySet
    <3>2. QED
      BY <3>1
  <2>2. h0 \in [Upto(0) -> X] /\ \A T \in Upto(0) : h0[T] = Value(h0, T)
    BY <2>1
  <2>3. QED
    BY <2>2
<1>2. ASSUME NEW n \in Nat, n \in Sizes PROVE n + 1 \in Sizes
  <2>1. PICK h \in [Upto(n) -> X] : \A T \in Upto(n) : h[T] = Value(h, T)
    BY <1>2
  <2> DEFINE g == [T \in Upto(n + 1) |-> Value(h, T)]
  <2>2. ASSUME NEW T \in Upto(n + 1), T # {}
        PROVE  T \ {pick[T]} \in Upto(n) /\ T \ {pick[T]} \in Upto(n + 1) /\ pick[T] \in S
    <3>1. IsFiniteSet(T) /\ Cardinality(T) \in Nat
      BY FS_Subset, FS_CardinalityType
    <3>2. pick[T] \in T
      BY <2>2 DEF Picks
    <3>3. Cardinality(T \ {pick[T]}) = Cardinality(T) - 1
      BY <3>1, <3>2, FS_RemoveElement
    <3>4. QED
      BY <2>2, <3>1, <3>2, <3>3
  <2>3. \A T \in Upto(n + 1) : Value(h, T) \in X
    <3>1. ASSUME NEW T \in Upto(n + 1), T # {} PROVE Value(h, T) \in X
      <4>1. h[T \ {pick[T]}] \in X /\ pick[T] \in S
        BY <2>1, <2>2, <3>1
      <4>2. QED
        BY <3>1, <4>1 DEF IsStep
    <3>2. QED
      BY <3>1
  <2>4. ASSUME NEW T \in Upto(n + 1) PROVE g[T] = Value(g, T)
    <3>1. CASE T = {}
      BY <3>1
    <3>2. CASE T # {}
      <4>1. g[T \ {pick[T]}] = h[T \ {pick[T]}]
        <5>1. T \ {pick[T]} \in Upto(n) /\ T \ {pick[T]} \in Upto(n + 1)
          BY <2>2, <3>2
        <5>2. g[T \ {pick[T]}] = Value(h, T \ {pick[T]})
          BY <5>1
        <5>3. QED
          BY <2>1, <5>1, <5>2
      <4>2. g[T] = Value(h, T)
        OBVIOUS
      <4>3. QED
        BY <3>2, <4>1, <4>2
    <3>3. QED
      BY <3>1, <3>2
  <2>5. g \in [Upto(n + 1) -> X]
    BY <2>3
  <2>6. \A T \in Upto(n + 1) : g[T] = Value(g, T)
    BY <2>4
  <2> HIDE DEF g, Value, Upto
  <2>7. QED
    BY <2>5, <2>6
<1>3. \A n \in Nat : n \in Sizes
  <2> HIDE DEF Sizes
  <2>1. QED
    BY <1>1, <1>2, NumberInduction
<1>4. Cardinality(S) \in Nat
  BY FS_CardinalityType
<1>5. Upto(Cardinality(S)) = SUBSET S
  BY FS_Subset
<1>6. PICK h \in [Upto(Cardinality(S)) -> X] : \A T \in Upto(Cardinality(S)) : h[T] = Value(h, T)
  BY <1>3, <1>4
<1>7. QED
  BY <1>5, <1>6 DEF IsRecursive

-----------------------------------------------------------------------------
(* Sums *)

(* h holds the sums over the subsets of S. *)
HoldsSums(h, S, f) ==
  /\ h \in [SUBSET S -> Int] /\ h[{}] = 0
  /\ \A T \in SUBSET S : h[T] = SumFunctionOnSet(f, T)
  /\ \A T \in SUBSET S : \A x \in T : h[T] = f[x] + h[T \ {x}]

(* The fold behind a sum is the recursion it is written as, whichever element
   is taken first. *)
LEMMA SumRecursion ==
  ASSUME NEW S, IsFiniteSet(S), NEW f, \A x \in S : f[x] \in Int
  PROVE  \E h : HoldsSums(h, S, f)
<1> DEFINE pick == [T \in SUBSET S |-> CHOOSE x \in T : TRUE]
           step == [p \in Int \X S |-> f[p[2]] + p[1]]
<1>1. Picks(pick, S)
  BY DEF Picks
<1>2. \A v \in Int, d \in S : step[<<v, d>>] = f[d] + v /\ step[<<v, d>>] \in Int
  OBVIOUS
<1>3. PICK h \in [SUBSET S -> Int] :
        \A T \in SUBSET S : h[T] = IF T = {} THEN 0 ELSE step[<<h[T \ {pick[T]}], pick[T]>>]
  <2> HIDE DEF pick, step
  <2>1. IsStep(step, Int, S)
    BY <1>2 DEF IsStep
  <2>2. ASSUME NEW zero \in Int PROVE \E h : IsRecursive(h, S, Int, pick, zero, step)
    BY <1>1, <2>1, SetRecursion
  <2>3. PICK h : IsRecursive(h, S, Int, pick, 0, step)
    BY <2>2
  <2>4. QED
    BY <2>3 DEF IsRecursive
<1>4. ASSUME NEW T \in SUBSET S, T # {}
      PROVE  /\ h[T] = f[pick[T]] + h[T \ {pick[T]}]
             /\ pick[T] = CHOOSE x \in T : TRUE
  <2>1. h[T \ {pick[T]}] \in Int /\ pick[T] \in S
    BY <1>1, <1>3, <1>4 DEF Picks
  <2> HIDE DEF step
  <2>2. QED
    BY <1>2, <1>3, <1>4, <2>1
<1>5. h[{}] = 0
  BY <1>3
<1>6. ASSUME NEW T \in SUBSET S PROVE h[T] = SumFunctionOnSet(f, T)
  <2> DEFINE Body(i) == [s \in SUBSET T |-> IF s = {} THEN 0
                           ELSE f[CHOOSE x \in s : TRUE] + i[s \ {CHOOSE x \in s : TRUE}]]
             iter == CHOOSE i : i = Body(i)
             g == [s \in SUBSET T |-> h[s]]
  <2>1. SumFunctionOnSet(f, T) = iter[T]
    BY DEF SumFunctionOnSet, FoldFunctionOnSet, MapThenFoldSet
  <2>2. \A s \in SUBSET T : Body(g)[s] = g[s]
    <3>1. ASSUME NEW s \in SUBSET T, s # {} PROVE Body(g)[s] = g[s]
      <4>1. s \in SUBSET S /\ s \ {CHOOSE x \in s : TRUE} \in SUBSET T
        OBVIOUS
      <4> HIDE DEF pick
      <4>2. h[s] = f[CHOOSE x \in s : TRUE] + h[s \ {CHOOSE x \in s : TRUE}]
        BY <1>4, <3>1, <4>1
      <4>3. QED
        BY <3>1, <4>1, <4>2
    <3>2. QED
      BY <1>5, <3>1
  <2>3. g = Body(g)
    BY <2>2
  <2>4. iter = Body(iter)
    <3> HIDE DEF g, Body
    <3>1. QED
      BY <2>3
  <2> DEFINE Good == {s \in SUBSET T : iter[s] = h[s]}
             pickT == [s \in SUBSET T |-> CHOOSE x \in s : TRUE]
  <2>5. {} \in Good
    <3>1. iter[{}] = Body(iter)[{}]
      BY <2>4
    <3> HIDE DEF iter
    <3>2. QED
      BY <1>5, <3>1
  <2>6. ASSUME NEW s \in SUBSET T, s # {}, s \ {pickT[s]} \in Good PROVE s \in Good
    <3>1. iter[s] = Body(iter)[s]
      BY <2>4
    <3>2. s \in SUBSET S /\ pickT[s] = CHOOSE x \in s : TRUE
      OBVIOUS
    <3> HIDE DEF iter
    <3>3. iter[s] = f[CHOOSE x \in s : TRUE] + iter[s \ {CHOOSE x \in s : TRUE}]
      BY <2>6, <3>1
    <3> HIDE DEF pick
    <3>4. h[s] = f[CHOOSE x \in s : TRUE] + h[s \ {CHOOSE x \in s : TRUE}]
      BY <1>4, <2>6, <3>2
    <3>5. QED
      BY <2>6, <3>2, <3>3, <3>4
  <2>7. IsFiniteSet(T)
    BY FS_Subset
  <2>8. Picks(pickT, T)
    BY DEF Picks
  <2> HIDE DEF Good, pickT, iter, g, Body
  <2>9. \A s \in SUBSET T : s \in Good
    BY <2>5, <2>6, <2>7, <2>8, PickInduction
  <2>10. QED
    BY <2>1, <2>9 DEF Good
<1>7. \A T \in SUBSET S : \A x \in T : h[T] = f[x] + h[T \ {x}]
  <2> DEFINE Good == {T \in SUBSET S : \A x \in T : h[T] = f[x] + h[T \ {x}]}
  <2>1. {} \in Good
    OBVIOUS
  <2>2. ASSUME NEW T \in SUBSET S, T # {}, \A x \in T : T \ {x} \in Good PROVE T \in Good
    <3>1. PICK y \in T : h[T] = f[y] + h[T \ {y}]
      BY <1>1, <1>4, <2>2 DEF Picks
    <3>2. ASSUME NEW x \in T, x # y PROVE h[T] = f[x] + h[T \ {x}]
      <4> DEFINE rest == (T \ {y}) \ {x}
      <4>1. rest = (T \ {x}) \ {y} /\ rest \in SUBSET S /\ x \in T \ {y} /\ y \in T \ {x}
        BY <3>2
      <4>2. h[T \ {y}] = f[x] + h[rest]
        BY <2>2, <4>1
      <4>3. h[T \ {x}] = f[y] + h[rest]
        BY <2>2, <4>1
      <4>4. f[x] \in Int /\ f[y] \in Int /\ h[rest] \in Int
        BY <1>3, <4>1
      <4> HIDE DEF rest
      <4>5. QED
        BY <3>1, <4>2, <4>3, <4>4
    <3>3. QED
      BY <3>1, <3>2
  <2> HIDE DEF Good
  <2>3. \A T \in SUBSET S : T \in Good
    BY <2>1, <2>2, SizeInduction
  <2>4. QED
    BY <2>3 DEF Good
<1>8. HoldsSums(h, S, f)
  BY <1>3, <1>5, <1>6, <1>7 DEF HoldsSums
<1>9. QED
  BY <1>8

LEMMA SumOfNothing ==
  ASSUME NEW f
  PROVE  SumFunctionOnSet(f, {}) = 0
<1>1. IsFiniteSet({})
  BY FS_EmptySet
<1>2. PICK h : HoldsSums(h, {}, f)
  BY <1>1, SumRecursion
<1>3. QED
  BY <1>2 DEF HoldsSums

(* A sum of integers, with any of its terms taken out. *)
LEMMA SumOf ==
  ASSUME NEW S, IsFiniteSet(S), NEW f, \A x \in S : f[x] \in Int
  PROVE  /\ SumFunctionOnSet(f, S) \in Int
         /\ \A x \in S : SumFunctionOnSet(f, S) = f[x] + SumFunctionOnSet(f, S \ {x})
<1>1. PICK h : HoldsSums(h, S, f)
  BY SumRecursion
<1>2. SumFunctionOnSet(f, S) = h[S] /\ h[S] \in Int
  BY <1>1 DEF HoldsSums
<1>3. ASSUME NEW x \in S PROVE SumFunctionOnSet(f, S) = f[x] + SumFunctionOnSet(f, S \ {x})
  <2>1. h[S] = f[x] + h[S \ {x}] /\ h[S \ {x}] = SumFunctionOnSet(f, S \ {x})
    BY <1>1 DEF HoldsSums
  <2>2. QED
    BY <1>2, <2>1
<1>4. QED
  BY <1>2, <1>3

Integral(f, S) == \A x \in S : f[x] \in Int

(* Of finitely many numbers one is the highest. *)
LEMMA Highest ==
  ASSUME NEW S, IsFiniteSet(S), S # {}, NEW f, Integral(f, S)
  PROVE  \E x \in S : \A y \in S : f[y] <= f[x]
<1> DEFINE Good == {T \in SUBSET S : T # {} => \E x \in T : \A y \in T : f[y] <= f[x]}
<1>1. {} \in Good
  OBVIOUS
<1>2. ASSUME NEW T \in SUBSET S, NEW x \in S \ T, T \in Good PROVE T \cup {x} \in Good
  <2>1. \A y \in S : f[y] \in Int
    BY DEF Integral
  <2>2. CASE T = {}
    BY <2>1, <2>2
  <2>3. CASE T # {}
    <3>1. PICK z \in T : \A y \in T : f[y] <= f[z]
      BY <1>2, <2>3
    <3>2. CASE f[x] <= f[z]
      BY <2>1, <3>1, <3>2
    <3>3. CASE f[z] < f[x]
      <4>1. \A y \in T \cup {x} : f[y] <= f[x]
        BY <2>1, <3>1, <3>3
      <4>2. QED
        BY <4>1
    <3>4. QED
      BY <2>1, <3>1, <3>2, <3>3
  <2>4. QED
    BY <2>2, <2>3
<1> HIDE DEF Good
<1>3. S \in Good
  BY <1>1, <1>2, SetInduction
<1>4. QED
  BY <1>3 DEF Good

(* One term more. *)
LEMMA SumWithOneMore ==
  ASSUME NEW S, IsFiniteSet(S), NEW T \in SUBSET S, NEW x \in S \ T, NEW f, Integral(f, S)
  PROVE  /\ SumFunctionOnSet(f, T) \in Int
         /\ SumFunctionOnSet(f, T \cup {x}) = f[x] + SumFunctionOnSet(f, T)
<1>1. IsFiniteSet(T) /\ IsFiniteSet(T \cup {x})
  BY FS_Subset
<1>2. SumFunctionOnSet(f, T \cup {x}) = f[x] + SumFunctionOnSet(f, (T \cup {x}) \ {x})
  BY <1>1, SumOf DEF Integral
<1>3. (T \cup {x}) \ {x} = T
  OBVIOUS
<1>4. SumFunctionOnSet(f, T) \in Int
  BY <1>1, SumOf DEF Integral
<1>5. QED
  BY <1>2, <1>3, <1>4

(* Sums compare and combine as their terms do. *)
LEMMA SumAtMost ==
  ASSUME NEW S, IsFiniteSet(S), NEW f, NEW g, \A x \in S : f[x] \in Int /\ g[x] \in Int /\ f[x] <= g[x]
  PROVE  SumFunctionOnSet(f, S) <= SumFunctionOnSet(g, S)
<1> DEFINE Good == {T \in SUBSET S : SumFunctionOnSet(f, T) <= SumFunctionOnSet(g, T)}
<1>1. {} \in Good
  BY SumOfNothing
<1>2. ASSUME NEW T \in SUBSET S, NEW x \in S \ T, T \in Good PROVE T \cup {x} \in Good
  <2>1. Integral(f, S) /\ Integral(g, S) /\ f[x] \in Int /\ g[x] \in Int /\ f[x] <= g[x]
    BY DEF Integral
  <2>2. /\ SumFunctionOnSet(f, T) \in Int /\ SumFunctionOnSet(f, T \cup {x}) = f[x] + SumFunctionOnSet(f, T)
        /\ SumFunctionOnSet(g, T) \in Int /\ SumFunctionOnSet(g, T \cup {x}) = g[x] + SumFunctionOnSet(g, T)
    BY <2>1, SumWithOneMore
  <2>3. QED
    BY <1>2, <2>1, <2>2
<1> HIDE DEF Good
<1>3. S \in Good
  BY <1>1, <1>2, SetInduction
<1>4. QED
  BY <1>3 DEF Good

LEMMA SumsEqual ==
  ASSUME NEW S, IsFiniteSet(S), NEW f, NEW g, \A x \in S : f[x] \in Int /\ g[x] = f[x]
  PROVE  SumFunctionOnSet(f, S) = SumFunctionOnSet(g, S)
<1>1. SumFunctionOnSet(f, S) <= SumFunctionOnSet(g, S) /\ SumFunctionOnSet(g, S) <= SumFunctionOnSet(f, S)
  BY SumAtMost
<1>2. SumFunctionOnSet(f, S) \in Int /\ SumFunctionOnSet(g, S) \in Int
  BY SumOf
<1>3. QED
  BY <1>1, <1>2

Combines(f, g, k, h, S) == \A x \in S : g[x] \in Int /\ h[x] \in Int /\ f[x] = g[x] + k * h[x]

LEMMA SumOfMultiples ==
  ASSUME NEW S, IsFiniteSet(S), NEW f, NEW g, NEW h, NEW k \in Int, Combines(f, g, k, h, S)
  PROVE  SumFunctionOnSet(f, S) = SumFunctionOnSet(g, S) + k * SumFunctionOnSet(h, S)
<1> DEFINE F(T) == SumFunctionOnSet(f, T)
           G(T) == SumFunctionOnSet(g, T)
           H(T) == SumFunctionOnSet(h, T)
           Good == {T \in SUBSET S : F(T) = G(T) + k * H(T)}
<1>1. {} \in Good
  BY SumOfNothing
<1>2. ASSUME NEW T \in SUBSET S, NEW x \in S \ T, T \in Good PROVE T \cup {x} \in Good
  <2>1. Integral(f, S) /\ Integral(g, S) /\ Integral(h, S)
    BY DEF Combines, Integral
  <2>2. ASSUME NEW e, Integral(e, S), e[x] \in Int
        PROVE  /\ SumFunctionOnSet(e, T) \in Int
               /\ SumFunctionOnSet(e, T \cup {x}) = e[x] + SumFunctionOnSet(e, T)
    BY <2>2, SumWithOneMore
  <2>3. F(T) = G(T) + k * H(T) /\ f[x] = g[x] + k * h[x] /\ g[x] \in Int /\ h[x] \in Int
    BY <1>2 DEF Combines
  <2>4. /\ F(T \cup {x}) = f[x] + F(T)
        /\ G(T) \in Int /\ G(T \cup {x}) = g[x] + G(T)
        /\ H(T) \in Int /\ H(T \cup {x}) = h[x] + H(T)
    BY <2>1, <2>2 DEF Integral
  <2> HIDE DEF F, G, H
  <2>5. F(T \cup {x}) = G(T \cup {x}) + k * H(T \cup {x})
    <3>1. k * (h[x] + H(T)) = k * h[x] + k * H(T)
      BY <2>3, <2>4
    <3>2. QED
      BY <2>3, <2>4, <3>1
  <2>6. QED
    BY <2>5
<1> HIDE DEF Good
<1>3. S \in Good
  BY <1>1, <1>2, SetInduction
<1>4. QED
  BY <1>3 DEF Good

Vanishes(f, S) == \A x \in S : f[x] = 0

LEMMA SumOfZeros ==
  ASSUME NEW S, IsFiniteSet(S), NEW f, Vanishes(f, S)
  PROVE  SumFunctionOnSet(f, S) = 0
<1> DEFINE Good == {T \in SUBSET S : SumFunctionOnSet(f, T) = 0}
<1>1. {} \in Good
  BY SumOfNothing
<1>2. ASSUME NEW T \in SUBSET S, NEW x \in S \ T, T \in Good PROVE T \cup {x} \in Good
  <2>1. Integral(f, S) /\ f[x] \in Int
    BY DEF Integral, Vanishes
  <2>2. /\ SumFunctionOnSet(f, T) \in Int
        /\ SumFunctionOnSet(f, T \cup {x}) = f[x] + SumFunctionOnSet(f, T)
    BY <2>1, SumWithOneMore
  <2>3. QED
    BY <1>2, <2>1, <2>2 DEF Vanishes
<1> HIDE DEF Good
<1>3. S \in Good
  BY <1>1, <1>2, SetInduction
<1>4. QED
  BY <1>3 DEF Good

(* The sum over 0 .. a of what happened so many ticks ago. *)
LEMMA PrefixSums ==
  ASSUME NEW n \in Nat, NEW f \in [0 .. n -> Nat]
  PROVE  /\ \A a \in 0 .. n : SumFunctionOnSet(f, 0 .. a) \in Nat
         /\ SumFunctionOnSet(f, 0 .. 0) = f[0]
         /\ \A a \in 0 .. n : a > 0 => SumFunctionOnSet(f, 0 .. a) = f[a] + SumFunctionOnSet(f, 0 .. (a - 1))
<1> DEFINE Total(a) == SumFunctionOnSet(f, 0 .. a)
           Good == {a \in Nat : a <= n => Total(a) \in Nat}
<1>1. IsFiniteSet(0 .. n) /\ Integral(f, 0 .. n)
  BY FS_Interval DEF Integral
<1>2. Total(0) = f[0]
  <2>1. SumFunctionOnSet(f, {} \cup {0}) = f[0] + SumFunctionOnSet(f, {})
    BY <1>1, SumWithOneMore
  <2>2. 0 .. 0 = {} \cup {0}
    OBVIOUS
  <2>3. QED
    BY <1>1, <2>1, <2>2, SumOfNothing
<1>3. ASSUME NEW a \in 1 .. n PROVE Total(a) = f[a] + Total(a - 1)
  <2>1. 0 .. (a - 1) \in SUBSET (0 .. n) /\ a \in (0 .. n) \ (0 .. (a - 1)) /\ 0 .. a = (0 .. (a - 1)) \cup {a}
    OBVIOUS
  <2>2. QED
    BY <1>1, <2>1, SumWithOneMore
<1>4. 0 \in Good
  BY <1>2
<1>5. ASSUME NEW a \in Nat, a \in Good PROVE a + 1 \in Good
  <2>1. CASE a + 1 <= n
    <3>1. Total(a + 1) = f[a + 1] + Total((a + 1) - 1) /\ f[a + 1] \in Nat
      BY <1>3, <2>1
    <3>2. Total(a) \in Nat /\ (a + 1) - 1 = a
      BY <1>5, <2>1
    <3> HIDE DEF Total
    <3>3. QED
      BY <3>1, <3>2
  <2>2. QED
    BY <2>1
<1> HIDE DEF Good
<1>6. \A a \in Nat : a \in Good
  BY <1>4, <1>5, NumberInduction
<1>7. QED
  BY <1>2, <1>3, <1>6 DEF Good

(* One more now. *)
LEMMA OneMoreNow ==
  ASSUME NEW n \in Nat, NEW f \in [0 .. n -> Nat], NEW a \in 0 .. n
  PROVE  SumFunctionOnSet([f EXCEPT ![0] = @ + 1], 0 .. a) = SumFunctionOnSet(f, 0 .. a) + 1
<1> DEFINE g == [f EXCEPT ![0] = @ + 1]
<1>1. IsFiniteSet(0 .. a) /\ 0 \in 0 .. a /\ IsFiniteSet((0 .. a) \ {0})
  <2>1. IsFiniteSet(0 .. a)
    BY FS_Interval
  <2>2. IsFiniteSet((0 .. a) \ {0})
    BY <2>1, FS_RemoveElement
  <2>3. QED
    BY <2>1, <2>2
<1>2. /\ g[0] = f[0] + 1 /\ f[0] \in Nat
      /\ \A y \in 0 .. a : f[y] \in Int /\ g[y] \in Int
      /\ \A y \in (0 .. a) \ {0} : g[y] = f[y]
  OBVIOUS
<1> HIDE DEF g
<1>3. SumFunctionOnSet(g, 0 .. a) = g[0] + SumFunctionOnSet(g, (0 .. a) \ {0})
  BY <1>1, <1>2, SumOf
<1>4. SumFunctionOnSet(f, 0 .. a) = f[0] + SumFunctionOnSet(f, (0 .. a) \ {0})
  BY <1>1, <1>2, SumOf
<1>5. SumFunctionOnSet(g, (0 .. a) \ {0}) = SumFunctionOnSet(f, (0 .. a) \ {0})
  BY <1>1, <1>2, SumsEqual
<1>6. SumFunctionOnSet(f, (0 .. a) \ {0}) \in Int
  BY <1>1, <1>2, SumOf
<1>7. SumFunctionOnSet(g, 0 .. a) = SumFunctionOnSet(f, 0 .. a) + 1
  BY <1>2, <1>3, <1>4, <1>5, <1>6
<1>8. QED
  BY <1>7 DEF g

IsOlder(g, f, n) == g \in [0 .. n -> Nat] /\ g[0] = 0 /\ \A a \in 0 .. n : a + 1 <= n => g[a + 1] = f[a]

(* All a tick older. *)
LEMMA OneTickOlder ==
  ASSUME NEW n \in Nat, NEW f \in [0 .. n -> Nat],
         NEW g, IsOlder(g, f, n)
  PROVE  /\ SumFunctionOnSet(g, 0 .. 0) = 0
         /\ \A a \in 1 .. n : SumFunctionOnSet(g, 0 .. a) = SumFunctionOnSet(f, 0 .. (a - 1))
<1> DEFINE Good == {a \in Nat : a + 1 <= n => SumFunctionOnSet(g, 0 .. (a + 1)) = SumFunctionOnSet(f, 0 .. a)}
<1>1. /\ g \in [0 .. n -> Nat] /\ g[0] = 0 /\ \A a \in 0 .. n : a + 1 <= n => g[a + 1] = f[a]
  BY DEF IsOlder
<1>2. SumFunctionOnSet(g, 0 .. 0) = 0
  BY <1>1, PrefixSums
<1>3. ASSUME NEW a \in Nat, a + 1 <= n
      PROVE  SumFunctionOnSet(g, 0 .. (a + 1)) = f[a] + SumFunctionOnSet(g, 0 .. a)
  <2>1. a + 1 \in 0 .. n /\ a + 1 > 0 /\ (a + 1) - 1 = a /\ a \in 0 .. n
    BY <1>3
  <2>2. SumFunctionOnSet(g, 0 .. (a + 1)) = g[a + 1] + SumFunctionOnSet(g, 0 .. ((a + 1) - 1))
    BY <1>1, <2>1, PrefixSums
  <2>3. QED
    BY <1>1, <1>3, <2>1, <2>2
<1>4. 0 \in Good
  <2>1. ASSUME 0 + 1 <= n PROVE SumFunctionOnSet(g, 0 .. (0 + 1)) = SumFunctionOnSet(f, 0 .. 0)
    <3>1. SumFunctionOnSet(g, 0 .. (0 + 1)) = f[0] + 0
      BY <1>2, <1>3, <2>1
    <3>2. SumFunctionOnSet(f, 0 .. 0) = f[0] /\ f[0] \in Nat
      BY PrefixSums
    <3>3. QED
      BY <3>1, <3>2
  <2>2. QED
    BY <2>1
<1>5. ASSUME NEW a \in Nat, a \in Good PROVE a + 1 \in Good
  <2>1. ASSUME (a + 1) + 1 <= n
        PROVE  SumFunctionOnSet(g, 0 .. ((a + 1) + 1)) = SumFunctionOnSet(f, 0 .. (a + 1))
    <3>1. SumFunctionOnSet(g, 0 .. ((a + 1) + 1)) = f[a + 1] + SumFunctionOnSet(g, 0 .. (a + 1))
      <4>1. PICK b \in Nat : b = a + 1
        OBVIOUS
      <4>2. SumFunctionOnSet(g, 0 .. (b + 1)) = f[b] + SumFunctionOnSet(g, 0 .. b)
        BY <1>3, <2>1, <4>1
      <4>3. QED
        BY <4>1, <4>2
    <3>2. SumFunctionOnSet(g, 0 .. (a + 1)) = SumFunctionOnSet(f, 0 .. a)
      BY <1>5, <2>1
    <3>3. a + 1 \in 0 .. n /\ a + 1 > 0 /\ (a + 1) - 1 = a
      BY <2>1
    <3>4. SumFunctionOnSet(f, 0 .. (a + 1)) = f[a + 1] + SumFunctionOnSet(f, 0 .. ((a + 1) - 1))
      BY <3>3, PrefixSums
    <3>5. QED
      BY <3>1, <3>2, <3>3, <3>4
  <2>2. QED
    BY <2>1
<1> HIDE DEF Good
<1>6. \A a \in Nat : a \in Good
  BY <1>4, <1>5, NumberInduction
<1>7. ASSUME NEW a \in 1 .. n PROVE SumFunctionOnSet(g, 0 .. a) = SumFunctionOnSet(f, 0 .. (a - 1))
  <2>1. a - 1 \in Nat /\ (a - 1) + 1 = a /\ (a - 1) + 1 <= n
    OBVIOUS
  <2>2. SumFunctionOnSet(g, 0 .. ((a - 1) + 1)) = SumFunctionOnSet(f, 0 .. (a - 1))
    BY <1>6, <2>1 DEF Good
  <2>3. QED
    BY <2>1, <2>2
<1>8. QED
  BY <1>1, <1>2, <1>7

-----------------------------------------------------------------------------
(* Orders *)

IsOrder(R, S) ==
  /\ \A x \in S : <<x, x>> \notin R
  /\ \A x, y \in S : x # y => <<x, y>> \in R \/ <<y, x>> \in R
  /\ \A x, y, z \in S : <<x, y>> \in R /\ <<y, z>> \in R => <<x, z>> \in R

(* o lists S once, in the order R. *)
Lists(o, S, R) ==
  /\ o \in [1 .. Cardinality(S) -> S]
  /\ \A x \in S : \E i \in 1 .. Cardinality(S) : o[i] = x
  /\ \A i, j \in 1 .. Cardinality(S) : i < j <=> <<o[i], o[j]>> \in R

LEMMA OrderedLists ==
  ASSUME NEW S, IsFiniteSet(S), NEW R, IsOrder(R, S)
  PROVE  Cardinality(S) \in Nat /\ Lists(Ordered(S, R), S, R)
<1> DEFINE n == Cardinality(S)
           Below(x) == {y \in S : <<y, x>> \in R}
           rank == [x \in S |-> Cardinality(Below(x))]
<1>1. n \in Nat
  BY FS_CardinalityType
<1>2. ASSUME NEW x \in S
      PROVE  IsFiniteSet(Below(x)) /\ Cardinality(Below(x)) \in 0 .. (n - 1)
  <2>1. x \notin Below(x) /\ Below(x) \subseteq S \ {x}
    BY DEF IsOrder
  <2>2. IsFiniteSet(S \ {x}) /\ Cardinality(S \ {x}) = n - 1
    BY FS_RemoveElement
  <2> HIDE DEF Below
  <2>3. IsFiniteSet(Below(x)) /\ Cardinality(Below(x)) <= n - 1
    BY <2>1, <2>2, FS_Subset
  <2>4. Cardinality(Below(x)) \in Nat
    BY <2>3, FS_CardinalityType
  <2> HIDE DEF n
  <2>5. QED
    BY <1>1, <2>3, <2>4
<1>3. ASSUME NEW x \in S, NEW y \in S, <<x, y>> \in R
      PROVE  Cardinality(Below(x)) < Cardinality(Below(y))
  <2>1. Below(x) \cup {x} \subseteq Below(y) /\ x \notin Below(x)
    BY <1>3 DEF IsOrder
  <2> HIDE DEF Below
  <2>2. Cardinality(Below(x) \cup {x}) = Cardinality(Below(x)) + 1
    BY <1>2, <2>1, FS_AddElement
  <2>3. Cardinality(Below(x) \cup {x}) <= Cardinality(Below(y))
    BY <1>2, <2>1, FS_Subset
  <2>4. QED
    BY <1>2, <2>2, <2>3
<1> HIDE DEF n
<1>4. rank \in Injection(S, 0 .. (n - 1))
  <2>1. rank \in [S -> 0 .. (n - 1)]
    BY <1>2
  <2>2. ASSUME NEW x \in S, NEW y \in S, rank[x] = rank[y] PROVE x = y
    <3>1. Cardinality(Below(x)) = Cardinality(Below(y)) /\ Cardinality(Below(x)) \in Int
      BY <1>2, <2>2
    <3>2. <<x, y>> \notin R /\ <<y, x>> \notin R
      BY <1>2, <1>3, <3>1
    <3>3. QED
      BY <3>2 DEF IsOrder
  <2> HIDE DEF rank
  <2>3. QED
    BY <2>1, <2>2 DEF Injection, IsInjective
<1>5. rank \in Surjection(S, 0 .. (n - 1))
  <2> HIDE DEF rank
  <2>1. IsFiniteSet(0 .. (n - 1)) /\ Cardinality(0 .. (n - 1)) = n
    BY <1>1, FS_Interval
  <2>2. QED
    BY <1>4, <2>1, FS_Injection DEF n
<1>6. ASSUME NEW i \in 1 .. n
      PROVE  Ordered(S, R)[i] \in S /\ rank[Ordered(S, R)[i]] = i - 1
  <2>1. i - 1 \in 0 .. (n - 1)
    BY <1>1
  <2>2. PICK x \in S : rank[x] = i - 1
    BY <1>5, <2>1 DEF Surjection
  <2>3. \E z \in S : Cardinality({y \in S : <<y, z>> \in R}) = i - 1
    BY <2>2
  <2>4. Ordered(S, R)[i] = CHOOSE z \in S : Cardinality({y \in S : <<y, z>> \in R}) = i - 1
    BY DEF Ordered, n
  <2>5. QED
    BY <2>3, <2>4
<1>7. Ordered(S, R) \in [1 .. n -> S]
  <2>1. \A i \in 1 .. n : Ordered(S, R)[i] \in S
    BY <1>6
  <2>2. QED
    BY <2>1 DEF Ordered, n
<1>8. ASSUME NEW x \in S PROVE \E i \in 1 .. n : Ordered(S, R)[i] = x
  <2>1. rank[x] \in 0 .. (n - 1) /\ rank[x] + 1 \in 1 .. n /\ (rank[x] + 1) - 1 = rank[x]
    <3>1. PICK r \in 0 .. (n - 1) : r = rank[x]
      BY <1>2
    <3> HIDE DEF rank
    <3>2. QED
      BY <1>1, <3>1
  <2> DEFINE z == Ordered(S, R)[rank[x] + 1]
  <2>2. z \in S /\ rank[z] = rank[x]
    BY <1>6, <2>1
  <2> HIDE DEF rank
  <2>3. z = x
    BY <1>4, <2>2 DEF Injection, IsInjective
  <2>4. QED
    BY <2>1, <2>3
<1>9. ASSUME NEW i \in 1 .. n, NEW j \in 1 .. n
      PROVE  i < j <=> <<Ordered(S, R)[i], Ordered(S, R)[j]>> \in R
  <2>1. PICK x \in S, y \in S : x = Ordered(S, R)[i] /\ y = Ordered(S, R)[j]
    BY <1>6
  <2>2. Cardinality(Below(x)) = i - 1 /\ Cardinality(Below(y)) = j - 1
    BY <1>6, <2>1
  <2> HIDE DEF Below
  <2>3. ASSUME <<x, y>> \in R PROVE i < j
    BY <1>1, <1>3, <2>2, <2>3
  <2>4. ASSUME i < j PROVE <<x, y>> \in R
    <3>1. x # y
      BY <2>2, <2>4, <1>1
    <3>2. <<y, x>> \notin R
      BY <1>1, <1>3, <2>2, <2>4
    <3>3. QED
      BY <3>1, <3>2 DEF IsOrder
  <2>5. QED
    BY <2>1, <2>3, <2>4
<1>10. QED
  BY <1>1, <1>7, <1>8, <1>9 DEF Lists, n

LEMMA AscendingLists ==
  ASSUME NEW n \in Nat, NEW S \in SUBSET (1 .. n)
  PROVE  LET o == Ascending(S)
         IN /\ Cardinality(S) \in 0 .. n /\ o \in [1 .. Cardinality(S) -> S]
            /\ \A x \in S : \E i \in 1 .. Cardinality(S) : o[i] = x
            /\ \A i, j \in 1 .. Cardinality(S) : i < j <=> o[i] < o[j]
<1> DEFINE R == {p \in S \X S : p[1] < p[2]}
<1>1. IsFiniteSet(1 .. n) /\ Cardinality(1 .. n) = n
  BY FS_Interval
<1>2. IsFiniteSet(S) /\ Cardinality(S) <= n /\ Cardinality(S) \in Nat
  BY <1>1, FS_Subset, FS_CardinalityType
<1>3. \A x, y \in S : <<x, y>> \in R <=> x < y
  OBVIOUS
<1>4. IsOrder(R, S)
  <2> HIDE DEF R
  <2>1. QED
    BY <1>3 DEF IsOrder
<1>5. Ascending(S) = Ordered(S, R)
  BY DEF Ascending
<1> HIDE DEF R
<1>6. Lists(Ascending(S), S, R)
  BY <1>2, <1>4, <1>5, OrderedLists
<1> DEFINE o == Ascending(S)
<1>7. /\ o \in [1 .. Cardinality(S) -> S]
      /\ \A x \in S : \E i \in 1 .. Cardinality(S) : o[i] = x
      /\ \A i, j \in 1 .. Cardinality(S) : i < j <=> <<o[i], o[j]>> \in R
  BY <1>6 DEF Lists
<1> HIDE DEF o
<1>8. \A i, j \in 1 .. Cardinality(S) : i < j <=> o[i] < o[j]
  BY <1>3, <1>7
<1>9. Cardinality(S) \in 0 .. n
  BY <1>2
<1>10. QED
  BY <1>7, <1>8, <1>9 DEF o

(* A choice of places, in order. *)
LEMMA PickedPlaces ==
  ASSUME NEW D, NEW s \in Seq(D), NEW S \in SUBSET DOMAIN s
  PROVE  /\ Cardinality(S) \in 0 .. Len(s) /\ Picked(s, S) \in Seq(D) /\ Len(Picked(s, S)) = Cardinality(S)
         /\ \E o \in [1 .. Cardinality(S) -> S] :
              /\ \A x \in S : \E i \in 1 .. Cardinality(S) : o[i] = x
              /\ \A i, j \in 1 .. Cardinality(S) : i < j <=> o[i] < o[j]
              /\ \A i \in 1 .. Cardinality(S) : Picked(s, S)[i] = s[o[i]]
<1> DEFINE o == Ascending(S)
<1>1. Len(s) \in Nat /\ DOMAIN s = 1 .. Len(s)
  OBVIOUS
<1>2. /\ Cardinality(S) \in 0 .. Len(s) /\ o \in [1 .. Cardinality(S) -> S]
      /\ \A x \in S : \E i \in 1 .. Cardinality(S) : o[i] = x
      /\ \A i, j \in 1 .. Cardinality(S) : i < j <=> o[i] < o[j]
  BY <1>1, AscendingLists
<1>3. Picked(s, S) = [k \in 1 .. Cardinality(S) |-> s[o[k]]]
  BY DEF Picked
<1> HIDE DEF o
<1>4. \A k \in 1 .. Cardinality(S) : o[k] \in DOMAIN s /\ s[o[k]] \in D
  BY <1>2
<1>5. Picked(s, S) \in [1 .. Cardinality(S) -> D]
  BY <1>3, <1>4
<1>6. Picked(s, S) \in Seq(D) /\ Len(Picked(s, S)) = Cardinality(S)
  BY <1>2, <1>5
<1>7. QED
  BY <1>2, <1>3, <1>6

-----------------------------------------------------------------------------
(* Folds: FoldLeft(op, base, s) is iter[DOMAIN s], where iter is chosen as a
   function of the sets of places.  `next` is op at each place, on the values
   that the fold takes. *)

IsNext(next, A, n) == \A a \in A : \A i \in 1 .. n : next[<<a, i>>] \in A

FoldsBy(h, next, base, A, n) ==
  /\ h \in [SUBSET (1 .. n) -> A] /\ h[{}] = base
  /\ \A T \in SUBSET (1 .. n) : T # {} => h[T] = next[<<h[T \ {Max(T)}], Max(T)>>]

Agrees(iter, next, base, A, n) ==
  /\ iter[{}] = base
  /\ \A T \in SUBSET (1 .. n) : T # {} /\ iter[T \ {Max(T)}] \in A => iter[T] = next[<<iter[T \ {Max(T)}], Max(T)>>]

(* The values after each place. *)
IsRun(r, next, base, A, n) ==
  /\ r \in [0 .. n -> A] /\ r[0] = base
  /\ \A i \in 1 .. n : r[i] = next[<<r[i - 1], i>>]

LEMMA GreatestPicks ==
  ASSUME NEW n \in Nat
  PROVE  /\ IsFiniteSet(1 .. n)
         /\ \A T \in SUBSET (1 .. n) : T # {} => Max(T) \in T /\ \A y \in T : Max(T) >= y
         /\ Picks([T \in SUBSET (1 .. n) |-> Max(T)], 1 .. n)
<1>1. IsFiniteSet(1 .. n)
  BY FS_Interval
<1>2. ASSUME NEW T \in SUBSET (1 .. n), T # {} PROVE Max(T) \in T /\ \A y \in T : Max(T) >= y
  <2>1. T \in SUBSET (0 .. n)
    OBVIOUS
  <2>2. QED
    BY <1>2, <2>1, Greatest
<1>3. QED
  BY <1>1, <1>2 DEF Picks

LEMMA FoldStates ==
  ASSUME NEW n \in Nat, NEW A, NEW base \in A, NEW next, IsNext(next, A, n)
  PROVE  \E h : FoldsBy(h, next, base, A, n)
<1> DEFINE D == 1 .. n
           pick == [T \in SUBSET D |-> Max(T)]
<1>1. IsFiniteSet(D) /\ Picks(pick, D)
  BY GreatestPicks
<1>2. IsStep(next, A, D)
  BY DEF IsStep, IsNext
<1>3. PICK h : IsRecursive(h, D, A, pick, base, next)
  <2> HIDE DEF pick, D
  <2>1. QED
    BY <1>1, <1>2, SetRecursion
<1>4. FoldsBy(h, next, base, A, n)
  <2>1. h \in [SUBSET (1 .. n) -> A] /\ h[{}] = base
    BY <1>3 DEF IsRecursive
  <2>2. ASSUME NEW T \in SUBSET (1 .. n), T # {} PROVE h[T] = next[<<h[T \ {Max(T)}], Max(T)>>]
    <3>1. pick[T] = Max(T)
      OBVIOUS
    <3>2. h[T] = next[<<h[T \ {pick[T]}], pick[T]>>]
      BY <1>3, <2>2 DEF IsRecursive
    <3> HIDE DEF pick
    <3>3. QED
      BY <3>1, <3>2
  <2>3. QED
    BY <2>1, <2>2 DEF FoldsBy
<1>5. QED
  BY <1>4

LEMMA FoldRun ==
  ASSUME NEW n \in Nat, NEW A, NEW base, NEW next, NEW h, FoldsBy(h, next, base, A, n),
         NEW iter, Agrees(iter, next, base, A, n)
  PROVE  \E r : IsRun(r, next, base, A, n) /\ iter[1 .. n] = r[n]
<1> DEFINE D == 1 .. n
           pick == [T \in SUBSET D |-> Max(T)]
           Good == {T \in SUBSET D : iter[T] = h[T]}
           r == [i \in 0 .. n |-> h[1 .. i]]
<1>1. IsFiniteSet(D) /\ Picks(pick, D)
  BY GreatestPicks
<1>2. {} \in Good
  BY DEF FoldsBy, Agrees
<1>3. ASSUME NEW T \in SUBSET D, T # {}, T \ {pick[T]} \in Good PROVE T \in Good
  <2>1. pick[T] = Max(T)
    OBVIOUS
  <2>2. iter[T \ {Max(T)}] = h[T \ {Max(T)}] /\ T \ {Max(T)} \in SUBSET (1 .. n)
    BY <1>3, <2>1
  <2>3. h[T \ {Max(T)}] \in A
    BY <2>2 DEF FoldsBy
  <2>4. iter[T] = h[T]
    BY <1>3, <2>2, <2>3 DEF FoldsBy, Agrees
  <2>5. QED
    BY <2>4
<1>4. \A T \in SUBSET D : T \in Good
  <2> HIDE DEF Good, pick, D
  <2>1. QED
    BY <1>1, <1>2, <1>3, PickInduction
<1>5. iter[1 .. n] = h[1 .. n]
  BY <1>4
<1>6. r \in [0 .. n -> A] /\ r[0] = base /\ r[n] = h[1 .. n]
  <2>1. \A i \in 0 .. n : 1 .. i \in SUBSET (1 .. n)
    OBVIOUS
  <2>2. 1 .. 0 = {}
    OBVIOUS
  <2>3. QED
    BY <2>1, <2>2 DEF FoldsBy
<1>7. ASSUME NEW i \in 1 .. n PROVE r[i] = next[<<r[i - 1], i>>]
  <2>1. i \in 0 .. n /\ i - 1 \in 0 .. n /\ 1 .. i \in SUBSET (1 .. n) /\ 1 .. i # {}
    OBVIOUS
  <2>2. Max(1 .. i) = i
    <3>1. Max(1 .. i) \in 1 .. i /\ \A y \in 1 .. i : Max(1 .. i) >= y
      BY <2>1, GreatestPicks
    <3>2. QED
      BY <3>1
  <2>3. (1 .. i) \ {i} = 1 .. (i - 1)
    OBVIOUS
  <2>4. h[1 .. i] = next[<<h[(1 .. i) \ {Max(1 .. i)}], Max(1 .. i)>>]
    BY <2>1 DEF FoldsBy
  <2>5. QED
    BY <2>1, <2>2, <2>3, <2>4
<1> HIDE DEF r
<1>8. IsRun(r, next, base, A, n)
  BY <1>6, <1>7 DEF IsRun
<1>9. QED
  BY <1>5, <1>6, <1>8

(* What holds at first and is kept by every step holds all along a run. *)
LEMMA RunInduction ==
  ASSUME NEW n \in Nat, NEW Good, 0 \in Good, \A i \in 1 .. n : i - 1 \in Good => i \in Good
  PROVE  \A i \in 0 .. n : i \in Good
<1> DEFINE Fine == {i \in Nat : i > n \/ i \in Good}
<1>1. 0 \in Fine
  OBVIOUS
<1>2. ASSUME NEW i \in Nat, i \in Fine PROVE i + 1 \in Fine
  <2>1. CASE i + 1 > n
    BY <2>1
  <2>2. CASE ~(i + 1 > n)
    <3>1. i + 1 \in 1 .. n /\ (i + 1) - 1 = i /\ i \in Good
      BY <1>2, <2>2
    <3>2. i + 1 \in Good
      BY <3>1
    <3>3. QED
      BY <3>2
  <2>3. QED
    BY <2>1, <2>2
<1> HIDE DEF Fine
<1>3. \A i \in Nat : i \in Fine
  BY <1>1, <1>2, NumberInduction
<1>4. QED
  BY <1>3 DEF Fine

-----------------------------------------------------------------------------
(* Sequences *)

(* What holds of the empty sequence and passes to every longer one by one
   element holds of all. *)
LEMMA SequenceInduction ==
  ASSUME NEW E, NEW Good, <<>> \in Good, \A s \in Seq(E), e \in E : s \in Good => Append(s, e) \in Good
  PROVE  \A s \in Seq(E) : s \in Good
<1> DEFINE Fine == {n \in Nat : \A s \in Seq(E) : Len(s) = n => s \in Good}
<1>1. 0 \in Fine
  BY EmptySeq
<1>2. ASSUME NEW n \in Nat, n \in Fine PROVE n + 1 \in Fine
  <2>1. SUFFICES ASSUME NEW s \in Seq(E), Len(s) = n + 1 PROVE s \in Good
    OBVIOUS
  <2>2. s # <<>>
    BY <2>1
  <2>3. PICK t \in Seq(E), e \in E : s = Append(t, e)
    BY <2>2, SequenceEmptyOrAppend
  <2>4. Len(t) = n
    BY <2>1, <2>3
  <2>5. QED
    BY <1>2, <2>3, <2>4
<1> HIDE DEF Fine
<1>3. \A n \in Nat : n \in Fine
  BY <1>1, <1>2, NumberInduction
<1>4. QED
  BY <1>3 DEF Fine

(* A fold as a function of the sequence. *)

IsMap(op, A, E) == \A a \in A, e \in E : op[<<a, e>>] \in A

Folds(F, op, base, A, E) ==
  /\ F \in [Seq(E) -> A] /\ F[<<>>] = base
  /\ \A s \in Seq(E), e \in E : F[Append(s, e)] = op[<<F[s], e>>]

(* h gives the value for each set of places of s. *)
Unfolds(h, op, base, A, s) ==
  /\ h[{}] = base
  /\ \A T \in SUBSET (1 .. Len(s)) : T # {} /\ h[T \ {Max(T)}] \in A => h[T] = op[<<h[T \ {Max(T)}], s[Max(T)]>>]

IsFoldOf(v, op, base, A, s) ==
  \E r : r[0] = base /\ r[Len(s)] = v /\ \A i \in 1 .. Len(s) : r[i - 1] \in A /\ r[i] = op[<<r[i - 1], s[i]>>]

LEMMA FoldIsUnique ==
  ASSUME NEW A, NEW E, NEW base, NEW op, NEW s \in Seq(E),
         NEW v, IsFoldOf(v, op, base, A, s), NEW w, IsFoldOf(w, op, base, A, s)
  PROVE  v = w
<1>1. PICK n \in Nat : n = Len(s)
  OBVIOUS
<1>2. PICK q : q[0] = base /\ q[n] = v /\ \A i \in 1 .. n : q[i] = op[<<q[i - 1], s[i]>>]
  BY <1>1 DEF IsFoldOf
<1>3. PICK r : r[0] = base /\ r[n] = w /\ \A i \in 1 .. n : r[i] = op[<<r[i - 1], s[i]>>]
  BY <1>1 DEF IsFoldOf
<1> DEFINE Good == {i \in 0 .. n : q[i] = r[i]}
<1>4. 0 \in Good
  BY <1>2, <1>3
<1>5. ASSUME NEW i \in 1 .. n, i - 1 \in Good PROVE i \in Good
  <2>1. i \in 0 .. n /\ q[i - 1] = r[i - 1]
    BY <1>5
  <2>2. q[i] = r[i]
    BY <1>2, <1>3, <2>1
  <2>3. QED
    BY <2>1, <2>2
<1> HIDE DEF Good
<1>6. \A i \in 0 .. n : i \in Good
  BY <1>4, <1>5, RunInduction
<1>7. n \in Good
  BY <1>6
<1>8. QED
  BY <1>2, <1>3, <1>7 DEF Good

LEMMA FoldOfSequence ==
  ASSUME NEW A, NEW E, NEW base \in A, NEW op, IsMap(op, A, E), NEW s \in Seq(E)
  PROVE  /\ \E v \in A : IsFoldOf(v, op, base, A, s)
         /\ \E h \in [SUBSET (1 .. Len(s)) -> A] : Unfolds(h, op, base, A, s)
         /\ \A h : Unfolds(h, op, base, A, s) => IsFoldOf(h[1 .. Len(s)], op, base, A, s)
<1>1. PICK n \in Nat : n = Len(s)
  OBVIOUS
<1>2. \A i \in 1 .. n : s[i] \in E
  BY <1>1
<1> DEFINE next == [p \in A \X (1 .. n) |-> op[<<p[1], s[p[2]]>>]]
<1>3. \A a \in A, i \in 1 .. n : next[<<a, i>>] = op[<<a, s[i]>>]
  OBVIOUS
<1> HIDE DEF next
<1>4. IsNext(next, A, n)
  BY <1>2, <1>3 DEF IsNext, IsMap
<1>5. PICK h : FoldsBy(h, next, base, A, n)
  BY <1>4, FoldStates
<1>6. \A T \in SUBSET (1 .. n) : T # {} => Max(T) \in 1 .. n
  BY GreatestPicks
<1>7. h \in [SUBSET (1 .. n) -> A] /\ Unfolds(h, op, base, A, s)
  BY <1>1, <1>3, <1>5, <1>6 DEF FoldsBy, Unfolds
<1>8. ASSUME NEW k, Unfolds(k, op, base, A, s) PROVE \E v \in A : v = k[1 .. n] /\ IsFoldOf(v, op, base, A, s)
  <2>1. Agrees(k, next, base, A, n)
    BY <1>1, <1>3, <1>6, <1>8 DEF Unfolds, Agrees
  <2>2. PICK r : IsRun(r, next, base, A, n) /\ k[1 .. n] = r[n]
    BY <1>5, <2>1, FoldRun
  <2>3. n \in 0 .. n /\ \A i \in 1 .. n : i - 1 \in 0 .. n
    OBVIOUS
  <2>4. r[n] \in A /\ r[0] = base /\ \A i \in 1 .. n : r[i - 1] \in A /\ r[i] = op[<<r[i - 1], s[i]>>]
    BY <1>3, <2>2, <2>3 DEF IsRun
  <2>5. IsFoldOf(r[n], op, base, A, s)
    BY <1>1, <2>4 DEF IsFoldOf
  <2>6. QED
    BY <2>2, <2>4, <2>5
<1>9. QED
  BY <1>1, <1>7, <1>8

(* F is the fold, and so is whatever function of sets of places defines it. *)
IsFold(F, op, base, A, E) ==
  /\ Folds(F, op, base, A, E)
  /\ \A s \in Seq(E) :
       /\ \E h \in [SUBSET (1 .. Len(s)) -> A] : Unfolds(h, op, base, A, s)
       /\ \A h : Unfolds(h, op, base, A, s) => h[1 .. Len(s)] = F[s]

LEMMA FoldAsFunction ==
  ASSUME NEW A, NEW E, NEW base \in A, NEW op, IsMap(op, A, E)
  PROVE  \E G : IsFold(G, op, base, A, E)
<1>1. PICK F : F \in [Seq(E) -> A] /\ \A s \in Seq(E) : IsFoldOf(F[s], op, base, A, s)
  <2> DEFINE Choice == [s \in Seq(E) |-> CHOOSE v \in A : IsFoldOf(v, op, base, A, s)]
  <2>1. \A s \in Seq(E) : Choice[s] \in A /\ IsFoldOf(Choice[s], op, base, A, s)
    BY FoldOfSequence
  <2>2. Choice \in [Seq(E) -> A]
    BY <2>1
  <2> HIDE DEF Choice
  <2>3. QED
    BY <2>1, <2>2
<1>2. \A s \in Seq(E) : F[s] \in A
  BY <1>1
<1>3. F[<<>>] = base
  <2>1. <<>> \in Seq(E) /\ Len(<<>>) = 0
    BY EmptySeq
  <2>2. QED
    BY <1>1, <2>1 DEF IsFoldOf
<1>4. ASSUME NEW s \in Seq(E), NEW e \in E PROVE F[Append(s, e)] = op[<<F[s], e>>]
  <2> DEFINE t == Append(s, e)
  <2>1. PICK n \in Nat : n = Len(s)
    OBVIOUS
  <2>2. t \in Seq(E) /\ Len(t) = n + 1 /\ t[n + 1] = e /\ \A i \in 1 .. n : t[i] = s[i]
    BY <2>1, AppendProperties
  <2> HIDE DEF t
  <2>3. PICK r : /\ r[0] = base /\ r[n] = F[s]
                 /\ \A i \in 1 .. n : r[i - 1] \in A /\ r[i] = op[<<r[i - 1], s[i]>>]
    BY <1>1, <1>2, <2>1 DEF IsFoldOf
  <2> DEFINE q == [i \in 0 .. (n + 1) |-> IF i <= n THEN r[i] ELSE op[<<F[s], e>>]]
  <2>4. q[0] = base /\ q[n + 1] = op[<<F[s], e>>] /\ q[n] = F[s] /\ \A i \in 0 .. n : q[i] = r[i]
    BY <2>3
  <2> HIDE DEF q
  <2>5. ASSUME NEW i \in 1 .. (n + 1) PROVE q[i - 1] \in A /\ q[i] = op[<<q[i - 1], t[i]>>]
    <3>1. CASE i = n + 1
      <4>1. i - 1 = n
        BY <3>1
      <4>2. QED
        BY <1>1, <1>2, <2>2, <2>4, <3>1, <4>1
    <3>2. CASE i # n + 1
      <4>1. i \in 1 .. n /\ i - 1 \in 0 .. n /\ i \in 0 .. n
        BY <3>2
      <4>2. QED
        BY <2>2, <2>3, <2>4, <4>1
    <3>3. QED
      BY <3>1, <3>2
  <2>6. IsFoldOf(op[<<F[s], e>>], op, base, A, t)
    BY <2>2, <2>4, <2>5 DEF IsFoldOf
  <2>7. IsFoldOf(F[t], op, base, A, t)
    BY <1>1, <2>2
  <2>8. F[t] = op[<<F[s], e>>]
    BY <2>2, <2>6, <2>7, FoldIsUnique
  <2>9. QED
    BY <2>8 DEF t
<1>5. Folds(F, op, base, A, E)
  BY <1>1, <1>3, <1>4 DEF Folds
<1>6. ASSUME NEW s \in Seq(E)
      PROVE  /\ \E h \in [SUBSET (1 .. Len(s)) -> A] : Unfolds(h, op, base, A, s)
             /\ \A h : Unfolds(h, op, base, A, s) => h[1 .. Len(s)] = F[s]
  <2>1. \E h \in [SUBSET (1 .. Len(s)) -> A] : Unfolds(h, op, base, A, s)
    BY FoldOfSequence
  <2>2. ASSUME NEW h, Unfolds(h, op, base, A, s) PROVE h[1 .. Len(s)] = F[s]
    <3>1. IsFoldOf(h[1 .. Len(s)], op, base, A, s)
      BY <2>2, FoldOfSequence
    <3>2. QED
      BY <1>1, <3>1, FoldIsUnique
  <2>3. QED
    BY <2>1, <2>2
<1>7. IsFold(F, op, base, A, E)
  BY <1>5, <1>6 DEF IsFold
<1>8. QED
  BY <1>7
=============================================================================
