------------------------------- MODULE FiniteFolds --------------------------------
(*****************************************************************************)
(* Facts about the folds of the community modules over finite sets: what the *)
(* sum and the product of a function's values are, and how they change with  *)
(* the set.  Induction is over a set of subsets, as a first-order fact.      *)
(*****************************************************************************)
EXTENDS Integers, FiniteSetsExt, FiniteSetTheorems, WellFoundedInduction, TLAPS

OneOf(S) == CHOOSE x \in S : TRUE

(* The sum of f over a set, and the product of 1 and h. *)
Total(f, S) == MapThenSumSet(LAMBDA x : f[x], S)
Product(h, S) == FoldSet(LAMBDA x, n : n * h[x], 1, S)

-----------------------------------------------------------------------------
(* Induction *)

(* A set of subsets that has a subset whenever it has the smaller ones has    *)
(* them all.                                                                 *)
LEMMA SubsetInduction ==
  ASSUME NEW S, IsFiniteSet(S), NEW Good,
         \A T \in SUBSET S : (\A U \in SUBSET T : U # T => U \in Good) => T \in Good
  PROVE  \A T \in SUBSET S : T \in Good
<1> DEFINE R == StrictSubsetOrdering(S)
           Bad == (SUBSET S) \ Good
<1>1. IsWellFoundedOn(R, SUBSET S)
  <2>1. FiniteSubsetsOf(S) = SUBSET S
    BY FS_FiniteSubsetsOfFinite, Zenon
  <2>2. IsWellFoundedOn(R, FiniteSubsetsOf(S))
    BY FS_StrictSubsetOrderingWellFounded, Zenon
  <2> QED
    BY <2>1, <2>2, Zenon
<1>2. ASSUME NEW T \in SUBSET S, NEW U \in SUBSET T, U # T PROVE <<U, T>> \in R
  BY <1>2 DEF StrictSubsetOrdering
<1> SUFFICES ASSUME Bad # {} PROVE FALSE
  OBVIOUS
<1>b. Bad \subseteq SUBSET S
  OBVIOUS
<1> HIDE DEF R
<1>3. PICK T \in Bad : \A U \in Bad : <<U, T>> \notin R
  <2> HIDE DEF Bad
  <2>1. \E T \in Bad : \A U \in Bad : ~ (<<U, T>> \in R)
    BY <1>1, <1>b, WFMin
  <2> QED
    BY <2>1
<1>4. ASSUME NEW U \in SUBSET T, U # T PROVE U \in Good
  <2>1. T \in SUBSET S /\ U \in SUBSET S
    BY <1>b, <1>4
  <2>2. <<U, T>> \in R
    BY <1>2, <1>4, <2>1
  <2> QED
    BY <1>3, <2>1, <2>2
<1> QED
  BY <1>3, <1>4

(* Induction on numbers. *)
LEMMA NumberInduction ==
  ASSUME NEW Good, 0 \in Good, \A n \in Nat : n \in Good => n + 1 \in Good
  PROVE  Nat \subseteq Good
<1> DEFINE R == OpToRel(<, Nat)
           Bad == Nat \ Good
<1>1. IsWellFoundedOn(R, Nat)
  BY NatLessThanWellFounded
<1>2. \A m, n \in Nat : m < n => <<m, n>> \in R
  <2> SUFFICES ASSUME NEW m \in Nat, NEW n \in Nat, m < n PROVE <<m, n>> \in R
    OBVIOUS
  <2>1. R = {ss \in Nat \X Nat : ss[1] < ss[2]}
    BY DEF OpToRel
  <2>2. <<m, n>> \in Nat \X Nat /\ <<m, n>>[1] = m /\ <<m, n>>[2] = n
    OBVIOUS
  <2> HIDE DEF R
  <2> QED
    BY <2>1, <2>2, Zenon
<1> SUFFICES ASSUME Bad # {} PROVE FALSE
  OBVIOUS
<1> HIDE DEF R
<1>3. PICK n \in Bad : \A m \in Bad : <<m, n>> \notin R
  BY <1>1, WFMin
<1>4. n # 0 /\ n \in Nat
  BY <1>3
<1>5. n - 1 \in Nat /\ n - 1 < n
  BY <1>4
<1>6. n - 1 \in Good
  BY <1>2, <1>3, <1>4, <1>5
<1>7. n \in Good
  BY <1>5, <1>6, <1>4
<1> QED
  BY <1>3, <1>7

(* The least of a set of numbers is one of them. *)
LEMMA MinIsLeast ==
  ASSUME NEW T \in SUBSET Nat, T # {}
  PROVE  Min(T) \in T /\ \A y \in T : Min(T) <= y
<1> DEFINE R == OpToRel(<, Nat)
<1>1. IsWellFoundedOn(R, Nat)
  BY NatLessThanWellFounded
<1> HIDE DEF R
<1>2. \E x \in T : \A y \in T : ~ (<<y, x>> \in R)
  BY <1>1, WFMin
<1>3. PICK x \in T : \A y \in T : <<y, x>> \notin R
  BY <1>2
<1>4. R = {ss \in Nat \X Nat : ss[1] < ss[2]}
  BY DEF R, OpToRel
<1>5. \A y \in T : ~ (y < x)
  <2> SUFFICES ASSUME NEW y \in T, y < x PROVE FALSE
    OBVIOUS
  <2>1. <<y, x>> \in Nat \X Nat /\ <<y, x>>[1] = y /\ <<y, x>>[2] = x
    OBVIOUS
  <2>2. <<y, x>> \in R
    BY <2>1, <1>4, Zenon
  <2> QED
    BY <1>3, <2>2
<1>6. \A y \in T : x <= y
  BY <1>5
<1> QED
  BY <1>6 DEF Min

(* A bounded set of numbers that is not empty has a greatest. *)
LEMMA MaxIsGreatest ==
  ASSUME NEW n \in Nat, NEW T \in SUBSET (1 .. n), T # {}
  PROVE  Max(T) \in T /\ \A y \in T : y <= Max(T)
<1> DEFINE D == {n - x : x \in T}
<1>1. D \in SUBSET Nat /\ D # {}
  <2>1. \A x \in T : n - x \in Nat
    OBVIOUS
  <2> QED
    BY <2>1
<1> HIDE DEF D
<1>2. Min(D) \in D /\ \A y \in D : Min(D) <= y
  BY <1>1, MinIsLeast
<1>3. PICK x \in T : Min(D) = n - x
  BY <1>2 DEF D
<1>4. \A y \in T : x >= y
  <2> SUFFICES ASSUME NEW y \in T PROVE x >= y
    OBVIOUS
  <2>1. n - x <= n - y
    BY <1>2, <1>3 DEF D
  <2> QED
    BY <2>1
<1>5. Max(T) \in T /\ \A y \in T : Max(T) >= y
  BY <1>4 DEF Max
<1> QED
  BY <1>5

(* What is ordered strictly, finite and not empty has a member that no other  *)
(* one is before.                                                            *)
LEMMA FirstExists ==
  ASSUME NEW S, IsFiniteSet(S), NEW R, \A x \in S : <<x, x>> \notin R,
         \A x, y, z \in S : <<x, y>> \in R /\ <<y, z>> \in R => <<x, z>> \in R,
         S # {}
  PROVE  \E m \in S : \A t \in S : <<t, m>> \notin R
<1> DEFINE Firsts(T) == {m \in T : \A t \in T : <<t, m>> \notin R}
           Good == {T \in SUBSET S : T # {} => Firsts(T) # {}}
<1>1. ASSUME NEW T \in SUBSET S, \A U \in SUBSET T : U # T => U \in Good
      PROVE  T \in Good
  <2> SUFFICES ASSUME T # {} PROVE Firsts(T) # {}
    OBVIOUS
  <2>1. PICK x \in T : TRUE
    OBVIOUS
  <2>2. CASE T \ {x} = {}
    <3>1. T = {x}
      BY <2>1, <2>2
    <3>2. x \in Firsts(T)
      BY <3>1
    <3> QED
      BY <3>2
  <2>3. CASE T \ {x} # {}
    <3>1. T \ {x} \in Good
      BY <1>1, <2>1
    <3>2. PICK m \in T \ {x} : \A t \in T \ {x} : <<t, m>> \notin R
      BY <2>3, <3>1
    <3>3. CASE <<x, m>> \notin R
      <4>1. m \in Firsts(T)
        BY <3>2, <3>3
      <4> QED
        BY <4>1
    <3>4. CASE <<x, m>> \in R
      <4>1. ASSUME NEW t \in T, <<t, x>> \in R PROVE FALSE
        <5>1. <<t, m>> \in R
          BY <3>2, <3>4, <4>1
        <5>2. t # x
          BY <4>1
        <5> QED
          BY <3>2, <4>1, <5>1, <5>2
      <4>2. x \in Firsts(T)
        BY <4>1
      <4> QED
        BY <4>2
    <3> QED
      BY <3>3, <3>4
  <2> QED
    BY <2>2, <2>3
<1> HIDE DEF Good
<1>2. S \in Good
  BY <1>1, SubsetInduction
<1> QED
  BY <1>2 DEF Good

-----------------------------------------------------------------------------
(* Folding *)

(* A fold takes the members of a set out of it by `pick' and combines them by *)
(* `step'.                                                                   *)
FoldStep(base, step, pick, g, T) ==
  IF T = {} THEN base ELSE step[<<pick[T], g[T \ {pick[T]}]>>]

CanFold(S, V, base, step, pick) ==
  /\ IsFiniteSet(S)
  /\ base \in V /\ \A x \in S, v \in V : step[<<x, v>>] \in V
  /\ \A T \in SUBSET S : T # {} => pick[T] \in T

IsFold(g, S, V, base, step, pick) ==
  \A T \in SUBSET S : g[T] \in V /\ g[T] = FoldStep(base, step, pick, g, T)

(* There is a function that does. *)
LEMMA FoldExists ==
  ASSUME NEW S, NEW V, NEW base, NEW step, NEW pick, CanFold(S, V, base, step, pick)
  PROVE  \E g : IsFold(g, S, V, base, step, pick)
<1> USE DEF CanFold
<1> DEFINE Upto(g, n) == \A T \in SUBSET S : Cardinality(T) <= n => g[T] = FoldStep(base, step, pick, g, T)
           Good == {n \in Nat : \E g \in [SUBSET S -> V] : Upto(g, n)}
<1>0. \A T \in SUBSET S : IsFiniteSet(T) /\ Cardinality(T) \in Nat
  BY FS_Subset, FS_CardinalityType
<1>1. 0 \in Good
  <2> DEFINE g == [T \in SUBSET S |-> base]
  <2>1. g \in [SUBSET S -> V]
    OBVIOUS
  <2>2. \A T \in SUBSET S : Cardinality(T) <= 0 => T = {}
    BY <1>0, FS_EmptySet
  <2>3. Upto(g, 0)
    BY <2>2 DEF FoldStep
  <2> HIDE DEF g
  <2> QED
    BY <2>1, <2>3
<1>2. ASSUME NEW n \in Nat, n \in Good PROVE n + 1 \in Good
  <2>1. PICK g \in [SUBSET S -> V] : Upto(g, n)
    BY <1>2
  <2> DEFINE h == [T \in SUBSET S |-> FoldStep(base, step, pick, g, T)]
  <2>2. h \in [SUBSET S -> V]
    BY DEF FoldStep
  <2>3. ASSUME NEW T \in SUBSET S, Cardinality(T) <= n + 1
        PROVE  h[T] = FoldStep(base, step, pick, h, T)
    <3>1. CASE T = {}
      BY <3>1 DEF FoldStep
    <3>2. CASE T # {}
      <4> DEFINE less == T \ {pick[T]}
      <4>1. pick[T] \in T /\ less \in SUBSET S
        BY <3>2
      <4>2. Cardinality(less) = Cardinality(T) - 1
        BY <1>0, <4>1, FS_RemoveElement
      <4>3. Cardinality(less) <= n
        BY <1>0, <2>3, <4>2
      <4>4. g[less] = FoldStep(base, step, pick, g, less) /\ h[less] = FoldStep(base, step, pick, g, less)
        BY <2>1, <4>1, <4>3
      <4>5. h[T] = FoldStep(base, step, pick, g, T)
        OBVIOUS
      <4> QED
        BY <3>2, <4>4, <4>5 DEF FoldStep
    <3> QED
      BY <3>1, <3>2
  <2>4. Upto(h, n + 1)
    BY <2>3
  <2> HIDE DEF h
  <2> QED
    BY <2>2, <2>4
<1> HIDE DEF Good
<1>3. Cardinality(S) \in Good
  BY <1>0, <1>1, <1>2, NumberInduction
<1>4. PICK g \in [SUBSET S -> V] : Upto(g, Cardinality(S))
  BY <1>3 DEF Good
<1>5. \A T \in SUBSET S : Cardinality(T) <= Cardinality(S)
  BY FS_Subset
<1> QED
  BY <1>4, <1>5 DEF IsFold

ActsAsFold(h, S, V, base, step, pick) ==
  \A T \in SUBSET S :
    (T # {} => h[T \ {pick[T]}] \in V) => h[T] = FoldStep(base, step, pick, h, T)

(* It is the only one, even among those that are only known to do so where   *)
(* they have a value in V.                                                   *)
LEMMA FoldUnique ==
  ASSUME NEW S, NEW V, NEW base, NEW step, NEW pick, CanFold(S, V, base, step, pick),
         NEW g, IsFold(g, S, V, base, step, pick),
         NEW h, ActsAsFold(h, S, V, base, step, pick)
  PROVE  \A T \in SUBSET S : g[T] = h[T]
<1> USE DEF CanFold, IsFold, ActsAsFold
<1> DEFINE Good == {T \in SUBSET S : g[T] = h[T]}
<1>1. ASSUME NEW T \in SUBSET S, \A U \in SUBSET T : U # T => U \in Good
      PROVE  T \in Good
  <2>1. CASE T = {}
    BY <2>1 DEF FoldStep
  <2>2. CASE T # {}
    <3>1. pick[T] \in T /\ T \ {pick[T]} \in Good /\ T \ {pick[T]} \in SUBSET S
      BY <1>1, <2>2
    <3>2. g[T \ {pick[T]}] = h[T \ {pick[T]}] /\ g[T \ {pick[T]}] \in V
      BY <3>1
    <3> QED
      BY <2>2, <3>1, <3>2 DEF FoldStep
  <2> QED
    BY <2>1, <2>2
<1> HIDE DEF Good
<1>2. \A T \in SUBSET S : T \in Good
  BY <1>1, SubsetInduction
<1> QED
  BY <1>2 DEF Good

-----------------------------------------------------------------------------
(* Sums *)

SumStep(f, g, T) == IF T = {} THEN 0 ELSE f[OneOf(T)] + g[T \ {OneOf(T)}]

LEMMA OneOfIsMember == \A T : T # {} => OneOf(T) \in T
BY DEF OneOf

(* One function gives the sums over all subsets of a set. *)
LEMMA TotalFunction ==
  ASSUME NEW S, IsFiniteSet(S), NEW f, \A x \in S : f[x] \in Nat
  PROVE  \E g : \A T \in SUBSET S :
           g[T] \in Nat /\ Total(f, T) = g[T] /\ g[T] = SumStep(f, g, T)
<1> DEFINE step == [p \in S \X Nat |-> f[p[1]] + p[2]]
           pick == [T \in SUBSET S |-> OneOf(T)]
<1>1. step \in [S \X Nat -> Nat] /\ \A x \in S, n \in Nat : step[<<x, n>>] = f[x] + n
  OBVIOUS
<1>2. \A T \in SUBSET S : pick[T] = OneOf(T) /\ (T # {} => pick[T] \in T)
  BY OneOfIsMember
<1> HIDE DEF step, pick
<1>c. CanFold(S, Nat, 0, step, pick)
  BY <1>1, <1>2 DEF CanFold
<1>p. PICK g : IsFold(g, S, Nat, 0, step, pick)
  BY <1>c, FoldExists
<1>3. \A T \in SUBSET S : g[T] \in Nat /\ g[T] = FoldStep(0, step, pick, g, T)
  BY <1>p DEF IsFold
<1>4. ASSUME NEW T \in SUBSET S PROVE g[T] = SumStep(f, g, T)
  <2>1. CASE T = {}
    BY <1>3, <2>1 DEF FoldStep, SumStep
  <2>2. CASE T # {}
    <3>1. OneOf(T) \in S /\ pick[T] = OneOf(T) /\ g[T \ {OneOf(T)}] \in Nat
      BY <1>2, <1>3, <2>2
    <3> QED
      BY <1>1, <1>3, <2>2, <3>1 DEF FoldStep, SumStep
  <2> QED
    BY <2>1, <2>2
<1>5. ASSUME NEW T \in SUBSET S PROVE Total(f, T) = g[T]
  <2> DEFINE Iter(h) == h = [U \in SUBSET T |-> SumStep(f, h, U)]
             iter == CHOOSE h : Iter(h)
  <2>1. Iter([U \in SUBSET T |-> g[U]])
    <3> DEFINE h == [U \in SUBSET T |-> g[U]]
    <3>1. \A U \in SUBSET T : g[U] = SumStep(f, h, U)
      <4> SUFFICES ASSUME NEW U \in SUBSET T PROVE g[U] = SumStep(f, h, U)
        OBVIOUS
      <4>1. U \in SUBSET S /\ U \ {OneOf(U)} \in SUBSET T
        OBVIOUS
      <4>2. h[U \ {OneOf(U)}] = g[U \ {OneOf(U)}]
        BY <4>1
      <4>3. g[U] = SumStep(f, g, U)
        BY <1>4, <4>1
      <4> HIDE DEF h
      <4> QED
        BY <4>2, <4>3 DEF SumStep
    <3> QED
      BY <3>1
  <2>2. Iter(iter)
    BY <2>1
  <2>3. Total(f, T) = iter[T]
    BY DEF Total, MapThenSumSet, MapThenFoldSet, SumStep, OneOf
  <2> HIDE DEF iter
  <2>4. \A U \in SUBSET T : iter[U] = SumStep(f, iter, U)
    BY <2>2
  <2>5. ActsAsFold(iter, T, Nat, 0, step, pick)
    <3> SUFFICES ASSUME NEW U \in SUBSET T, U # {} => iter[U \ {pick[U]}] \in Nat
                 PROVE  iter[U] = FoldStep(0, step, pick, iter, U)
      BY DEF ActsAsFold
    <3>1. pick[U] = OneOf(U) /\ (U # {} => pick[U] \in S)
      BY <1>2
    <3> QED
      BY <1>1, <2>4, <3>1 DEF FoldStep, SumStep
  <2>6. CanFold(T, Nat, 0, step, pick)
    <3>1. IsFiniteSet(T)
      BY FS_Subset
    <3> QED
      BY <1>c, <3>1 DEF CanFold
  <2>7. IsFold(g, T, Nat, 0, step, pick)
    BY <1>p DEF IsFold
  <2>8. \A U \in SUBSET T : g[U] = iter[U]
    BY <2>5, <2>6, <2>7, FoldUnique
  <2> QED
    BY <2>3, <2>8
<1> QED
  BY <1>3, <1>4, <1>5

(* A sum of numbers is a number; any member can be taken out of it.           *)
LEMMA TotalRemove ==
  ASSUME NEW S, IsFiniteSet(S), NEW f, \A x \in S : f[x] \in Nat
  PROVE  /\ Total(f, S) \in Nat /\ (S = {} => Total(f, S) = 0)
         /\ \A x \in S : /\ Total(f, S \ {x}) \in Nat
                         /\ Total(f, S) = f[x] + Total(f, S \ {x})
<1>1. PICK g : \A T \in SUBSET S : g[T] \in Nat /\ Total(f, T) = g[T] /\ g[T] = SumStep(f, g, T)
  BY TotalFunction
<1> DEFINE Good == {T \in SUBSET S : \A x \in T : g[T] = f[x] + g[T \ {x}]}
<1>2. ASSUME NEW T \in SUBSET S, \A U \in SUBSET T : U # T => U \in Good
      PROVE  T \in Good
  <2> SUFFICES ASSUME NEW x \in T PROVE g[T] = f[x] + g[T \ {x}]
    OBVIOUS
  <2>1. OneOf(T) \in T /\ g[T] = f[OneOf(T)] + g[T \ {OneOf(T)}]
    BY <1>1, OneOfIsMember DEF SumStep
  <2>2. CASE OneOf(T) = x
    BY <2>1, <2>2
  <2>3. CASE OneOf(T) # x
    <3> DEFINE y == OneOf(T)
    <3>1. y \in T /\ y # x
      BY <2>1, <2>3
    <3> HIDE DEF y
    <3>2. g[T \ {y}] = f[x] + g[(T \ {y}) \ {x}]
      <4>1. T \ {y} \in Good /\ x \in T \ {y}
        BY <1>2, <3>1
      <4> QED
        BY <4>1
    <3>3. g[T \ {x}] = f[y] + g[(T \ {x}) \ {y}]
      <4>1. T \ {x} \in Good /\ y \in T \ {x}
        BY <1>2, <3>1
      <4> QED
        BY <4>1
    <3>4. (T \ {y}) \ {x} = (T \ {x}) \ {y} /\ (T \ {x}) \ {y} \in SUBSET S
      OBVIOUS
    <3>5. f[x] \in Nat /\ f[y] \in Nat /\ g[(T \ {x}) \ {y}] \in Nat
      BY <1>1, <3>1, <3>4
    <3>6. g[T] = f[y] + g[T \ {y}]
      BY <2>1 DEF y
    <3> DEFINE rest == g[(T \ {x}) \ {y}]
    <3>7. g[T \ {y}] = f[x] + rest /\ g[T \ {x}] = f[y] + rest /\ rest \in Nat
      BY <3>2, <3>3, <3>4, <3>5
    <3> HIDE DEF rest
    <3> QED
      BY <3>5, <3>6, <3>7
  <2> QED
    BY <2>2, <2>3
<1> HIDE DEF Good
<1>3. S \in Good
  BY <1>2, SubsetInduction
<1>4. \A x \in S : g[S] = f[x] + g[S \ {x}]
  BY <1>3 DEF Good
<1>5. S = {} => g[S] = 0
  BY <1>1 DEF SumStep
<1>6. S \in SUBSET S /\ \A x \in S : S \ {x} \in SUBSET S
  OBVIOUS
<1> QED
  BY <1>1, <1>4, <1>5, <1>6

(* A part has no larger a sum than the whole. *)
LEMMA TotalOfPart ==
  ASSUME NEW S, IsFiniteSet(S), NEW f, \A x \in S : f[x] \in Nat, NEW T \in SUBSET S
  PROVE  Total(f, T) <= Total(f, S)
<1> DEFINE Good == {U \in SUBSET S : \A V \in SUBSET U : Total(f, V) <= Total(f, U)}
<1>1. ASSUME NEW U \in SUBSET S, \A V \in SUBSET U : V # U => V \in Good
      PROVE  U \in Good
  <2> SUFFICES ASSUME NEW V \in SUBSET U PROVE Total(f, V) <= Total(f, U)
    OBVIOUS
  <2>0. IsFiniteSet(U) /\ IsFiniteSet(V) /\ \A x \in U : f[x] \in Nat
    BY FS_Subset
  <2>1. Total(f, U) \in Nat /\ Total(f, V) \in Nat
    BY <2>0, TotalRemove
  <2>2. CASE V = U
    BY <2>1, <2>2
  <2>3. CASE V # U
    <3>1. PICK x \in U : x \notin V
      BY <2>3
    <3>2. U \ {x} \in Good /\ V \in SUBSET (U \ {x})
      BY <1>1, <3>1
    <3>3. Total(f, V) <= Total(f, U \ {x})
      BY <3>2
    <3>4. Total(f, U \ {x}) \in Nat /\ Total(f, U) = f[x] + Total(f, U \ {x})
      BY <2>0, TotalRemove
    <3>5. f[x] \in Nat
      BY <2>0
    <3> QED
      BY <2>1, <3>3, <3>4, <3>5
  <2> QED
    BY <2>2, <2>3
<1> HIDE DEF Good
<1>2. S \in Good
  BY <1>1, SubsetInduction
<1> QED
  BY <1>2 DEF Good

(* A sum without a member leaves that much to the whole. *)
LEMMA TotalWithout ==
  ASSUME NEW S, IsFiniteSet(S), NEW f, \A y \in S : f[y] \in Nat,
         NEW x \in S, NEW T \in SUBSET S, x \notin T
  PROVE  Total(f, T) + f[x] <= Total(f, S)
<1>1. IsFiniteSet(S \ {x}) /\ T \in SUBSET (S \ {x}) /\ \A y \in S \ {x} : f[y] \in Nat
  BY FS_Subset
<1>2. Total(f, T) <= Total(f, S \ {x})
  BY <1>1, TotalOfPart
<1>3. Total(f, S \ {x}) \in Nat /\ Total(f, S) = f[x] + Total(f, S \ {x}) /\ f[x] \in Nat
  BY TotalRemove
<1>4. IsFiniteSet(T) /\ \A y \in T : f[y] \in Nat
  BY FS_Subset
<1>5. Total(f, T) \in Nat
  BY <1>4, TotalRemove
<1> QED
  BY <1>2, <1>3, <1>5

(* A sum is 0 exactly when all it adds up is. *)
LEMMA TotalZero ==
  ASSUME NEW S, IsFiniteSet(S), NEW f, \A x \in S : f[x] \in Nat
  PROVE  Total(f, S) = 0 <=> \A x \in S : f[x] = 0
<1>1. ASSUME NEW x \in S, f[x] # 0 PROVE Total(f, S) # 0
  <2>1. Total(f, S \ {x}) \in Nat /\ Total(f, S) = f[x] + Total(f, S \ {x}) /\ f[x] \in Nat
    BY TotalRemove
  <2> QED
    BY <1>1, <2>1
<1>2. ASSUME \A x \in S : f[x] = 0 PROVE Total(f, S) = 0
  <2>1. PICK g : \A T \in SUBSET S : g[T] \in Nat /\ Total(f, T) = g[T] /\ g[T] = SumStep(f, g, T)
    BY TotalFunction
  <2> DEFINE Good == {T \in SUBSET S : g[T] = 0}
  <2>2. ASSUME NEW T \in SUBSET S, \A U \in SUBSET T : U # T => U \in Good
        PROVE  T \in Good
    <3>1. CASE T = {}
      BY <2>1, <3>1 DEF SumStep
    <3>2. CASE T # {}
      <4>1. OneOf(T) \in T
        BY <3>2, OneOfIsMember
      <4>2. g[T \ {OneOf(T)}] = 0 /\ f[OneOf(T)] = 0
        BY <1>2, <2>2, <4>1
      <4>3. g[T] = f[OneOf(T)] + g[T \ {OneOf(T)}]
        BY <2>1, <3>2 DEF SumStep
      <4> QED
        BY <4>2, <4>3
    <3> QED
      BY <3>1, <3>2
  <2> HIDE DEF Good
  <2>3. S \in Good
    BY <2>2, SubsetInduction
  <2> QED
    BY <2>1, <2>3 DEF Good
<1> QED
  BY <1>1, <1>2

-----------------------------------------------------------------------------
(* Products *)

ProductStep(h, g, T) == IF T = {} THEN 1 ELSE g[T \ {OneOf(T)}] * h[OneOf(T)]

LEMMA ProductFunction ==
  ASSUME NEW S, IsFiniteSet(S), NEW h, \A x \in S : h[x] \in Nat
  PROVE  \E g : /\ Product(h, S) = g[S]
                /\ \A T \in SUBSET S : g[T] \in Nat /\ g[T] = ProductStep(h, g, T)
<1> DEFINE step == [p \in S \X Nat |-> p[2] * h[p[1]]]
           pick == [T \in SUBSET S |-> OneOf(T)]
<1>1. \A x \in S, n \in Nat : step[<<x, n>>] = n * h[x] /\ n * h[x] \in Nat
  OBVIOUS
<1>2. \A T \in SUBSET S : pick[T] = OneOf(T) /\ (T # {} => pick[T] \in T)
  BY OneOfIsMember
<1> HIDE DEF step, pick
<1>3. CanFold(S, Nat, 1, step, pick)
  BY <1>1, <1>2 DEF CanFold
<1>4. PICK g : IsFold(g, S, Nat, 1, step, pick)
  BY <1>3, FoldExists
<1>5. ASSUME NEW T \in SUBSET S PROVE g[T] \in Nat /\ g[T] = ProductStep(h, g, T)
  <2>1. g[T] \in Nat /\ g[T] = FoldStep(1, step, pick, g, T)
    BY <1>4 DEF IsFold
  <2>2. CASE T = {}
    BY <2>1, <2>2 DEF FoldStep, ProductStep
  <2>3. CASE T # {}
    <3>1. OneOf(T) \in S /\ pick[T] = OneOf(T) /\ g[T \ {OneOf(T)}] \in Nat
      BY <1>2, <1>4, <2>3 DEF IsFold
    <3> QED
      BY <1>1, <2>1, <2>3, <3>1 DEF FoldStep, ProductStep
  <2> QED
    BY <2>2, <2>3
<1> DEFINE Iter(k) == k = [U \in SUBSET S |-> ProductStep(h, k, U)]
           iter == CHOOSE k : Iter(k)
<1>6. Iter([U \in SUBSET S |-> g[U]])
  <2> DEFINE k == [U \in SUBSET S |-> g[U]]
  <2>1. \A U \in SUBSET S : g[U] = ProductStep(h, k, U)
    <3> SUFFICES ASSUME NEW U \in SUBSET S PROVE g[U] = ProductStep(h, k, U)
      OBVIOUS
    <3>1. k[U \ {OneOf(U)}] = g[U \ {OneOf(U)}]
      OBVIOUS
    <3> HIDE DEF k
    <3> QED
      BY <1>5, <3>1 DEF ProductStep
  <2> QED
    BY <2>1
<1>7. Iter(iter)
  BY <1>6
<1>8. Product(h, S) = iter[S]
  BY DEF Product, FoldSet, MapThenFoldSet, ProductStep, OneOf
<1> HIDE DEF iter
<1>9. ActsAsFold(iter, S, Nat, 1, step, pick)
  <2> SUFFICES ASSUME NEW U \in SUBSET S, U # {} => iter[U \ {pick[U]}] \in Nat
               PROVE  iter[U] = FoldStep(1, step, pick, iter, U)
    BY DEF ActsAsFold
  <2>1. pick[U] = OneOf(U) /\ (U # {} => pick[U] \in S)
    BY <1>2
  <2>2. iter[U] = ProductStep(h, iter, U)
    BY <1>7
  <2> QED
    BY <1>1, <2>1, <2>2 DEF FoldStep, ProductStep
<1>10. g[S] = iter[S]
  BY <1>3, <1>4, <1>9, FoldUnique
<1> QED
  BY <1>5, <1>8, <1>10

(* A product of positive numbers is positive, and no less than any of them. *)
LEMMA ProductBounds ==
  ASSUME NEW S, IsFiniteSet(S), NEW h, \A x \in S : h[x] \in Nat \ {0}
  PROVE  /\ Product(h, S) \in Nat \ {0}
         /\ \A x \in S : h[x] <= Product(h, S)
<1>1. PICK g : /\ Product(h, S) = g[S]
               /\ \A T \in SUBSET S : g[T] \in Nat /\ g[T] = ProductStep(h, g, T)
  BY ProductFunction
<1> DEFINE Good == {T \in SUBSET S : g[T] # 0 /\ \A x \in T : h[x] <= g[T]}
<1>2. ASSUME NEW T \in SUBSET S, \A U \in SUBSET T : U # T => U \in Good
      PROVE  T \in Good
  <2>1. CASE T = {}
    <3>1. g[T] = 1
      BY <1>1, <2>1 DEF ProductStep
    <3> QED
      BY <2>1, <3>1
  <2>2. CASE T # {}
    <3> DEFINE y == OneOf(T)
    <3>1. y \in T
      BY <2>2, OneOfIsMember
    <3>2. g[T] = g[T \ {y}] * h[y]
      BY <1>1, <2>2 DEF ProductStep
    <3> HIDE DEF y
    <3>3. T \ {y} \in Good
      BY <1>2, <3>1
    <3> DEFINE m == g[T \ {y}]  n == h[y]
    <3>4. m \in Nat \ {0} /\ n \in Nat \ {0} /\ g[T] = m * n
      BY <1>1, <3>1, <3>2, <3>3
    <3>5. \A x \in T : x # y => h[x] <= m /\ h[x] \in Nat
      BY <3>3
    <3>6. h[y] = n
      OBVIOUS
    <3> HIDE DEF m, n
    <3>7. m * n >= m /\ m * n >= n /\ m * n # 0
      BY <3>4
    <3>8. \A x \in T : h[x] <= g[T]
      BY <3>4, <3>5, <3>6, <3>7
    <3> QED
      BY <3>4, <3>7, <3>8
  <2> QED
    BY <2>1, <2>2
<1> HIDE DEF Good
<1>3. S \in Good
  BY <1>2, SubsetInduction
<1> QED
  BY <1>1, <1>3 DEF Good
=============================================================================
