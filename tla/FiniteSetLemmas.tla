--------------------------- MODULE FiniteSetLemmas ---------------------------
(***************************************************************************)
(* Facts about finite sets that the proofs of several components use.      *)
(***************************************************************************)
EXTENDS Integers, FiniteSets, Functions, FiniteSetTheorems, WellFoundedInduction, TLAPS

\* A set of naturals that is not empty has a smallest member.
LEMMA SmallestLemma ==
  ASSUME NEW S, S \subseteq Nat, S # {}
  PROVE  \E x \in S : \A y \in S : x <= y
<1>1. PICK x \in S : \A y \in S : ~(<<y, x>> \in OpToRel(<, Nat))
  BY WFMin, NatLessThanWellFounded, Zenon
<1>2. \A y \in S : ~(y < x)
  BY <1>1 DEF OpToRel
<1>3. QED
  BY <1>2

\* A finite set has at most one member if and only if all are the same.
LEMMA AtMostOneLemma ==
  ASSUME NEW S, IsFiniteSet(S)
  PROVE  Cardinality(S) <= 1 <=> \A x, y \in S : x = y
<1>1. Cardinality(S) \in Nat
  BY FS_CardinalityType
<1>2. CASE S = {}
  BY <1>2, FS_EmptySet
<1>3. CASE S # {}
  <2>1. Cardinality(S) # 0
    BY <1>3, FS_EmptySet
  <2>2. Cardinality(S) = 1 <=> \E x : S = {x}
    BY FS_Singleton
  <2>3. (\E x : S = {x}) <=> \A x, y \in S : x = y
    <3>1. PICK z \in S : TRUE
      BY <1>3
    <3>2. ASSUME \A x, y \in S : x = y
          PROVE  S = {z}
      BY <3>1, <3>2
    <3>3. QED
      BY <3>1, <3>2
  <2>4. Cardinality(S) <= 1 <=> Cardinality(S) = 1
    BY <1>1, <2>1
  <2>5. QED
    BY <2>2, <2>3, <2>4, Zenon
<1>4. QED
  BY <1>2, <1>3

\* The values of a function with a finite domain.
LEMMA ImageLemma ==
  ASSUME NEW f, IsFiniteSet(DOMAIN f)
  PROVE  IsFiniteSet({f[i] : i \in DOMAIN f})
<1> DEFINE T == {f[i] : i \in DOMAIN f}
           g == [i \in DOMAIN f |-> f[i]]
<1>1. g \in Surjection(DOMAIN f, T)
  BY DEF Surjection
<1>2. QED
  BY <1>1, FS_Surjection

-----------------------------------------------------------------------------
(***************************************************************************)
(* Induction, for a property given as a set: the library's theorems take   *)
(* an operator there, which no prover can be given.                        *)
(***************************************************************************)

\* Induction on a natural number.
LEMMA NaturalInduction ==
  ASSUME NEW Good, 0 \in Good, \A n \in Nat : n \in Good => n + 1 \in Good
  PROVE  Nat \subseteq Good
<1> DEFINE Bad == Nat \ Good
<1>1. SUFFICES ASSUME Bad # {} PROVE FALSE
  OBVIOUS
<1>2. PICK n \in Bad : \A m \in Bad : n <= m
  BY <1>1, SmallestLemma
<1>3. n \in Nat /\ n # 0
  BY <1>2
<1>4. n - 1 \in Nat /\ ~(n <= n - 1) /\ (n - 1) + 1 = n
  BY <1>3
<1>5. n - 1 \notin Bad
  BY <1>2, <1>4
<1>6. QED
  BY <1>2, <1>4, <1>5

\* Induction on a finite set: what passes from a set without any one of its
\* members to the set holds of all.
LEMMA SubsetInduction ==
  ASSUME NEW S, IsFiniteSet(S), NEW Good, {} \in Good,
         \A T \in SUBSET S : T # {} /\ (\A x \in T : T \ {x} \in Good) => T \in Good
  PROVE  SUBSET S \subseteq Good
<1> DEFINE Done == {n \in Nat : \A T \in SUBSET S : Cardinality(T) = n => T \in Good}
<1>1. \A T \in SUBSET S : IsFiniteSet(T) /\ Cardinality(T) \in Nat
  BY FS_Subset, FS_CardinalityType
<1>2. 0 \in Done
  BY <1>1, FS_EmptySet
<1>3. \A n \in Nat : n \in Done => n + 1 \in Done
  <2>1. SUFFICES ASSUME NEW n \in Nat, n \in Done, NEW T \in SUBSET S, Cardinality(T) = n + 1
                 PROVE  T \in Good
    OBVIOUS
  <2>2. T # {}
    <3>1. Cardinality({}) = 0 /\ n + 1 # 0
      BY FS_EmptySet
    <3>2. QED
      BY <2>1, <3>1
  <2>3. ASSUME NEW x \in T PROVE T \ {x} \in Good
    <3>1. Cardinality(T \ {x}) = Cardinality(T) - 1
      BY <1>1, FS_RemoveElement
    <3>2. Cardinality(T \ {x}) = n /\ T \ {x} \in SUBSET S
      BY <2>1, <3>1
    <3>3. QED
      BY <2>1, <3>2
  <2>4. QED
    BY <2>2, <2>3
<1>4. Nat \subseteq Done
  <2> HIDE DEF Done
  <2>1. QED
    BY <1>2, <1>3, NaturalInduction, Zenon
<1>5. QED
  BY <1>1, <1>4

\* A set of naturals that is finite and not empty has a greatest member.
LEMMA GreatestLemma ==
  ASSUME NEW S, S \subseteq Nat, IsFiniteSet(S), S # {}
  PROVE  \E x \in S : \A y \in S : y <= x
<1> DEFINE HasGreatest(T) == \E x \in T : \A y \in T : y <= x
           Good == {T \in SUBSET S : T = {} \/ HasGreatest(T)}
<1>1. {} \in Good
  OBVIOUS
<1>2. ASSUME NEW T \in SUBSET S, T # {}, \A x \in T : T \ {x} \in Good
      PROVE  T \in Good
  <2>1. PICK z \in T : T \ {z} = {} \/ HasGreatest(T \ {z})
    <3>1. PICK z \in T : T \ {z} \in Good
      BY <1>2
    <3>2. QED
      BY <3>1
  <2>2. CASE T \ {z} = {}
    <3>1. \A y \in T : y <= z
      BY <2>2
    <3>2. QED
      BY <3>1
  <2>3. CASE HasGreatest(T \ {z})
    <3>1. PICK x \in T \ {z} : \A y \in T \ {z} : y <= x
      BY <2>3
    <3>2. CASE z <= x
      <4>1. \A y \in T : y <= x
        BY <3>1, <3>2
      <4>2. QED
        BY <3>1, <4>1
    <3>3. CASE x <= z
      <4>1. \A y \in T : y <= z
        BY <3>1, <3>3
      <4>2. QED
        BY <4>1
    <3>4. QED
      BY <3>1, <3>2, <3>3
  <2>4. QED
    BY <2>1, <2>2, <2>3
<1> HIDE DEF Good
<1>3. S \in Good
  BY <1>1, <1>2, SubsetInduction
<1>4. QED
  BY <1>3 DEF Good

-----------------------------------------------------------------------------
(***************************************************************************)
(* Sums over finite sets.  The fold that defines SumFunctionOnSet takes    *)
(* the members in an order of its own; the sum does not depend on it.      *)
(***************************************************************************)

\* What the fold does with the function f it has made so far.
FoldStep(fun, f, S) ==
  [s \in SUBSET S |-> IF s = {} THEN 0
                      ELSE fun[CHOOSE x \in s : TRUE] + f[s \ {CHOOSE x \in s : TRUE}]]

\* The fold exists: it is made for the small subsets first.
LEMMA FoldExists ==
  ASSUME NEW fun, NEW S, IsFiniteSet(S)
  PROVE  \E f : f = FoldStep(fun, f, S)
<1> DEFINE Sub(n) == {s \in SUBSET S : Cardinality(s) <= n}
           Chosen(s) == CHOOSE x \in s : TRUE
           Next(f, n) == [s \in Sub(n) |-> IF s = {} THEN 0
                                           ELSE fun[Chosen(s)] + f[s \ {Chosen(s)}]]
           Done == {n \in Nat : \E f : f = Next(f, n)}
<1>1. \A s \in SUBSET S : IsFiniteSet(s) /\ Cardinality(s) \in Nat
  BY FS_Subset, FS_CardinalityType
<1>2. \A s \in SUBSET S : s # {} => Chosen(s) \in s
  OBVIOUS
<1>3. 0 \in Done
  <2> DEFINE f == [s \in Sub(0) |-> 0]
  <2>1. \A s \in Sub(0) : s = {}
    BY <1>1, FS_EmptySet
  <2>2. f = Next(f, 0)
    BY <2>1
  <2>3. QED
    BY <2>2
<1>4. ASSUME NEW n \in Nat, n \in Done
      PROVE  n + 1 \in Done
  <2>1. PICK f : f = Next(f, n)
    BY <1>4
  <2> DEFINE g == Next(f, n + 1)
  <2>2. ASSUME NEW s \in Sub(n + 1), s # {}
        PROVE  s \ {Chosen(s)} \in Sub(n) /\ s \ {Chosen(s)} \in Sub(n + 1)
    <3>1. Cardinality(s \ {Chosen(s)}) = Cardinality(s) - 1
      BY <1>1, <1>2, <2>2, FS_RemoveElement
    <3>2. QED
      BY <1>1, <2>2, <3>1
  <2>3. ASSUME NEW t \in Sub(n), t \in Sub(n + 1) PROVE g[t] = f[t]
    <3>1. f[t] = Next(f, n)[t]
      BY <2>1
    <3>2. QED
      BY <2>3, <3>1
  <2>4. \A s \in Sub(n + 1) : Next(f, n + 1)[s] = Next(g, n + 1)[s]
    <3> HIDE DEF Sub, Chosen
    <3>1. ASSUME NEW s \in Sub(n + 1) PROVE Next(f, n + 1)[s] = Next(g, n + 1)[s]
      <4>1. CASE s = {}
        BY <4>1
      <4>2. CASE s # {}
        <5>1. g[s \ {Chosen(s)}] = f[s \ {Chosen(s)}]
          BY <2>2, <2>3, <4>2
        <5> HIDE DEF g
        <5>2. QED
          BY <4>2, <5>1
      <4>3. QED
        BY <4>1, <4>2
    <3>2. QED
      BY <3>1
  <2>5. g = Next(g, n + 1)
    <3> HIDE DEF Sub, Chosen
    <3>1. QED
      BY <2>4
  <2>6. QED
    <3> HIDE DEF g, Next
    <3>1. \E h : h = Next(h, n + 1)
      BY <2>5, Zenon
    <3>2. QED
      BY <3>1
<1>5. Nat \subseteq Done
  <2> HIDE DEF Done
  <2>1. QED
    BY <1>3, <1>4, NaturalInduction
<1>6. Cardinality(S) \in Done
  BY <1>1, <1>5
<1>7. Sub(Cardinality(S)) = SUBSET S
  BY <1>1, FS_Subset
<1>8. PICK f : f = Next(f, Cardinality(S))
  BY <1>6
<1>9. f = FoldStep(fun, f, S)
  BY <1>7, <1>8 DEF FoldStep
<1>10. QED
  BY <1>9

\* Two folds agree where both are made.
LEMMA FoldsAgree ==
  ASSUME NEW fun, NEW S, IsFiniteSet(S), NEW T \in SUBSET S,
         NEW f, f = FoldStep(fun, f, S), NEW g, g = FoldStep(fun, g, T)
  PROVE  f[T] = g[T]
<1> DEFINE Good == {s \in SUBSET T : f[s] = g[s]}
           Chosen(s) == CHOOSE x \in s : TRUE
<1>1. \A s \in SUBSET T : /\ f[s] = FoldStep(fun, f, S)[s]
                          /\ g[s] = FoldStep(fun, g, T)[s]
  OBVIOUS
<1>2. /\ f[{}] = 0 /\ g[{}] = 0
      /\ \A s \in SUBSET T :
           s # {} => /\ f[s] = fun[Chosen(s)] + f[s \ {Chosen(s)}]
                     /\ g[s] = fun[Chosen(s)] + g[s \ {Chosen(s)}]
  BY <1>1 DEF FoldStep
<1>3. {} \in Good
  BY <1>2
<1>4. \A s \in SUBSET T : s # {} => Chosen(s) \in s
  OBVIOUS
<1>5. ASSUME NEW s \in SUBSET T, s # {}, \A x \in s : s \ {x} \in Good
      PROVE  s \in Good
  <2> HIDE DEF Chosen
  <2>1. f[s \ {Chosen(s)}] = g[s \ {Chosen(s)}]
    BY <1>4, <1>5
  <2>2. QED
    BY <1>2, <1>5, <2>1
<1>6. SUBSET T \subseteq Good
  <2>1. IsFiniteSet(T)
    BY FS_Subset
  <2> HIDE DEF Good
  <2>2. QED
    BY <1>3, <1>5, <2>1, SubsetInduction
<1>7. QED
  BY <1>6

\* The sum over a set, from that over the set without the member chosen first.
LEMMA SumUnfolds ==
  ASSUME NEW fun, NEW S, IsFiniteSet(S)
  PROVE  SumFunctionOnSet(fun, S) =
           IF S = {} THEN 0
           ELSE fun[CHOOSE x \in S : TRUE] + SumFunctionOnSet(fun, S \ {CHOOSE x \in S : TRUE})
<1> DEFINE fold(T) == CHOOSE f : f = FoldStep(fun, f, T)
           x == CHOOSE y \in S : TRUE
<1>1. ASSUME NEW T PROVE SumFunctionOnSet(fun, T) = fold(T)[T]
  BY Zenon DEF SumFunctionOnSet, FoldFunctionOnSet, MapThenFoldSet, FoldStep
<1>2. ASSUME NEW T \in SUBSET S PROVE fold(T) = FoldStep(fun, fold(T), T)
  <2>1. \E f : f = FoldStep(fun, f, T)
    BY FS_Subset, FoldExists
  <2>2. QED
    BY <2>1, Zenon
<1> HIDE DEF fold
<1>3. fold(S)[S] = FoldStep(fun, fold(S), S)[S]
  BY <1>2
<1>4. CASE S = {}
  BY <1>1, <1>3, <1>4 DEF FoldStep
<1>5. CASE S # {}
  <2>1. fold(S)[S] = fun[x] + fold(S)[S \ {x}]
    BY <1>3, <1>5 DEF FoldStep
  <2>2. fold(S)[S \ {x}] = fold(S \ {x})[S \ {x}]
    <3> DEFINE T == S \ {x}
    <3>1. T \in SUBSET S
      OBVIOUS
    <3> HIDE DEF T
    <3>2. fold(S)[T] = fold(T)[T]
      BY <1>2, <3>1, FoldsAgree
    <3>3. QED
      BY <3>2 DEF T
  <2>3. QED
    BY <1>1, <1>5, <2>1, <2>2
<1>6. QED
  BY <1>4, <1>5

\* Sums of integers are integers.
LEMMA SumType ==
  ASSUME NEW fun, NEW S, IsFiniteSet(S), \A x \in S : fun[x] \in Int
  PROVE  \A T \in SUBSET S : SumFunctionOnSet(fun, T) \in Int
<1> DEFINE Good == {T \in SUBSET S : SumFunctionOnSet(fun, T) \in Int}
           Chosen(T) == CHOOSE x \in T : TRUE
<1>1. \A T \in SUBSET S : IsFiniteSet(T)
  BY FS_Subset
<1>2. {} \in Good
  <2>1. SumFunctionOnSet(fun, {}) = 0
    BY FS_EmptySet, SumUnfolds
  <2>2. QED
    BY <2>1
<1>3. ASSUME NEW T \in SUBSET S, T # {}, \A x \in T : T \ {x} \in Good
      PROVE  T \in Good
  <2>1. Chosen(T) \in T
    BY <1>3
  <2>2. SumFunctionOnSet(fun, T) = fun[Chosen(T)] + SumFunctionOnSet(fun, T \ {Chosen(T)})
    BY <1>1, <1>3, SumUnfolds
  <2> HIDE DEF Chosen
  <2>3. QED
    BY <1>3, <2>1, <2>2
<1> HIDE DEF Good
<1>4. SUBSET S \subseteq Good
  BY <1>2, <1>3, SubsetInduction
<1>5. QED
  BY <1>4 DEF Good

\* Any member may be taken out of a sum first.
LEMMA SumRemoves ==
  ASSUME NEW fun, NEW S, IsFiniteSet(S), \A x \in S : fun[x] \in Int
  PROVE  \A T \in SUBSET S : \A x \in T :
           SumFunctionOnSet(fun, T) = fun[x] + SumFunctionOnSet(fun, T \ {x})
<1> DEFINE Sum(T) == SumFunctionOnSet(fun, T)
           Good == {T \in SUBSET S : \A x \in T : Sum(T) = fun[x] + Sum(T \ {x})}
<1>1. \A T \in SUBSET S : IsFiniteSet(T) /\ Sum(T) \in Int
  BY FS_Subset, SumType
<1>2. {} \in Good
  OBVIOUS
<1>3. ASSUME NEW T \in SUBSET S, T # {}, \A x \in T : T \ {x} \in Good
      PROVE  T \in Good
  <2>1. SUFFICES ASSUME NEW x \in T PROVE Sum(T) = fun[x] + Sum(T \ {x})
    OBVIOUS
  <2>2. PICK y \in T : Sum(T) = fun[y] + Sum(T \ {y})
    <3>1. Sum(T) = fun[CHOOSE z \in T : TRUE] + Sum(T \ {CHOOSE z \in T : TRUE})
      BY <1>1, <1>3, SumUnfolds
    <3>2. (CHOOSE z \in T : TRUE) \in T
      BY <1>3
    <3>3. QED
      BY <3>1, <3>2, Zenon
  <2>3. CASE x = y
    BY <2>2, <2>3
  <2>4. CASE x # y
    <3> DEFINE R == T \ {x, y}
    <3>1. (T \ {x}) \ {y} = R /\ (T \ {y}) \ {x} = R /\ R \in SUBSET S
      OBVIOUS
    <3>2. Sum(T \ {y}) = fun[x] + Sum(R)
      <4>1. x \in T \ {y} /\ T \ {y} \in Good
        BY <1>3, <2>4
      <4>2. QED
        BY <3>1, <4>1
    <3>3. Sum(T \ {x}) = fun[y] + Sum(R)
      <4>1. y \in T \ {x} /\ T \ {x} \in Good
        BY <1>3, <2>4
      <4>2. QED
        BY <3>1, <4>1
    <3>4. Sum(R) \in Int /\ fun[x] \in Int /\ fun[y] \in Int
      BY <1>1, <3>1
    <3> HIDE DEF R, Sum
    <3>5. QED
      BY <2>2, <3>2, <3>3, <3>4
  <2>5. QED
    BY <2>3, <2>4
<1> HIDE DEF Good
<1>4. SUBSET S \subseteq Good
  BY <1>2, <1>3, SubsetInduction
<1>5. QED
  BY <1>4 DEF Good

\* The sum over a set with one member.
LEMMA SumOfOne ==
  ASSUME NEW fun, NEW x, fun[x] \in Int
  PROVE  SumFunctionOnSet(fun, {x}) = fun[x]
<1>1. IsFiniteSet({x}) /\ IsFiniteSet({}) /\ {x} \ {x} = {}
  BY FS_Singleton, FS_EmptySet
<1>2. SumFunctionOnSet(fun, {x}) = fun[x] + SumFunctionOnSet(fun, {x} \ {x})
  BY <1>1, SumRemoves
<1>3. SumFunctionOnSet(fun, {}) = 0
  BY <1>1, SumUnfolds
<1>4. QED
  BY <1>1, <1>2, <1>3

\* With positive terms, a part has a smaller sum than the whole.
LEMMA SumGrows ==
  ASSUME NEW fun, NEW S, IsFiniteSet(S), \A x \in S : fun[x] \in Nat \ {0}
  PROVE  \A T \in SUBSET S : T # S => SumFunctionOnSet(fun, T) < SumFunctionOnSet(fun, S)
<1> DEFINE Sum(T) == SumFunctionOnSet(fun, T)
           Good == {T \in SUBSET S : \A R \in SUBSET T : R # T => Sum(R) < Sum(T)}
<1>1. \A x \in S : fun[x] \in Int
  OBVIOUS
<1>2. \A T \in SUBSET S : Sum(T) \in Int
  BY <1>1, SumType
<1>3. \A T \in SUBSET S : \A x \in T : Sum(T) = fun[x] + Sum(T \ {x})
  BY <1>1, SumRemoves
<1> HIDE DEF Sum
<1>4. {} \in Good
  OBVIOUS
<1>5. ASSUME NEW T \in SUBSET S, T # {}, \A x \in T : T \ {x} \in Good
      PROVE  T \in Good
  <2>1. SUFFICES ASSUME NEW R \in SUBSET T, R # T PROVE Sum(R) < Sum(T)
    OBVIOUS
  <2>2. PICK x \in T : x \notin R
    BY <2>1
  <2> DEFINE Q == T \ {x}
  <2>3. Q \in Good /\ R \in SUBSET Q /\ Q \in SUBSET S /\ R \in SUBSET S
    BY <1>5, <2>2
  <2>4. R = Q \/ Sum(R) < Sum(Q)
    BY <2>3
  <2>5. Sum(T) = fun[x] + Sum(Q)
    BY <1>3
  <2>6. fun[x] \in Nat \ {0} /\ Sum(Q) \in Int /\ Sum(R) \in Int
    BY <1>2, <2>3
  <2> HIDE DEF Q
  <2>7. QED
    BY <2>4, <2>5, <2>6
<1> HIDE DEF Good
<1>6. SUBSET S \subseteq Good
  BY <1>4, <1>5, SubsetInduction
<1>7. S \in Good
  BY <1>6
<1>8. QED
  BY <1>7 DEF Good, Sum

\* Sums of naturals are naturals.
LEMMA SumNatural ==
  ASSUME NEW fun, NEW S, IsFiniteSet(S), \A x \in S : fun[x] \in Nat
  PROVE  SumFunctionOnSet(fun, S) \in Nat
<1> DEFINE Sum(T) == SumFunctionOnSet(fun, T)
           Good == {T \in SUBSET S : Sum(T) \in Nat}
<1>1. \A T \in SUBSET S : \A x \in T : Sum(T) = fun[x] + Sum(T \ {x})
  <2>1. \A x \in S : fun[x] \in Int
    OBVIOUS
  <2>2. QED
    BY <2>1, SumRemoves
<1>2. {} \in Good
  <2>1. Sum({}) = 0
    BY FS_EmptySet, SumUnfolds
  <2>2. QED
    BY <2>1
<1> HIDE DEF Sum
<1>3. ASSUME NEW T \in SUBSET S, T # {}, \A x \in T : T \ {x} \in Good
      PROVE  T \in Good
  <2>1. PICK x \in T : TRUE
    BY <1>3
  <2>2. Sum(T) = fun[x] + Sum(T \ {x}) /\ T \ {x} \in Good
    BY <1>1, <1>3
  <2>3. QED
    BY <2>2
<1> HIDE DEF Good
<1>4. SUBSET S \subseteq Good
  BY <1>2, <1>3, SubsetInduction
<1>5. QED
  BY <1>4 DEF Good, Sum

\* The sums over a part and over the rest.
LEMMA SumSplits ==
  ASSUME NEW fun, NEW S, IsFiniteSet(S), \A x \in S : fun[x] \in Int
  PROVE  \A T \in SUBSET S :
           SumFunctionOnSet(fun, S) = SumFunctionOnSet(fun, T) + SumFunctionOnSet(fun, S \ T)
<1> DEFINE Sum(T) == SumFunctionOnSet(fun, T)
           Good == {T \in SUBSET S : Sum(S) = Sum(T) + Sum(S \ T)}
<1>1. /\ \A T \in SUBSET S : \A x \in T : Sum(T) = fun[x] + Sum(T \ {x})
      /\ \A T \in SUBSET S : Sum(T) \in Int
  BY SumRemoves, SumType
<1>2. {} \in Good
  <2>1. Sum({}) = 0
    BY FS_EmptySet, SumUnfolds
  <2>2. S \ {} = S /\ Sum(S) \in Int
    BY <1>1
  <2> HIDE DEF Sum
  <2>3. QED
    BY <2>1, <2>2
<1> HIDE DEF Sum
<1>3. ASSUME NEW T \in SUBSET S, T # {}, \A x \in T : T \ {x} \in Good
      PROVE  T \in Good
  <2>1. PICK x \in T : TRUE
    BY <1>3
  <2> DEFINE rest == S \ (T \ {x})
  <2>2. Sum(T) = fun[x] + Sum(T \ {x})
    BY <1>1
  <2>3. Sum(rest) = fun[x] + Sum(S \ T)
    <3>1. rest \in SUBSET S /\ x \in rest /\ rest \ {x} = S \ T
      OBVIOUS
    <3>2. QED
      BY <1>1, <3>1
  <2>4. Sum(S) = Sum(T \ {x}) + Sum(rest)
    BY <1>3
  <2>5. fun[x] \in Int /\ Sum(T \ {x}) \in Int /\ Sum(S \ T) \in Int
    BY <1>1
  <2> HIDE DEF rest
  <2>6. QED
    BY <2>2, <2>3, <2>4, <2>5
<1> HIDE DEF Good
<1>4. SUBSET S \subseteq Good
  BY <1>2, <1>3, SubsetInduction
<1>5. QED
  BY <1>4 DEF Good, Sum

\* name gives the members of S names, by which named has the values of fun.
Renames(fun, named, name, S) ==
  /\ DOMAIN name = S /\ \A x, y \in S : name[x] = name[y] => x = y
  /\ \A x \in S : fun[x] \in Int /\ named[name[x]] = fun[x]

\* Counting the members of a set by other names does not change the sum.
LEMMA SumImage ==
  ASSUME NEW fun, NEW named, NEW S, IsFiniteSet(S), NEW name, Renames(fun, named, name, S)
  PROVE  SumFunctionOnSet(named, {name[x] : x \in S}) = SumFunctionOnSet(fun, S)
<1> DEFINE Sum(T) == SumFunctionOnSet(fun, T)
           SumOf(N) == SumFunctionOnSet(named, N)
           Names(T) == {name[x] : x \in T}
           all == Names(S)
           Good == {T \in SUBSET S : SumOf(Names(T)) = Sum(T)}
<1>1. \A T \in SUBSET S : \A x \in T : Sum(T) = fun[x] + Sum(T \ {x})
  <2>1. \A x \in S : fun[x] \in Int
    BY DEF Renames
  <2>2. QED
    BY <2>1, SumRemoves
<1>2. \A N \in SUBSET all : \A n \in N : SumOf(N) = named[n] + SumOf(N \ {n})
  <2>1. IsFiniteSet(all)
    BY ImageLemma DEF Renames
  <2>2. \A n \in all : named[n] \in Int
    BY DEF Renames
  <2> HIDE DEF all
  <2>3. QED
    BY <2>1, <2>2, SumRemoves
<1>3. {} \in Good
  <2>1. SumOf({}) = 0 /\ Sum({}) = 0
    BY FS_EmptySet, SumUnfolds
  <2>2. Names({}) = {}
    OBVIOUS
  <2> HIDE DEF Sum, SumOf, Names
  <2>3. QED
    BY <2>1, <2>2
<1> HIDE DEF Sum, SumOf
<1>4. ASSUME NEW T \in SUBSET S, T # {}, \A x \in T : T \ {x} \in Good
      PROVE  T \in Good
  <2>1. PICK x \in T : TRUE
    BY <1>4
  <2> DEFINE N == Names(T)
  <2>2. N \in SUBSET all /\ name[x] \in N
    OBVIOUS
  <2>3. N \ {name[x]} = Names(T \ {x})
    BY DEF Renames
  <2> HIDE DEF N, all
  <2>4. SumOf(N) = named[name[x]] + SumOf(N \ {name[x]})
    BY <1>2, <2>2
  <2>5. Sum(T) = fun[x] + Sum(T \ {x}) /\ named[name[x]] = fun[x]
    BY <1>1 DEF Renames
  <2>6. SumOf(Names(T \ {x})) = Sum(T \ {x})
    BY <1>4
  <2>7. QED
    BY <2>3, <2>4, <2>5, <2>6 DEF N
<1> HIDE DEF Good
<1>5. SUBSET S \subseteq Good
  BY <1>3, <1>4, SubsetInduction
<1>6. QED
  BY <1>5 DEF Good, Sum, SumOf, Names

\* f and g give the members of S the same integers.
SameOn(f, g, S) == \A x \in S : f[x] \in Int /\ g[x] = f[x]

\* A sum depends on the values over its set only.
LEMMA SumCongruent ==
  ASSUME NEW f, NEW g, NEW S, IsFiniteSet(S), SameOn(f, g, S)
  PROVE  SumFunctionOnSet(g, S) = SumFunctionOnSet(f, S)
<1> DEFINE F(T) == SumFunctionOnSet(f, T)
           G(T) == SumFunctionOnSet(g, T)
           Good == {T \in SUBSET S : G(T) = F(T)}
<1>1. \A T \in SUBSET S : \A x \in T : F(T) = f[x] + F(T \ {x}) /\ G(T) = g[x] + G(T \ {x})
  <2>1. (\A x \in S : f[x] \in Int) /\ (\A x \in S : g[x] \in Int)
    BY DEF SameOn
  <2>2. \A T \in SUBSET S : \A x \in T : F(T) = f[x] + F(T \ {x})
    BY <2>1, SumRemoves
  <2>3. \A T \in SUBSET S : \A x \in T : G(T) = g[x] + G(T \ {x})
    BY <2>1, SumRemoves
  <2> HIDE DEF F, G
  <2>4. QED
    BY <2>2, <2>3
<1>2. {} \in Good
  <2>1. F({}) = 0 /\ G({}) = 0
    BY FS_EmptySet, SumUnfolds
  <2>2. QED
    BY <2>1
<1> HIDE DEF F, G
<1>3. ASSUME NEW T \in SUBSET S, T # {}, \A x \in T : T \ {x} \in Good
      PROVE  T \in Good
  <2>1. PICK x \in T : TRUE
    BY <1>3
  <2>2. F(T) = f[x] + F(T \ {x}) /\ G(T) = g[x] + G(T \ {x}) /\ g[x] = f[x]
    BY <1>1 DEF SameOn
  <2>3. G(T \ {x}) = F(T \ {x})
    BY <1>3
  <2>4. QED
    BY <2>2, <2>3
<1> HIDE DEF Good
<1>4. SUBSET S \subseteq Good
  BY <1>2, <1>3, SubsetInduction
<1>5. QED
  BY <1>4 DEF Good, F, G

\* The sum of the opposites is the opposite of the sum.
LEMMA SumNegates ==
  ASSUME NEW f, NEW g, NEW S, IsFiniteSet(S), \A x \in S : f[x] \in Int /\ g[x] = -f[x]
  PROVE  SumFunctionOnSet(g, S) = -SumFunctionOnSet(f, S)
<1> DEFINE F(T) == SumFunctionOnSet(f, T)
           G(T) == SumFunctionOnSet(g, T)
           Good == {T \in SUBSET S : G(T) = -F(T)}
<1>1. /\ \A T \in SUBSET S : \A x \in T : F(T) = f[x] + F(T \ {x}) /\ G(T) = g[x] + G(T \ {x})
      /\ \A T \in SUBSET S : F(T) \in Int
  <2>1. \A x \in S : g[x] \in Int /\ f[x] \in Int
    OBVIOUS
  <2>2. QED
    BY <2>1, SumRemoves, SumType
<1>2. {} \in Good
  <2>1. F({}) = 0 /\ G({}) = 0
    BY FS_EmptySet, SumUnfolds
  <2>2. QED
    BY <2>1
<1> HIDE DEF F, G
<1>3. ASSUME NEW T \in SUBSET S, T # {}, \A x \in T : T \ {x} \in Good
      PROVE  T \in Good
  <2>1. PICK x \in T : TRUE
    BY <1>3
  <2>2. /\ F(T) = f[x] + F(T \ {x}) /\ G(T) = g[x] + G(T \ {x})
        /\ F(T \ {x}) \in Int /\ f[x] \in Int /\ g[x] = -f[x]
    BY <1>1
  <2>3. G(T \ {x}) = -F(T \ {x})
    BY <1>3
  <2>4. QED
    BY <2>2, <2>3
<1> HIDE DEF Good
<1>4. SUBSET S \subseteq Good
  BY <1>2, <1>3, SubsetInduction
<1>5. QED
  BY <1>4 DEF Good, F, G
=============================================================================
