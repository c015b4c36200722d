---------------------------- MODULE SumTheorems ----------------------------
(***************************************************************************)
(* What SumFunctionOnSet adds up, for any function to the integers and any *)
(* finite set.                                                             *)
(*                                                                         *)
(* The function that the fold is defined by is a CHOOSE; that it exists,   *)
(* and that it does not matter which element it takes first, is shown by   *)
(* induction over the size of the set.  The induction is one over a set of *)
(* numbers (AllNat, from the well-founded < on Nat), so that no operator   *)
(* is passed to it.                                                        *)
(***************************************************************************)
EXTENDS Integers, FiniteSets, Functions, FiniteSetTheorems, WellFoundedInduction, TLAPS

\* Induction, over a set of numbers.
LEMMA AllNat ==
    ASSUME NEW P, 0 \in P, \A n \in Nat : n \in P => n + 1 \in P
    PROVE  Nat \subseteq P
<1> SUFFICES ASSUME Nat \ P # {} PROVE FALSE
  OBVIOUS
<1> DEFINE T == Nat \ P
<1>1. PICK x \in T : \A y \in T : ~(<<y, x>> \in OpToRel(<, Nat))
  BY NatLessThanWellFounded, WFMin
<1>2. \A y \in T : ~(y < x)
  BY <1>1 DEF OpToRel
<1>3. x # 0 /\ x \in Nat /\ x - 1 \in Nat
  OBVIOUS
<1>4. x - 1 \in P
  BY <1>2, <1>3
<1> QED
  BY <1>3, <1>4

\* The induction by which a fact is shown of the finite sets, by their size.
LEMMA OfEverySize ==
    ASSUME NEW P, 0 \in P, \A n \in Nat : n \in P => n + 1 \in P, NEW S, IsFiniteSet(S)
    PROVE  Cardinality(S) \in P
BY AllNat, FS_CardinalityType

Chosen(s) == CHOOSE x \in s : TRUE
\* Function g adds f up over the subsets of S.
AddsUp(g, f, S) ==
    g = [s \in SUBSET S |-> IF s = {} THEN 0 ELSE f[Chosen(s)] + g[s \ {Chosen(s)}]]
Adder(f, S) == CHOOSE g : AddsUp(g, f, S)

\* The sum is defined by such a function.
LEMMA SumIsAdder ==
    ASSUME NEW f, NEW S
    PROVE  SumFunctionOnSet(f, S) = Adder(f, S)[S]
BY DEF SumFunctionOnSet, FoldFunctionOnSet, MapThenFoldSet, Adder, AddsUp, Chosen

\* Two such functions agree on a set they both have, if what they add does.
LEMMA AddersAgree ==
    ASSUME NEW f, NEW S, NEW g, AddsUp(g, f, S), NEW e, NEW T, NEW h, AddsUp(h, e, T),
           NEW U, U \subseteq S, U \subseteq T, IsFiniteSet(U), \A x \in U : f[x] = e[x]
    PROVE  g[U] = h[U]
<1> DEFINE Q == {n \in Nat : \A s \in SUBSET U : Cardinality(s) <= n => g[s] = h[s]}
<1>1. \A s \in SUBSET U : /\ IsFiniteSet(s) /\ Cardinality(s) \in Nat
                          /\ Cardinality(s) = 0 <=> s = {}
  BY FS_Subset, FS_CardinalityType, FS_EmptySet
<1>2. \A s \in SUBSET U : s # {} =>
        Chosen(s) \in s /\ Cardinality(s \ {Chosen(s)}) = Cardinality(s) - 1
  BY <1>1, FS_RemoveElement DEF Chosen
<1>3. \A s \in SUBSET U : /\ s = {} => g[s] = 0 /\ h[s] = 0
                          /\ s # {} => /\ g[s] = f[Chosen(s)] + g[s \ {Chosen(s)}]
                                       /\ h[s] = e[Chosen(s)] + h[s \ {Chosen(s)}]
  BY DEF AddsUp
<1>4. 0 \in Q
  <2>1. \A s \in SUBSET U : Cardinality(s) <= 0 => s = {}
    BY <1>1
  <2> QED
    BY <1>3, <2>1
<1>5. ASSUME NEW n \in Nat, n \in Q PROVE n + 1 \in Q
  <2>1. ASSUME NEW s \in SUBSET U, Cardinality(s) <= n + 1 PROVE g[s] = h[s]
    <3>1. CASE s = {}
      BY <1>3, <3>1
    <3>2. CASE s # {}
      <4> DEFINE r == s \ {Chosen(s)}
      <4>1. r \in SUBSET U /\ Cardinality(r) \in Nat /\ Cardinality(s) \in Nat
        BY <1>1
      <4>2. Cardinality(r) <= n
        BY <1>2, <2>1, <3>2, <4>1
      <4>3. g[r] = h[r]
        BY <1>5, <4>1, <4>2
      <4>4. f[Chosen(s)] = e[Chosen(s)]
        BY <1>2, <3>2
      <4> QED
        BY <1>3, <3>2, <4>3, <4>4
    <3> QED
      BY <3>1, <3>2
  <2> QED
    BY <2>1
<1>6. Cardinality(U) \in Q
  <2> HIDE DEF Q
  <2> QED
    BY <1>4, <1>5, OfEverySize
<1> QED
  BY <1>6

\* There is one.
LEMMA AdderExists ==
    ASSUME NEW f, NEW S, IsFiniteSet(S), \A x \in S : f[x] \in Int
    PROVE  /\ Adder(f, S) \in [SUBSET S -> Int]
           /\ AddsUp(Adder(f, S), f, S)
<1> DEFINE Value(g, s) == IF s = {} THEN 0 ELSE f[Chosen(s)] + g[s \ {Chosen(s)}]
           UpTo(n) == {s \in SUBSET S : Cardinality(s) <= n}
           Good(g, n) == g \in [SUBSET S -> Int] /\ \A s \in UpTo(n) : g[s] = Value(g, s)
           P == {n \in Nat : \E g : Good(g, n)}
<1>1. \A s \in SUBSET S : /\ IsFiniteSet(s) /\ Cardinality(s) \in Nat
                          /\ Cardinality(s) <= Cardinality(S)
                          /\ Cardinality(s) = 0 <=> s = {}
  BY FS_Subset, FS_CardinalityType, FS_EmptySet
<1>2. \A s \in SUBSET S : s # {} =>
        Chosen(s) \in s /\ Cardinality(s \ {Chosen(s)}) = Cardinality(s) - 1
  BY <1>1, FS_RemoveElement DEF Chosen
<1>3. 0 \in P
  <2> DEFINE g == [s \in SUBSET S |-> 0]
  <2>1. Good(g, 0)
    BY <1>1
  <2> QED
    BY <2>1
<1>4. ASSUME NEW n \in Nat, n \in P PROVE n + 1 \in P
  <2>1. PICK g : Good(g, n)
    BY <1>4
  <2> DEFINE h == [s \in SUBSET S |-> Value(g, s)]
  <2>2. h \in [SUBSET S -> Int]
    <3> SUFFICES ASSUME NEW s \in SUBSET S, s # {} PROVE f[Chosen(s)] + g[s \ {Chosen(s)}] \in Int
      OBVIOUS
    <3>1. Chosen(s) \in S /\ s \ {Chosen(s)} \in SUBSET S
      BY <1>2
    <3> QED
      BY <2>1, <3>1
  <2>3. ASSUME NEW s \in UpTo(n + 1) PROVE h[s] = Value(h, s)
    <3>1. CASE s = {}
      BY <3>1
    <3>2. CASE s # {}
      <4> DEFINE r == s \ {Chosen(s)}
      <4>1. r \in UpTo(n)
        BY <1>1, <1>2, <3>2
      <4>2. g[r] = h[r]
        BY <2>1, <4>1
      <4> QED
        BY <3>2, <4>2
    <3> QED
      BY <3>1, <3>2
  <2>4. Good(h, n + 1)
    BY <2>2, <2>3
  <2> HIDE DEF h, Good
  <2> QED
    BY <2>4
<1>5. Cardinality(S) \in P
  <2> HIDE DEF P
  <2> QED
    BY <1>3, <1>4, OfEverySize
<1>6. PICK g : Good(g, Cardinality(S))
  BY <1>5
<1>7. AddsUp(g, f, S)
  <2>1. g = [s \in SUBSET S |-> g[s]]
    BY <1>6
  <2>2. \A s \in SUBSET S : g[s] = Value(g, s)
    BY <1>1, <1>6
  <2> QED
    BY <2>1, <2>2 DEF AddsUp
<1>8. AddsUp(Adder(f, S), f, S)
  BY <1>7 DEF Adder
<1> DEFINE a == Adder(f, S)
<1>9. a = [s \in SUBSET S |-> Value(a, s)]
  BY <1>8 DEF AddsUp
<1> HIDE DEF a
<1>10. ASSUME NEW s \in SUBSET S PROVE a[s] = g[s]
  BY <1>1, <1>7, <1>8, AddersAgree DEF a
<1>11. a = g
  BY <1>6, <1>9, <1>10
<1> QED
  BY <1>6, <1>8, <1>11 DEF a

\* The sum over a finite set: of no elements, of those but the one chosen.
LEMMA SumByChoice ==
    ASSUME NEW f, NEW S, IsFiniteSet(S), \A x \in S : f[x] \in Int
    PROVE  /\ SumFunctionOnSet(f, S) \in Int
           /\ S = {} => SumFunctionOnSet(f, S) = 0
           /\ S # {} => SumFunctionOnSet(f, S)
                        = f[Chosen(S)] + SumFunctionOnSet(f, S \ {Chosen(S)})
<1> DEFINE a == Adder(f, S)  R == S \ {Chosen(S)}  b == Adder(f, R)
<1>1. /\ a \in [SUBSET S -> Int] /\ AddsUp(a, f, S)
  BY AdderExists
<1>2. IsFiniteSet(R) /\ AddsUp(b, f, R)
  <2>1. IsFiniteSet(R)
    BY FS_Subset
  <2> QED
    BY <2>1, AdderExists
<1>3. a[R] = b[R]
  <2> HIDE DEF a, b, R
  <2>1. R \subseteq S
    BY DEF R
  <2> QED
    BY <1>1, <1>2, <2>1, AddersAgree
<1>4. a[S] = IF S = {} THEN 0 ELSE f[Chosen(S)] + a[R]
  BY <1>1 DEF AddsUp
<1>5. SumFunctionOnSet(f, S) = a[S] /\ SumFunctionOnSet(f, R) = b[R]
  BY SumIsAdder
<1> QED
  BY <1>1, <1>3, <1>4, <1>5

\* Functions that agree on a set have one sum.
LEMMA SumAgrees ==
    ASSUME NEW f, NEW g, NEW S, IsFiniteSet(S), \A x \in S : f[x] \in Int /\ f[x] = g[x]
    PROVE  SumFunctionOnSet(f, S) = SumFunctionOnSet(g, S)
<1>1. AddsUp(Adder(f, S), f, S) /\ AddsUp(Adder(g, S), g, S)
  BY AdderExists
<1>2. Adder(f, S)[S] = Adder(g, S)[S]
  BY <1>1, AddersAgree
<1> QED
  BY <1>2, SumIsAdder

\* Any element may be taken out of the sum.
LEMMA SumWithout ==
    ASSUME NEW f, NEW S, IsFiniteSet(S), \A x \in S : f[x] \in Int, NEW y \in S
    PROVE  SumFunctionOnSet(f, S) = f[y] + SumFunctionOnSet(f, S \ {y})
<1> DEFINE Sum(s) == SumFunctionOnSet(f, s)
           Q == {n \in Nat : \A s \in SUBSET S : Cardinality(s) <= n =>
                               \A z \in s : Sum(s) = f[z] + Sum(s \ {z})}
<1>1. \A s \in SUBSET S : /\ IsFiniteSet(s) /\ Cardinality(s) \in Nat
                          /\ Cardinality(s) = 0 <=> s = {}
  BY FS_Subset, FS_CardinalityType, FS_EmptySet
<1>2. \A s \in SUBSET S : \A z \in s : Cardinality(s \ {z}) = Cardinality(s) - 1
  BY <1>1, FS_RemoveElement
<1>3. \A s \in SUBSET S : /\ Sum(s) \in Int
                          /\ s # {} => /\ Chosen(s) \in s
                                       /\ Sum(s) = f[Chosen(s)] + Sum(s \ {Chosen(s)})
  BY <1>1, SumByChoice DEF Chosen
<1> HIDE DEF Sum
<1>4. 0 \in Q
  BY <1>1
<1>5. ASSUME NEW n \in Nat, n \in Q PROVE n + 1 \in Q
  <2>1. ASSUME NEW s \in SUBSET S, Cardinality(s) <= n + 1, NEW z \in s
        PROVE  Sum(s) = f[z] + Sum(s \ {z})
    <3> DEFINE x == Chosen(s)
    <3>1. x \in s /\ Sum(s) = f[x] + Sum(s \ {x})
      BY <1>3, <2>1
    <3> HIDE DEF x
    <3>2. CASE x = z
      BY <3>1, <3>2
    <3>3. CASE x # z
      <4>1. Cardinality(s \ {x}) <= n /\ Cardinality(s \ {z}) <= n
        BY <1>1, <1>2, <2>1, <3>1
      <4>2. z \in s \ {x} /\ x \in s \ {z}
        BY <3>1, <3>3
      <4>3. /\ Sum(s \ {x}) = f[z] + Sum((s \ {x}) \ {z})
            /\ Sum(s \ {z}) = f[x] + Sum((s \ {z}) \ {x})
        BY <1>5, <4>1, <4>2
      <4> DEFINE rest == Sum(s \ {x, z})
      <4>4. (s \ {x}) \ {z} = s \ {x, z} /\ (s \ {z}) \ {x} = s \ {x, z}
        OBVIOUS
      <4>5. Sum(s \ {x}) = f[z] + rest /\ Sum(s \ {z}) = f[x] + rest
        BY <4>3, <4>4
      <4>6. f[x] \in Int /\ f[z] \in Int /\ rest \in Int
        BY <1>3, <2>1, <3>1
      <4> HIDE DEF rest
      <4> QED
        BY <3>1, <4>5, <4>6
    <3> QED
      BY <3>2, <3>3
  <2> QED
    BY <2>1
<1>6. Cardinality(S) \in Q
  <2> HIDE DEF Q
  <2> QED
    BY <1>4, <1>5, OfEverySize
<1> QED
  BY <1>1, <1>6 DEF Sum

\* The sum follows a change of one value.
LEMMA SumChange ==
    ASSUME NEW f, NEW g, NEW S, IsFiniteSet(S), NEW y \in S,
           \A x \in S : f[x] \in Int /\ g[x] \in Int, \A x \in S \ {y} : g[x] = f[x]
    PROVE  SumFunctionOnSet(g, S) = SumFunctionOnSet(f, S) + (g[y] - f[y])
<1>1. IsFiniteSet(S \ {y})
  BY FS_Subset
<1>2. SumFunctionOnSet(f, S \ {y}) = SumFunctionOnSet(g, S \ {y})
  BY <1>1, SumAgrees
<1>3. /\ SumFunctionOnSet(f, S) = f[y] + SumFunctionOnSet(f, S \ {y})
      /\ SumFunctionOnSet(g, S) = g[y] + SumFunctionOnSet(g, S \ {y})
  BY SumWithout
<1>4. SumFunctionOnSet(f, S \ {y}) \in Int
  BY <1>1, SumByChoice
<1> QED
  BY <1>2, <1>3, <1>4

\* A sum of zeros is zero.
LEMMA SumOfZeros ==
    ASSUME NEW f, NEW S, IsFiniteSet(S), \A x \in S : f[x] = 0
    PROVE  SumFunctionOnSet(f, S) = 0
<1> DEFINE Q == {n \in Nat : \A s \in SUBSET S :
                               Cardinality(s) <= n => SumFunctionOnSet(f, s) = 0}
<1>1. \A s \in SUBSET S : /\ IsFiniteSet(s) /\ Cardinality(s) \in Nat
                          /\ Cardinality(s) = 0 <=> s = {}
  BY FS_Subset, FS_CardinalityType, FS_EmptySet
<1>2. \A s \in SUBSET S : \A z \in s : Cardinality(s \ {z}) = Cardinality(s) - 1
  BY <1>1, FS_RemoveElement
<1>3. SumFunctionOnSet(f, {}) = 0
  BY FS_EmptySet, SumByChoice
<1>4. 0 \in Q
  BY <1>1, <1>3
<1>5. ASSUME NEW n \in Nat, n \in Q PROVE n + 1 \in Q
  <2>1. ASSUME NEW s \in SUBSET S, Cardinality(s) <= n + 1, NEW z \in s
        PROVE  SumFunctionOnSet(f, s) = 0
    <3>1. SumFunctionOnSet(f, s) = f[z] + SumFunctionOnSet(f, s \ {z})
      BY <1>1, <2>1, SumWithout
    <3>2. Cardinality(s \ {z}) <= n
      BY <1>1, <1>2, <2>1
    <3> QED
      BY <1>5, <3>1, <3>2
  <2>2. ASSUME NEW s \in SUBSET S, s = {} PROVE SumFunctionOnSet(f, s) = 0
    BY <1>3, <2>2
  <2> QED
    BY <2>1, <2>2
<1>6. Cardinality(S) \in Q
  <2> HIDE DEF Q
  <2> QED
    BY <1>4, <1>5, OfEverySize
<1> QED
  BY <1>1, <1>6

\* The sum of sums.
LEMMA SumOfSums ==
    ASSUME NEW f, NEW g, NEW h, NEW S, IsFiniteSet(S),
           \A x \in S : f[x] \in Int /\ g[x] \in Int /\ h[x] = f[x] + g[x]
    PROVE  SumFunctionOnSet(h, S) = SumFunctionOnSet(f, S) + SumFunctionOnSet(g, S)
<1> DEFINE Adds(s) == SumFunctionOnSet(h, s) = SumFunctionOnSet(f, s) + SumFunctionOnSet(g, s)
           Q == {n \in Nat : \A s \in SUBSET S : Cardinality(s) <= n => Adds(s)}
<1>1. \A s \in SUBSET S : /\ IsFiniteSet(s) /\ Cardinality(s) \in Nat
                          /\ Cardinality(s) = 0 <=> s = {}
  BY FS_Subset, FS_CardinalityType, FS_EmptySet
<1>2. \A s \in SUBSET S : \A z \in s : Cardinality(s \ {z}) = Cardinality(s) - 1
  BY <1>1, FS_RemoveElement
<1>3. \A s : s = {} => Adds(s)
  <2>1. \A t : SumFunctionOnSet(t, {}) = 0
    BY FS_EmptySet, SumByChoice
  <2> QED
    BY <2>1
<1>4. 0 \in Q
  <2> HIDE DEF Adds
  <2> QED
    BY <1>1, <1>3
<1>5. ASSUME NEW n \in Nat, n \in Q PROVE n + 1 \in Q
  <2>1. ASSUME NEW s \in SUBSET S, Cardinality(s) <= n + 1, NEW z \in s PROVE Adds(s)
    <3> DEFINE r == s \ {z}
    <3>1. /\ SumFunctionOnSet(f, s) = f[z] + SumFunctionOnSet(f, r)
          /\ SumFunctionOnSet(g, s) = g[z] + SumFunctionOnSet(g, r)
          /\ SumFunctionOnSet(h, s) = h[z] + SumFunctionOnSet(h, r)
      BY <1>1, SumWithout
    <3>2. Cardinality(r) <= n /\ r \in SUBSET S
      BY <1>1, <1>2, <2>1
    <3>3. Adds(r)
      <4> HIDE DEF r, Adds
      <4> QED
        BY <1>5, <3>2
    <3>4. SumFunctionOnSet(f, r) \in Int /\ SumFunctionOnSet(g, r) \in Int
      BY <1>1, SumByChoice
    <3> HIDE DEF r
    <3> QED
      BY <3>1, <3>3, <3>4
  <2>2. \A s \in SUBSET S : s = {} => Adds(s)
    BY <1>3
  <2> HIDE DEF Adds
  <2> QED
    BY <2>1, <2>2
<1>6. Cardinality(S) \in Q
  <2> HIDE DEF Q
  <2> QED
    BY <1>4, <1>5, OfEverySize
<1>7. Adds(S)
  <2> HIDE DEF Adds
  <2> QED
    BY <1>1, <1>6
<1> QED
  BY <1>7
=============================================================================
