------------------------------ MODULE SumProofs ------------------------------
(***************************************************************************)
(* The laws of SumOf that proofs about tables need: the empty function,    *)
(* one value more, one less, one changed.                                  *)
(***************************************************************************)
EXTENDS Sums, FiniteSetTheorems, WellFoundedInduction, TLAPS

-----------------------------------------------------------------------------
(* Induction, over a set of numbers instead of a predicate *)

\* A set of numbers with 0 and every successor is all of them.
LEMMA NumbersFromZero ==
    ASSUME NEW T \in SUBSET Nat, 0 \in T, \A n \in T : n + 1 \in T
    PROVE  \A n \in Nat : n \in T
<1> DEFINE Less == OpToRel(<, Nat)
           Rest == Nat \ T
<1>1. SUFFICES ASSUME Rest # {} PROVE FALSE
  OBVIOUS
<1>2. IsWellFoundedOn(Less, Nat)
  BY NatLessThanWellFounded
<1>3. PICK x \in Rest : \A y \in Rest : ~ (<<y, x>> \in Less)
  <2> HIDE DEF Less
  <2> QED
    BY <1>1, <1>2, WFMin
<1>4. \A y \in Nat : y < x => <<y, x>> \in Less
  BY DEF OpToRel
<1> HIDE DEF Less
<1>5. x - 1 \in Nat /\ x - 1 < x
  OBVIOUS
<1>6. x - 1 \in T
  BY <1>3, <1>4, <1>5
<1> QED
  BY <1>6

\* A bounded set of numbers has a greatest one.
LEMMA GreatestOfNumbers ==
    ASSUME NEW S \in SUBSET Nat, S # {}, NEW bound \in Nat, \A x \in S : x <= bound
    PROVE  Max(S) \in S /\ \A x \in S : x <= Max(S)
<1> DEFINE Below(n) == {x \in S : x <= n}
           HasGreatest(U) == \E x \in U : \A y \in U : y <= x
           T == {n \in Nat : Below(n) = {} \/ HasGreatest(Below(n))}
<1>1. 0 \in T
  <2>1. \A x \in Below(0) : x = 0
    OBVIOUS
  <2>2. Below(0) = {} \/ HasGreatest(Below(0))
    BY <2>1
  <2> QED
    BY <2>2
<1>2. ASSUME NEW n \in T PROVE n + 1 \in T
  <2>1. n \in Nat /\ (Below(n) = {} \/ HasGreatest(Below(n)))
    BY <1>2
  <2>2. CASE n + 1 \in S
    <3>1. n + 1 \in Below(n + 1) /\ \A y \in Below(n + 1) : y <= n + 1
      BY <2>1, <2>2
    <3> QED
      BY <2>1, <3>1
  <2>3. CASE n + 1 \notin S
    <3>1. Below(n + 1) = Below(n)
      <4>1. \A x \in S : x <= n + 1 <=> x <= n
        BY <2>1, <2>3
      <4> QED
        BY <4>1
    <3> HIDE DEF Below, HasGreatest
    <3> QED
      BY <2>1, <3>1
  <2> QED
    BY <2>2, <2>3
<1>3. bound \in T
  <2> HIDE DEF T
  <2>1. T \in SUBSET Nat
    BY DEF T
  <2> QED
    BY <1>1, <1>2, <2>1, NumbersFromZero
<1>4. Below(bound) = S
  OBVIOUS
<1>5. PICK x \in S : \A y \in S : y <= x
  BY <1>3, <1>4
<1>6. x \in S /\ \A y \in S : x >= y
  BY <1>5
<1>7. Max(S) \in S /\ \A y \in S : Max(S) >= y
  BY <1>6 DEF Max
<1> QED
  BY <1>7

\* A number of a set that no other exceeds is the greatest.
LEMMA GreatestIs ==
    ASSUME NEW S \in SUBSET Nat, NEW n \in S, \A x \in S : x <= n
    PROVE  Max(S) = n
<1>1. Max(S) \in S /\ \A x \in S : x <= Max(S)
  <2>1. n \in Nat /\ S # {}
    OBVIOUS
  <2> QED
    BY <2>1, GreatestOfNumbers
<1>2. Max(S) \in Nat /\ n \in Nat /\ Max(S) <= n /\ n <= Max(S)
  BY <1>1
<1> QED
  BY <1>2

-----------------------------------------------------------------------------
(* The recursion behind SumOf *)

Some(s) == CHOOSE x \in s : TRUE

\* The sum over s, from the sums over smaller sets.
Step(f, g, s) == IF s = {} THEN 0 ELSE f[Some(s)] + g[s \ {Some(s)}]

\* g holds the sums of f over the subsets of S.
SumsUp(f, g, S) == g \in [SUBSET S -> Int] /\ \A s \in SUBSET S : g[s] = Step(f, g, s)

\* A function whose values can be summed up.
Summable(f) ==
    /\ f = [k \in DOMAIN f |-> f[k]]
    /\ IsFiniteSet(DOMAIN f)
    /\ \A k \in DOMAIN f : f[k] \in Int

\* The element that is taken from a set is one of it, and leaves it smaller.
LEMMA SomeIsOne ==
    ASSUME NEW S, IsFiniteSet(S), NEW s \in SUBSET S, s # {}
    PROVE  /\ Some(s) \in s
           /\ s \ {Some(s)} \in SUBSET S
           /\ Cardinality(s) \in Nat
           /\ Cardinality(s \ {Some(s)}) = Cardinality(s) - 1
<1>1. Some(s) \in s
  BY DEF Some
<1>2. IsFiniteSet(s)
  BY FS_Subset
<1> QED
  BY <1>1, <1>2, FS_RemoveElement, FS_CardinalityType

\* The sums exist.
LEMMA SumsExist ==
    ASSUME NEW f, Summable(f)
    PROVE  \E g : SumsUp(f, g, DOMAIN f)
<1> DEFINE S == DOMAIN f
           Small(n) == {s \in SUBSET S : Cardinality(s) <= n}
           UpTo(n, g) == g \in [Small(n) -> Int] /\ \A s \in Small(n) : g[s] = Step(f, g, s)
           T == {n \in Nat : \E g : UpTo(n, g)}
<1>1. IsFiniteSet(S)
  BY DEF Summable
<1>2. 0 \in T
  <2>1. \A s \in Small(0) : s = {}
    <3>1. SUFFICES ASSUME NEW s \in SUBSET S, Cardinality(s) <= 0 PROVE s = {}
      OBVIOUS
    <3>2. IsFiniteSet(s)
      BY <1>1, FS_Subset
    <3>3. Cardinality(s) = 0
      BY <3>1, <3>2, FS_CardinalityType
    <3> QED
      BY <3>2, <3>3, FS_EmptySet
  <2>2. UpTo(0, [s \in Small(0) |-> 0])
    BY <2>1 DEF Step
  <2> QED
    BY <2>2
<1>3. ASSUME NEW n \in T PROVE n + 1 \in T
  <2>1. PICK g : UpTo(n, g)
    BY <1>3
  <2> DEFINE h == [s \in Small(n + 1) |-> Step(f, g, s)]
  <2>2. n \in Nat
    BY <1>3
  <2>3. \A s \in Small(n + 1) : s # {} => s \ {Some(s)} \in Small(n) /\ Some(s) \in S
    BY <1>1, <2>2, SomeIsOne
  <2>4. \A s \in Small(n) : s \in Small(n + 1) /\ h[s] = g[s]
    <3>1. \A s \in SUBSET S : Cardinality(s) \in Nat
      BY <1>1, FS_Subset, FS_CardinalityType
    <3>2. \A s \in Small(n) : s \in Small(n + 1)
      BY <2>2, <3>1
    <3> QED
      BY <2>1, <3>2
  <2>5. \A s \in Small(n + 1) : h[s] \in Int
    BY <2>1, <2>3 DEF Step, Summable
  <2>6. \A s \in Small(n + 1) : h[s] = Step(f, h, s)
    BY <2>3, <2>4 DEF Step
  <2>7. UpTo(n + 1, h)
    BY <2>5, <2>6
  <2> HIDE DEF h, UpTo
  <2> QED
    BY <2>2, <2>7
<1>4. Cardinality(S) \in Nat
  BY <1>1, FS_CardinalityType
<1>5. Cardinality(S) \in T
  <2> HIDE DEF T
  <2> QED
    BY <1>2, <1>3, <1>4, NumbersFromZero DEF T
<1>6. Small(Cardinality(S)) = SUBSET S
  BY <1>1, FS_Subset
<1>7. PICK g : UpTo(Cardinality(S), g)
  BY <1>5
<1> QED
  BY <1>6, <1>7 DEF SumsUp

\* The sums are determined by the values.
LEMMA SumsAgree ==
    ASSUME NEW S, IsFiniteSet(S), NEW e, NEW f, \A x \in S : e[x] = f[x],
           NEW g, \A s \in SUBSET S : g[s] = Step(e, g, s),
           NEW h, \A s \in SUBSET S : h[s] = Step(f, h, s)
    PROVE  \A s \in SUBSET S : g[s] = h[s]
<1> DEFINE T == {n \in Nat : \A s \in SUBSET S : Cardinality(s) = n => g[s] = h[s]}
<1>1. 0 \in T
  <2>1. SUFFICES ASSUME NEW s \in SUBSET S, Cardinality(s) = 0 PROVE g[s] = h[s]
    OBVIOUS
  <2>2. s = {}
    BY <2>1, FS_Subset, FS_EmptySet
  <2> QED
    BY <2>2 DEF Step
<1>2. ASSUME NEW n \in T PROVE n + 1 \in T
  <2>1. n \in Nat /\ \A s \in SUBSET S : Cardinality(s) = n => g[s] = h[s]
    BY <1>2
  <2>2. SUFFICES ASSUME NEW s \in SUBSET S, Cardinality(s) = n + 1 PROVE g[s] = h[s]
    BY <2>1
  <2>3. s # {}
    BY <2>1, <2>2, FS_EmptySet
  <2>4. Some(s) \in S /\ s \ {Some(s)} \in SUBSET S /\ Cardinality(s \ {Some(s)}) = n
    BY <2>1, <2>2, <2>3, SomeIsOne
  <2>5. g[s \ {Some(s)}] = h[s \ {Some(s)}]
    BY <2>1, <2>4
  <2>6. g[s] = Step(e, g, s) /\ h[s] = Step(f, h, s)
    OBVIOUS
  <2> QED
    BY <2>3, <2>4, <2>5, <2>6 DEF Step
<1>3. \A n \in Nat : n \in T
  <2> HIDE DEF T
  <2>1. T \in SUBSET Nat
    BY DEF T
  <2> QED
    BY <1>1, <1>2, <2>1, NumbersFromZero
<1>4. SUFFICES ASSUME NEW s \in SUBSET S PROVE g[s] = h[s]
  OBVIOUS
<1>5. Cardinality(s) \in Nat
  BY FS_Subset, FS_CardinalityType
<1> QED
  BY <1>3, <1>5

\* SumOf is one of them.
LEMMA SumIsSum ==
    ASSUME NEW f, Summable(f)
    PROVE  \E g : SumsUp(f, g, DOMAIN f) /\ SumOf(f) = g[DOMAIN f]
<1> DEFINE S == DOMAIN f
           Rec(g) == g = [s \in SUBSET S |->
                             IF s = {} THEN 0
                             ELSE f[CHOOSE x \in s : TRUE] + g[s \ {CHOOSE x \in s : TRUE}]]
           G == CHOOSE g : Rec(g)
<1>1. SumOf(f) = G[S]
  BY DEF SumOf, MapThenSumSet, MapThenFoldSet
<1>2. PICK g : SumsUp(f, g, S)
  BY SumsExist
<1>3. Rec(g)
  BY <1>2 DEF SumsUp, Step, Some
<1>4. Rec(G)
  <2> HIDE DEF Rec
  <2> QED
    BY <1>3
<1>5. \A s \in SUBSET S : G[s] = Step(f, G, s)
  <2> HIDE DEF G
  <2> QED
    BY <1>4 DEF Step, Some
<1>6. G[S] = g[S]
  <2> HIDE DEF G
  <2> QED
    BY <1>2, <1>5, SumsAgree DEF Summable, SumsUp
<1> QED
  BY <1>1, <1>2, <1>6

\* Any element may be taken out of a sum first.
LEMMA TakeOut ==
    ASSUME NEW f, Summable(f), NEW g, SumsUp(f, g, DOMAIN f)
    PROVE  \A s \in SUBSET DOMAIN f : \A x \in s : g[s] = f[x] + g[s \ {x}]
<1> DEFINE S == DOMAIN f
           Any(s) == \A x \in s : g[s] = f[x] + g[s \ {x}]
           T == {n \in Nat : \A s \in SUBSET S : Cardinality(s) = n => Any(s)}
<1>1. IsFiniteSet(S) /\ \A k \in S : f[k] \in Int
  BY DEF Summable
<1>2. \A s \in SUBSET S : g[s] \in Int /\ g[s] = Step(f, g, s)
  BY DEF SumsUp
<1>3. 0 \in T
  <2>1. \A s \in SUBSET S : Cardinality(s) = 0 => s = {}
    BY <1>1, FS_Subset, FS_EmptySet
  <2> QED
    BY <2>1
<1>4. ASSUME NEW n \in T PROVE n + 1 \in T
  <2>1. n \in Nat /\ \A s \in SUBSET S : Cardinality(s) = n => Any(s)
    BY <1>4
  <2>2. SUFFICES ASSUME NEW s \in SUBSET S, Cardinality(s) = n + 1, NEW x \in s
                 PROVE  g[s] = f[x] + g[s \ {x}]
    BY <2>1
  <2> DEFINE c == Some(s)
  <2>3. c \in s /\ s \ {c} \in SUBSET S /\ Cardinality(s \ {c}) = n
    BY <1>1, <2>1, <2>2, SomeIsOne
  <2>4. g[s] = f[c] + g[s \ {c}]
    BY <1>2, <2>2 DEF Step
  <2> HIDE DEF c
  <2>5. CASE x = c
    BY <2>4, <2>5
  <2>6. CASE x # c
    <3>1. g[s \ {c}] = f[x] + g[(s \ {c}) \ {x}]
      BY <2>1, <2>3, <2>6
    <3>2. Cardinality(s \ {x}) = n /\ s \ {x} \in SUBSET S
      <4>1. IsFiniteSet(s)
        BY <1>1, FS_Subset
      <4> QED
        BY <2>1, <2>2, <4>1, FS_RemoveElement
    <3>3. g[s \ {x}] = f[c] + g[(s \ {x}) \ {c}]
      BY <2>1, <2>3, <2>6, <3>2
    <3>4. (s \ {x}) \ {c} = (s \ {c}) \ {x}
      OBVIOUS
    <3>5. f[x] \in Int /\ f[c] \in Int /\ g[(s \ {c}) \ {x}] \in Int
      BY <1>1, <1>2, <2>3
    <3>6. g[s \ {x}] = f[c] + g[(s \ {c}) \ {x}]
      BY <3>3, <3>4
    <3> HIDE DEF S
    <3> QED
      BY <2>4, <3>1, <3>5, <3>6
  <2> QED
    BY <2>5, <2>6
<1>5. \A n \in Nat : n \in T
  <2> HIDE DEF T
  <2>1. T \in SUBSET Nat
    BY DEF T
  <2> QED
    BY <1>3, <1>4, <2>1, NumbersFromZero
<1>6. \A s \in SUBSET S : Cardinality(s) \in Nat
  BY <1>1, FS_Subset, FS_CardinalityType
<1> QED
  BY <1>5, <1>6

-----------------------------------------------------------------------------
(* The laws *)

\* A sum of integers is one.
LEMMA SumType ==
    ASSUME NEW f, Summable(f)
    PROVE  SumOf(f) \in Int
<1>1. PICK g : SumsUp(f, g, DOMAIN f) /\ SumOf(f) = g[DOMAIN f]
  BY SumIsSum
<1> QED
  BY <1>1 DEF SumsUp

\* The sum of nothing.
LEMMA SumEmpty ==
    ASSUME NEW f, f = <<>>
    PROVE  Summable(f) /\ SumOf(f) = 0
<1>1. DOMAIN f = {} /\ Summable(f)
  BY FS_EmptySet DEF Summable
<1> QED
  BY <1>1, SumIsSum DEF SumsUp, Step

\* A function without one of its values.
LEMMA SumRemove ==
    ASSUME NEW f, Summable(f), NEW x \in DOMAIN f,
           NEW e, e = [k \in DOMAIN f \ {x} |-> f[k]]
    PROVE  /\ Summable(e)
           /\ SumOf(e) = SumOf(f) - f[x]
<1>1. IsFiniteSet(DOMAIN f) /\ \A k \in DOMAIN f : f[k] \in Int
  BY DEF Summable
<1>2. DOMAIN e = DOMAIN f \ {x} /\ \A k \in DOMAIN e : e[k] = f[k]
  OBVIOUS
<1>3. Summable(e)
  <2>1. IsFiniteSet(DOMAIN e)
    BY <1>1, <1>2, FS_RemoveElement
  <2> QED
    BY <1>1, <1>2, <2>1 DEF Summable
<1>4. PICK g : SumsUp(f, g, DOMAIN f) /\ SumOf(f) = g[DOMAIN f]
  BY SumIsSum
<1>5. PICK h : SumsUp(e, h, DOMAIN e) /\ SumOf(e) = h[DOMAIN e]
  BY <1>3, SumIsSum
<1>6. h[DOMAIN e] = g[DOMAIN e]
  <2>1. \A s \in SUBSET DOMAIN e : g[s] = Step(f, g, s) /\ h[s] = Step(e, h, s)
    BY <1>2, <1>4, <1>5 DEF SumsUp
  <2>2. IsFiniteSet(DOMAIN e) /\ \A k \in DOMAIN e : f[k] = e[k]
    BY <1>2, <1>3 DEF Summable
  <2> DEFINE D == DOMAIN e
  <2>3. \A s \in SUBSET D : g[s] = h[s]
    <3> HIDE DEF D
    <3>1. \A s \in SUBSET D : g[s] = Step(f, g, s) /\ h[s] = Step(e, h, s)
      BY <2>1 DEF D
    <3>2. IsFiniteSet(D) /\ \A k \in D : f[k] = e[k]
      BY <2>2 DEF D
    <3> QED
      BY ONLY <3>1, <3>2, SumsAgree
  <2> QED
    BY <2>3
<1>7. g[DOMAIN f] = f[x] + g[DOMAIN f \ {x}]
  BY <1>4, TakeOut
<1>8. g[DOMAIN f \ {x}] \in Int /\ f[x] \in Int
  BY <1>1, <1>4 DEF SumsUp
<1> QED
  BY <1>2, <1>3, <1>4, <1>5, <1>6, <1>7, <1>8

\* A function with one value more.
LEMMA SumAdd ==
    ASSUME NEW f, Summable(f), NEW x, x \notin DOMAIN f, NEW v \in Int,
           NEW e, e = [k \in DOMAIN f \cup {x} |-> IF k = x THEN v ELSE f[k]]
    PROVE  Summable(e) /\ SumOf(e) = SumOf(f) + v
<1>1. /\ DOMAIN e = DOMAIN f \cup {x} /\ e[x] = v /\ \A k \in DOMAIN f : e[k] = f[k]
      /\ \A k \in DOMAIN e : e[k] \in Int
  BY DEF Summable
<1>2. Summable(e)
  <2>1. IsFiniteSet(DOMAIN e)
    BY <1>1, FS_AddElement DEF Summable
  <2> QED
    BY <1>1, <2>1 DEF Summable
<1>3. f = [k \in DOMAIN e \ {x} |-> e[k]]
  <2>1. f = [k \in DOMAIN f |-> f[k]]
    BY DEF Summable
  <2>2. DOMAIN e \ {x} = DOMAIN f
    BY <1>1
  <2>3. [k \in DOMAIN e \ {x} |-> e[k]] = [k \in DOMAIN f |-> f[k]]
    BY <1>1, <2>2
  <2> QED
    BY <2>1, <2>3
<1>4. SumOf(f) = SumOf(e) - v
  <2>1. x \in DOMAIN e /\ e[x] = v
    BY <1>1
  <2> QED
    BY ONLY <1>2, <1>3, <2>1, SumRemove
<1> QED
  BY <1>2, <1>4, SumType

\* A function with one value changed.
LEMMA SumChange ==
    ASSUME NEW f, Summable(f), NEW x \in DOMAIN f, NEW v \in Int,
           NEW e, e = [k \in DOMAIN f |-> IF k = x THEN v ELSE f[k]]
    PROVE  Summable(e) /\ SumOf(e) = SumOf(f) - f[x] + v
<1> DEFINE r == [k \in DOMAIN f \ {x} |-> f[k]]
<1>1. Summable(r) /\ SumOf(r) = SumOf(f) - f[x]
  BY SumRemove
<1>2. e = [k \in DOMAIN r \cup {x} |-> IF k = x THEN v ELSE r[k]]
  OBVIOUS
<1>3. x \notin DOMAIN r
  OBVIOUS
<1> HIDE DEF r
<1>4. f[x] \in Int
  BY DEF Summable
<1> QED
  BY <1>1, <1>2, <1>3, <1>4, SumAdd
=============================================================================
