--------------------------- MODULE RegistryProofs ---------------------------
(***************************************************************************)
(* The permutation of Cipher undoes itself with the steps reversed, for    *)
(* strings of whole blocks of any length, over any characters; and what an *)
(* account registers is what the matcher reads, for all accounts and texts *)
(* and any number of calls.                                                *)
(***************************************************************************)
EXTENDS Registry, Integers, SumProofs, SequenceTheorems

-----------------------------------------------------------------------------
(* The permutation *)

\* Where the i-th character of a reversed string of n characters comes from.
From(n, len, i) == n - len * (((i - 1) \div len) + 1) + ((i - 1) % len) + 1

StepSizes == {1, 2, 3, 5, 6}

\* Slices of a step's size fill whole blocks, and a character that moved
\* moves back.
LEMMA FromTwice ==
    ASSUME NEW n \in Nat, n % 30 = 0, NEW len \in StepSizes, NEW i \in 1 .. n
    PROVE  From(n, len, i) \in 1 .. n /\ From(n, len, From(n, len, i)) = i
<1>1. CASE len = 1
  BY <1>1 DEF From
<1>2. CASE len = 2
  BY <1>2 DEF From
<1>3. CASE len = 3
  BY <1>3 DEF From
<1>4. CASE len = 5
  BY <1>4 DEF From
<1>5. CASE len = 6
  BY <1>5 DEF From
<1> QED
  BY <1>1, <1>2, <1>3, <1>4, <1>5 DEF StepSizes

\* No character is left over.
LEMMA WholeSlices ==
    ASSUME NEW n \in Nat, n % 30 = 0, NEW len \in StepSizes
    PROVE  len * (n \div len) = n
<1>1. CASE len = 1
  BY <1>1
<1>2. CASE len = 2
  BY <1>2
<1>3. CASE len = 3
  BY <1>3
<1>4. CASE len = 5
  BY <1>4
<1>5. CASE len = 6
  BY <1>5
<1> QED
  BY <1>1, <1>2, <1>3, <1>4, <1>5 DEF StepSizes

\* Strings of whole blocks
Blocks(C) == {s \in Seq(C) : Len(s) % 30 = 0}

\* A reversed string, character by character.
LEMMA ReversedString ==
    ASSUME NEW C, NEW s \in Blocks(C), NEW len \in StepSizes
    PROVE  /\ ReverseString(s, len) = [i \in 1 .. Len(s) |-> s[From(Len(s), len, i)]]
           /\ ReverseString(s, len) \in Blocks(C)
           /\ Len(ReverseString(s, len)) = Len(s)
<1>1. Len(s) \in Nat /\ Len(s) % 30 = 0 /\ s \in Seq(C)
  BY DEF Blocks
<1>2. ReverseString(s, len) = [i \in 1 .. Len(s) |-> s[From(Len(s), len, i)]]
  BY <1>1, WholeSlices DEF ReverseString, From
<1>3. \A i \in 1 .. Len(s) : s[From(Len(s), len, i)] \in C
  BY <1>1, FromTwice
<1>4. ReverseString(s, len) \in [1 .. Len(s) -> C]
  BY <1>2, <1>3
<1> QED
  BY <1>1, <1>2, <1>4 DEF Blocks

\* Reversing with one step twice changes nothing.
LEMMA ReversedTwice ==
    ASSUME NEW C, NEW s \in Blocks(C), NEW len \in StepSizes
    PROVE  ReverseString(ReverseString(s, len), len) = s
<1> DEFINE n == Len(s)
           r == ReverseString(s, len)
<1>1. n \in Nat /\ n % 30 = 0 /\ s \in Seq(C)
  BY DEF Blocks
<1>2. r = [i \in 1 .. n |-> s[From(n, len, i)]] /\ r \in Blocks(C) /\ Len(r) = n
  BY ReversedString
<1>3. ReverseString(r, len) = [i \in 1 .. n |-> r[From(n, len, i)]]
  <2> HIDE DEF r, n
  <2>1. r \in Blocks(C) /\ Len(r) = n
    BY <1>2
  <2>2. \A t \in Blocks(C) :
           ReverseString(t, len) = [i \in 1 .. Len(t) |-> t[From(Len(t), len, i)]]
    BY ReversedString
  <2>3. ReverseString(r, len) = [i \in 1 .. Len(r) |-> r[From(Len(r), len, i)]]
    BY <2>1, <2>2
  <2> QED
    BY <2>1, <2>3
<1>4. \A i \in 1 .. n : r[From(n, len, i)] = s[i]
  BY <1>1, <1>2, FromTwice
<1>5. s = [i \in 1 .. n |-> s[i]]
  BY <1>1
<1>6. [i \in 1 .. n |-> r[From(n, len, i)]] = [i \in 1 .. n |-> s[i]]
  BY <1>4
<1> HIDE DEF r, n
<1>7. ReverseString(r, len) = s
  BY <1>3, <1>5, <1>6
<1> QED
  BY <1>7 DEF r

\* What the steps of pwd_seq_nums are.
LEMMA StepsAre ==
    /\ Steps[1] = 1 /\ Steps[2] = 2 /\ Steps[3] = 3 /\ Steps[4] = 5 /\ Steps[5] = 6
BY DEF Steps

\* Scrambling whole blocks keeps their length and loses nothing: the matcher
\* unscrambles what the plugin scrambled, whatever the length of the text.
THEOREM ScrambleInverse ==
    \A C : \A s \in Blocks(C) :
        Scrambled(s) \in Blocks(C) /\ Len(Scrambled(s)) = Len(s) /\ Unscrambled(Scrambled(s)) = s
<1> SUFFICES ASSUME NEW C, NEW s \in Blocks(C)
             PROVE  /\ Scrambled(s) \in Blocks(C) /\ Len(Scrambled(s)) = Len(s)
                    /\ Unscrambled(Scrambled(s)) = s
  OBVIOUS
<1> DEFINE s1 == ReverseString(s, 1)
           s2 == ReverseString(s1, 2)
           s3 == ReverseString(s2, 3)
           s4 == ReverseString(s3, 5)
           s5 == ReverseString(s4, 6)
<1>1. {1, 2, 3, 5, 6} = StepSizes
  BY DEF StepSizes
<1>2. s1 \in Blocks(C) /\ Len(s1) = Len(s) /\ ReverseString(s1, 1) = s
  BY <1>1, ReversedString, ReversedTwice
<1>3. s2 \in Blocks(C) /\ Len(s2) = Len(s) /\ ReverseString(s2, 2) = s1
  BY <1>1, <1>2, ReversedString, ReversedTwice
<1>4. s3 \in Blocks(C) /\ Len(s3) = Len(s) /\ ReverseString(s3, 3) = s2
  BY <1>1, <1>3, ReversedString, ReversedTwice
<1>5. s4 \in Blocks(C) /\ Len(s4) = Len(s) /\ ReverseString(s4, 5) = s3
  BY <1>1, <1>4, ReversedString, ReversedTwice
<1>6. s5 \in Blocks(C) /\ Len(s5) = Len(s) /\ ReverseString(s5, 6) = s4
  BY <1>1, <1>5, ReversedString, ReversedTwice
<1>7. Scrambled(s) = s5
  BY StepsAre DEF Scrambled
<1>8. Unscrambled(s5) = s
  BY <1>2, <1>3, <1>4, <1>5, <1>6, StepsAre DEF Unscrambled
<1> QED
  BY <1>6, <1>7, <1>8

-----------------------------------------------------------------------------
(* The length of a block: that a recursive function has the value that its *)
(* definition names is proved by induction on the second number *)

\* Positive numbers, and pairs of them
Pos == Nat \ {0}
Pairs == Pos \X Pos

\* What Euclid's algorithm does with a pair, if h gives the result for the next.
Euclid(h, p) == IF p[1] % p[2] = 0 THEN p[2] ELSE h[<<p[2], p[1] % p[2]>>]

\* h is the result up to a bound on the second number.
GcdTo(n, h) ==
    h \in [Pairs -> Pos] /\ \A p \in Pairs : p[2] <= n => h[p] = Euclid(h, p)

\* The second number becomes smaller.
LEMMA NextPair ==
    ASSUME NEW p \in Pairs, p[1] % p[2] # 0
    PROVE  /\ <<p[2], p[1] % p[2]>> \in Pairs
           /\ p[1] % p[2] \in Nat /\ p[1] % p[2] < p[2] /\ p[2] \in Pos
<1>1. p[1] \in Nat /\ p[2] \in Nat /\ p[2] > 0
  BY DEF Pairs, Pos
<1>2. p[1] % p[2] \in Nat /\ p[1] % p[2] < p[2]
  BY <1>1
<1> QED
  BY <1>1, <1>2 DEF Pairs, Pos

\* There is one for every bound.
LEMMA GcdExists == \A n \in Nat : \E h : GcdTo(n, h)
<1> DEFINE T == {n \in Nat : \E h : GcdTo(n, h)}
<1>1. 0 \in T
  <2>1. \A p \in Pairs : ~ (p[2] <= 0)
    BY DEF Pairs, Pos
  <2>2. [p \in Pairs |-> 1] \in [Pairs -> Pos]
    BY DEF Pos
  <2>3. GcdTo(0, [p \in Pairs |-> 1])
    BY <2>1, <2>2 DEF GcdTo
  <2> QED
    BY <2>3
<1>2. ASSUME NEW n \in T PROVE n + 1 \in T
  <2>1. PICK g : GcdTo(n, g)
    BY <1>2
  <2> DEFINE h == [p \in Pairs |-> IF p[2] <= n THEN g[p] ELSE Euclid(g, p)]
  <2>2. n \in Nat
    BY <1>2
  <2>3. \A p \in Pairs : Euclid(g, p) \in Pos
    BY <2>1, NextPair DEF GcdTo, Euclid, Pairs
  <2>4. h \in [Pairs -> Pos]
    BY <2>1, <2>3 DEF GcdTo
  <2>5. ASSUME NEW p \in Pairs, p[2] <= n + 1 PROVE h[p] = Euclid(h, p)
    <3>1. h[p] = Euclid(g, p)
      BY <2>1 DEF GcdTo
    <3>2. CASE p[1] % p[2] = 0
      BY <3>1, <3>2 DEF Euclid
    <3>3. CASE p[1] % p[2] # 0
      <4> DEFINE q == <<p[2], p[1] % p[2]>>
      <4>1. q \in Pairs /\ q[2] <= n
        <5>1. q \in Pairs /\ q[2] \in Nat /\ q[2] < p[2] /\ p[2] \in Nat
          BY <3>3, NextPair DEF Pos
        <5> QED
          BY <2>2, <2>5, <5>1
      <4>2. h[q] = g[q]
        BY <4>1
      <4> HIDE DEF h
      <4> QED
        BY <3>1, <3>3, <4>2 DEF Euclid
    <3> QED
      BY <3>2, <3>3
  <2>6. GcdTo(n + 1, h)
    BY <2>4, <2>5 DEF GcdTo
  <2> HIDE DEF h
  <2> QED
    BY <2>2, <2>6
<1>3. T \in SUBSET Nat
  OBVIOUS
<1> HIDE DEF T
<1>4. \A n \in Nat : n \in T
  BY <1>1, <1>2, <1>3, NumbersFromZero
<1> QED
  BY <1>4 DEF T

\* Two agree as far as both go.
LEMMA GcdsAgree ==
    ASSUME NEW m \in Nat, NEW g, GcdTo(m, g), NEW n \in Nat, NEW h, GcdTo(n, h)
    PROVE  \A p \in Pairs : p[2] <= m /\ p[2] <= n => g[p] = h[p]
<1> DEFINE T == {k \in Nat : \A p \in Pairs : p[2] <= k /\ p[2] <= m /\ p[2] <= n => g[p] = h[p]}
<1>1. 0 \in T
  BY DEF Pairs, Pos
<1>2. ASSUME NEW k \in T PROVE k + 1 \in T
  <2>1. k \in Nat /\ \A p \in Pairs : p[2] <= k /\ p[2] <= m /\ p[2] <= n => g[p] = h[p]
    BY <1>2
  <2>2. SUFFICES ASSUME NEW p \in Pairs, p[2] <= k + 1, p[2] <= m, p[2] <= n PROVE g[p] = h[p]
    BY <2>1
  <2>3. g[p] = Euclid(g, p) /\ h[p] = Euclid(h, p)
    BY <2>2 DEF GcdTo
  <2>4. CASE p[1] % p[2] = 0
    BY <2>3, <2>4 DEF Euclid
  <2>5. CASE p[1] % p[2] # 0
    <3> DEFINE q == <<p[2], p[1] % p[2]>>
    <3>1. q \in Pairs /\ q[2] <= k /\ q[2] <= m /\ q[2] <= n
      <4>1. /\ q \in Pairs /\ q[2] \in Nat /\ q[2] < p[2] /\ p[2] \in Nat
        BY <2>5, NextPair DEF Pos
      <4> QED
        BY <2>1, <2>2, <4>1
    <3>2. g[q] = h[q]
      BY <2>1, <3>1
    <3> QED
      BY <2>3, <2>5, <3>2 DEF Euclid
  <2> QED
    BY <2>4, <2>5
<1>3. T \in SUBSET Nat
  OBVIOUS
<1>4. \A k \in Nat : k \in T
  <2> HIDE DEF T
  <2> QED
    BY <1>1, <1>2, <1>3, NumbersFromZero
<1>5. \A p \in Pairs : p[2] \in Nat /\ p[2] <= p[2]
  BY DEF Pairs, Pos
<1> QED
  BY <1>4, <1>5

\* Euclid's algorithm computes what it says.
LEMMA GcdIs == \A p \in Pairs : gcd[p] = Euclid(gcd, p)
<1> DEFINE To(n) == CHOOSE h : GcdTo(n, h)
           g == [p \in Pairs |-> To(p[2])[p]]
           Rec(h) == h = [p \in Pairs |-> Euclid(h, p)]
<1>1. \A n \in Nat : GcdTo(n, To(n))
  BY GcdExists
<1> HIDE DEF To
<1>2. ASSUME NEW p \in Pairs PROVE g[p] = Euclid(g, p)
  <2>1. p[2] \in Nat
    BY DEF Pairs, Pos
  <2>2. g[p] = Euclid(To(p[2]), p)
    BY <1>1, <2>1 DEF GcdTo
  <2>3. CASE p[1] % p[2] = 0
    BY <2>2, <2>3 DEF Euclid
  <2>4. CASE p[1] % p[2] # 0
    <3> DEFINE q == <<p[2], p[1] % p[2]>>
    <3>1. q \in Pairs /\ q[2] \in Nat /\ q[2] <= p[2] /\ q[2] <= q[2]
      BY <2>1, <2>4, NextPair
    <3>2. To(p[2])[q] = To(q[2])[q]
      <4> HIDE DEF q
      <4> QED
        BY <1>1, <2>1, <3>1, GcdsAgree
    <3>3. g[q] = To(q[2])[q]
      BY <3>1
    <3> HIDE DEF g
    <3> QED
      BY <2>2, <2>4, <3>2, <3>3 DEF Euclid
  <2> QED
    BY <2>3, <2>4
<1>3. Rec(g)
  BY <1>2
<1>4. gcd = CHOOSE h : Rec(h)
  BY DEF gcd, Pairs, Pos, Euclid
<1>5. Rec(gcd)
  <2> HIDE DEF Rec, g
  <2> QED
    BY <1>3, <1>4
<1> QED
  BY <1>5

\* One step of it, with the remainder named.
LEMMA GcdStep ==
    ASSUME NEW x \in Pos, NEW y \in Pos, NEW r, x % y = r
    PROVE  gcd[<<x, y>>] = IF r = 0 THEN y ELSE gcd[<<y, r>>]
<1> DEFINE p == <<x, y>>
<1>1. p \in Pairs /\ p[1] = x /\ p[2] = y
  BY DEF Pairs
<1>2. gcd[p] = Euclid(gcd, p)
  BY <1>1, GcdIs
<1> QED
  BY <1>1, <1>2 DEF Euclid

\* The length of a block.
LEMMA BlockLength == n_hcd = 30
<1>1. /\ 1 \in Pos /\ 2 \in Pos /\ 3 \in Pos /\ 5 \in Pos /\ 6 \in Pos /\ 30 \in Pos
  BY DEF Pos
<1>2. gcd[<<1, 1>>] = 1
  <2>1. 1 % 1 = 0
    OBVIOUS
  <2> QED
    BY <1>1, <2>1, GcdStep
<1>3. gcd[<<2, 1>>] = 1
  <2>1. 2 % 1 = 0
    OBVIOUS
  <2> QED
    BY <1>1, <2>1, GcdStep
<1>4. gcd[<<3, 2>>] = gcd[<<2, 1>>]
  <2>1. 3 % 2 = 1
    OBVIOUS
  <2> QED
    BY <1>1, <2>1, GcdStep
<1>5. gcd[<<5, 6>>] = gcd[<<6, 5>>]
  <2>1. 5 % 6 = 5
    OBVIOUS
  <2> QED
    BY <1>1, <2>1, GcdStep
<1>6. gcd[<<6, 5>>] = gcd[<<5, 1>>]
  <2>1. 6 % 5 = 1
    OBVIOUS
  <2> QED
    BY <1>1, <2>1, GcdStep
<1>7. gcd[<<5, 1>>] = 1
  <2>1. 5 % 1 = 0
    OBVIOUS
  <2> QED
    BY <1>1, <2>1, GcdStep
<1>8. gcd[<<6, 30>>] = gcd[<<30, 6>>]
  <2>1. 6 % 30 = 6
    OBVIOUS
  <2> QED
    BY <1>1, <2>1, GcdStep
<1>9. gcd[<<30, 6>>] = 6
  <2>1. 30 % 6 = 0
    OBVIOUS
  <2> QED
    BY <1>1, <2>1, GcdStep
<1>10. hcd(1, 1) = 1 /\ hcd(2, 1) = 2
  BY <1>2, <1>3 DEF hcd
<1>11. hcd(3, 2) = 6
  BY <1>3, <1>4 DEF hcd
<1>12. hcd(5, 6) = 30
  BY <1>5, <1>6, <1>7 DEF hcd
<1>13. hcd(6, 30) = 30
  BY <1>8, <1>9 DEF hcd
<1>14. Steps[1] = 1 /\ Steps[2] = 2 /\ Steps[3] = 3 /\ Steps[4] = 5 /\ Steps[5] = 6
  BY DEF Steps
<1> QED
  BY <1>10, <1>11, <1>12, <1>13, <1>14 DEF n_hcd

-----------------------------------------------------------------------------
(* What was registered is read *)

\* Padding fills up whole blocks behind the text.
LEMMA PaddedBlocks ==
    ASSUME NEW C, NEW s \in Seq(C), NEW p \in C
    PROVE  /\ Pad(s, p) \in Blocks(C) /\ Len(Pad(s, p)) > Len(s)
           /\ \A i \in 1 .. Len(s) : Pad(s, p)[i] = s[i]
           /\ \A i \in Len(s) + 1 .. Len(Pad(s, p)) : Pad(s, p)[i] = p
<1> DEFINE k == 30 - (Len(s) % 30)
           t == [i \in 1 .. k |-> p]
<1>1. Len(s) \in Nat /\ k \in Nat /\ k > 0 /\ (Len(s) + k) % 30 = 0
  OBVIOUS
<1>2. t \in Seq(C) /\ Len(t) = k /\ \A i \in 1 .. k : t[i] = p
  BY <1>1
<1>3. Pad(s, p) = s \o t
  BY BlockLength DEF Pad
<1> HIDE DEF k, t
<1>4. s \o t \in Seq(C) /\ Len(s \o t) = Len(s) + k
  BY <1>2
<1>5. \A i \in 1 .. Len(s) : (s \o t)[i] = s[i]
  BY <1>2
<1>6. \A i \in Len(s) + 1 .. Len(s) + k : (s \o t)[i] = p
  <2>1. \A i \in Len(s) + 1 .. Len(s) + k : i - Len(s) \in 1 .. k
    BY <1>1
  <2>2. \A i \in Len(s) + 1 .. Len(s) + k : (s \o t)[i] = t[i - Len(s)]
    BY <1>1, <1>2
  <2> QED
    BY <1>2, <2>1, <2>2
<1> DEFINE r == s \o t
<1>7. r \in Blocks(C) /\ Len(r) > Len(s)
  BY <1>1, <1>4 DEF Blocks
<1>8. \A i \in Len(s) + 1 .. Len(r) : r[i] = p
  BY <1>4, <1>6
<1> HIDE DEF r
<1>9. Pad(s, p) = r /\ \A i \in 1 .. Len(s) : r[i] = s[i]
  BY <1>3, <1>5 DEF r
<1> QED
  BY <1>7, <1>8, <1>9

\* What the matcher unscrambles begins with the text that was registered,
\* whatever its length.
THEOREM RegisteredIsRead ==
    ASSUME NEW C, NEW s \in Seq(C), NEW p \in C, NEW i \in 1 .. Len(s)
    PROVE  Unscrambled(Scrambled(Pad(s, p)))[i] = s[i]
BY PaddedBlocks, ScrambleInverse

-----------------------------------------------------------------------------
(* Recursion over the places of a sequence *)

\* Induction up to a bound.
LEMMA UpTo ==
    ASSUME NEW N \in Nat, NEW T, 0 \in T, \A n \in 1 .. N : n - 1 \in T => n \in T
    PROVE  \A n \in 0 .. N : n \in T
<1> DEFINE U == {n \in Nat : n <= N => n \in T}
<1>1. 0 \in U
  OBVIOUS
<1>2. ASSUME NEW n \in U PROVE n + 1 \in U
  <2>1. n + 1 <= N => n + 1 \in 1 .. N /\ n <= N /\ (n + 1) - 1 = n
    OBVIOUS
  <2> QED
    BY <2>1
<1>3. U \in SUBSET Nat
  OBVIOUS
<1>4. \A n \in Nat : n \in U
  <2> HIDE DEF U
  <2> QED
    BY <1>1, <1>2, <1>3, NumbersFromZero
<1> QED
  BY <1>4

\* A function over the places of a sequence that starts with base and goes on
\* by step
GoesOn(A, base, N, step, f) ==
    /\ f \in [0 .. N -> A] /\ f[0] = base
    /\ \A n \in 1 .. N : f[n] = step[<<f[n - 1], n>>]

\* There is one for every step.
LEMMA PrefixFunction ==
    ASSUME NEW A, NEW base \in A, NEW N \in Nat, NEW step \in [A \X (1 .. N) -> A]
    PROVE  \E f : GoesOn(A, base, N, step, f)
<1> DEFINE Good(m, f) == /\ f \in [0 .. N -> A] /\ f[0] = base
                         /\ \A n \in 1 .. N : n <= m => f[n] = step[<<f[n - 1], n>>]
           T == {m \in Nat : \E f : Good(m, f)}
<1>1. 0 \in T
  <2>1. Good(0, [n \in 0 .. N |-> base])
    OBVIOUS
  <2> QED
    BY <2>1
<1>2. ASSUME NEW m \in T PROVE m + 1 \in T
  <2>1. PICK f : Good(m, f)
    BY <1>2
  <2>2. m \in Nat
    BY <1>2
  <2>3. CASE m + 1 \in 1 .. N
    <3> DEFINE g == [f EXCEPT ![m + 1] = step[<<f[m], m + 1>>]]
    <3>1. f[m] \in A /\ step[<<f[m], m + 1>>] \in A
      BY <2>1, <2>2, <2>3
    <3>2. g \in [0 .. N -> A] /\ g[0] = base
      <4>1. 0 \in 0 .. N /\ 0 # m + 1
        BY <2>2
      <4>2. f \in [0 .. N -> A] /\ f[0] = base
        BY <2>1
      <4> HIDE DEF Good
      <4> QED
        BY <3>1, <4>1, <4>2
    <3>3. ASSUME NEW n \in 1 .. N, n <= m + 1 PROVE g[n] = step[<<g[n - 1], n>>]
      <4>1. CASE n = m + 1
        <5>1. n - 1 = m /\ m \in 0 .. N /\ m # m + 1
          BY <2>2, <4>1
        <5>2. g[n] = step[<<f[m], m + 1>>] /\ g[n - 1] = f[m]
          BY <2>1, <2>3, <4>1, <5>1
        <5> QED
          BY <4>1, <5>1, <5>2
      <4>2. CASE n # m + 1
        <5>1. n <= m /\ n - 1 \in 0 .. N /\ n - 1 # m + 1
          BY <2>2, <3>3, <4>2
        <5>2. g[n] = f[n] /\ g[n - 1] = f[n - 1]
          BY <2>1, <4>2, <5>1
        <5> QED
          BY <2>1, <5>1, <5>2
      <4> QED
        BY <4>1, <4>2
    <3>4. Good(m + 1, g)
      BY <3>2, <3>3
    <3> HIDE DEF g, Good
    <3> QED
      BY <2>2, <3>4
  <2>4. CASE m + 1 \notin 1 .. N
    <3>1. Good(m + 1, f)
      BY <2>1, <2>2, <2>4
    <3> HIDE DEF Good
    <3> QED
      BY <2>2, <3>1
  <2> QED
    BY <2>3, <2>4
<1> HIDE DEF Good
<1>3. T \in SUBSET Nat
  OBVIOUS
<1>4. \A m \in Nat : m \in T
  <2> HIDE DEF T
  <2> QED
    BY <1>1, <1>2, <1>3, NumbersFromZero
<1>5. PICK f : Good(N, f)
  BY <1>4
<1>6. \A n \in 1 .. N : n <= N
  OBVIOUS
<1>7. f \in [0 .. N -> A] /\ f[0] = base /\ \A n \in 1 .. N : f[n] = step[<<f[n - 1], n>>]
  BY <1>5, <1>6 DEF Good
<1> QED
  BY <1>7 DEF GoesOn

-----------------------------------------------------------------------------
(* Strings *)

Text == Seq(Characters)

\* One character more in the last part, or one part more.
NextParts(before, c, separators) ==
    IF c \in separators THEN Append(before, <<>>)
    ELSE [before EXCEPT ![Len(before)] = Append(@, c)]

\* f gives the parts of what begins a text, up to each place.
PartsOf(s, separators, f) ==
    /\ f \in [0 .. Len(s) -> Seq(Text) \ {<<>>}]
    /\ f[0] = << <<>> >>
    /\ \A n \in 1 .. Len(s) : f[n] = NextParts(f[n - 1], s[n], separators)
    /\ Split(s, separators) = f[Len(s)]

\* Such a function exists, and Split is its last value.
LEMMA SplitIs ==
    ASSUME NEW s \in Text, NEW separators
    PROVE  \E f : PartsOf(s, separators, f)
<1> DEFINE A == Seq(Text) \ {<<>>}
           N == Len(s)
           base == << <<>> >>
           step == [p \in A \X (1 .. N) |-> NextParts(p[1], s[p[2]], separators)]
           Rec(f) == f = [n \in 0 .. N |-> IF n = 0 THEN base
                                           ELSE NextParts(f[n - 1], s[n], separators)]
<1>1. N \in Nat /\ base \in A
  BY DEF Text
<1>2. ASSUME NEW b \in A, NEW n \in 1 .. N PROVE NextParts(b, s[n], separators) \in A
  <2>1. s[n] \in Characters
    BY DEF Text
  <2>2. Len(b) \in 1 .. Len(b) /\ b[Len(b)] \in Text /\ b \in Seq(Text)
    OBVIOUS
  <2>3. Append(b, <<>>) \in A
    BY <2>2 DEF Text
  <2>4. Append(b[Len(b)], s[n]) \in Text
    BY <2>1, <2>2 DEF Text
  <2>5. [b EXCEPT ![Len(b)] = Append(b[Len(b)], s[n])] \in A
    <3> DEFINE x == Append(b[Len(b)], s[n])
    <3>1. x \in Text
      BY <2>4
    <3> HIDE DEF x
    <3>2. [b EXCEPT ![Len(b)] = x] \in Seq(Text) /\ Len([b EXCEPT ![Len(b)] = x]) = Len(b)
      BY <2>2, <3>1
    <3>3. [b EXCEPT ![Len(b)] = x] # <<>>
      BY <2>2, <3>2
    <3> QED
      BY <3>2, <3>3 DEF x
  <2> QED
    BY <2>3, <2>5 DEF NextParts
<1>3. step \in [A \X (1 .. N) -> A]
  BY <1>2
<1>4. PICK f : GoesOn(A, base, N, step, f)
  <2> HIDE DEF A, N, base, step
  <2> QED
    BY <1>1, <1>3, PrefixFunction
<1>5. \A n \in 1 .. N : step[<<f[n - 1], n>>] = NextParts(f[n - 1], s[n], separators)
  <2>1. ASSUME NEW n \in 1 .. N PROVE <<f[n - 1], n>> \in A \X (1 .. N)
    <3>1. n - 1 \in 0 .. N
      BY <1>1
    <3> HIDE DEF A
    <3> QED
      BY <1>4, <3>1 DEF GoesOn
  <2> HIDE DEF A, N
  <2> QED
    BY <2>1
<1>6. Rec(f)
  <2>1. \A n \in 0 .. N : n # 0 => n \in 1 .. N
    BY <1>1
  <2> HIDE DEF A, N, base, step
  <2> QED
    BY <1>4, <1>5, <2>1 DEF GoesOn
<1> DEFINE h == CHOOSE g : Rec(g)
<1>7. Split(s, separators) = h[N]
  BY DEF Split, NextParts
<1>8. Rec(h)
  <2> HIDE DEF Rec
  <2> QED
    BY <1>6
<1>9. \A n \in 1 .. N : h[n] = NextParts(h[n - 1], s[n], separators)
  <2>1. \A n \in 1 .. N : n \in 0 .. N /\ n # 0
    BY <1>1
  <2> HIDE DEF h
  <2> QED
    BY <1>8, <2>1
<1>10. h[0] = base /\ DOMAIN h = 0 .. N /\ h = [n \in 0 .. N |-> h[n]]
  <2> HIDE DEF h
  <2> QED
    BY <1>1, <1>8
<1>11. \A n \in 0 .. N : h[n] \in A
  <2> DEFINE T == {n \in 0 .. N : h[n] \in A}
  <2>1. 0 \in T
    <3> HIDE DEF h, A, N
    <3> QED
      BY <1>1, <1>10
  <2>2. ASSUME NEW n \in 1 .. N, n - 1 \in T PROVE n \in T
    <3> HIDE DEF h, A
    <3> QED
      BY <1>1, <1>2, <1>9, <2>2
  <2> HIDE DEF T
  <2>3. \A n \in 0 .. N : n \in T
    <3> HIDE DEF N
    <3> QED
      BY <1>1, <2>1, <2>2, UpTo
  <2> QED
    BY <2>3 DEF T
<1>12. PartsOf(s, separators, h)
  <2> HIDE DEF h
  <2> QED
    BY <1>7, <1>9, <1>10, <1>11 DEF PartsOf
<1> QED
  BY <1>12

\* A character after the ones that were read; an escape becomes one.
NextRead(before, c) ==
    IF before # <<>> /\ Last(before) = "%" /\ c \in {"j", "l"}
    THEN Append(Front(before), IF c = "j" THEN Comma ELSE ":")
    ELSE Append(before, c)

\* f gives what was read up to each place.
ReadOf(s, f) ==
    /\ f \in [0 .. Len(s) -> Text]
    /\ f[0] = <<>>
    /\ \A n \in 1 .. Len(s) : f[n] = NextRead(f[n - 1], s[n])
    /\ Unescaped(s) = f[Len(s)]

\* What was read is a text, and not the empty one.
LEMMA NextReadType ==
    ASSUME NEW b \in Text, NEW c \in Characters
    PROVE  NextRead(b, c) \in Text \ {<<>>}
<1>1. ASSUME NEW t \in Text, NEW d \in Characters
      PROVE  Append(t, d) \in Text \ {<<>>}
  <2>1. Append(t, d) \in Seq(Characters) /\ Append(t, d) # <<>>
    BY AppendProperties DEF Text
  <2> QED
    BY <2>1 DEF Text
<1>2. b # <<>> => Front(b) \in Text
  BY DEF Text, Front
<1>3. Comma \in Characters /\ ":" \in Characters
  BY RegistryAssumption
<1> QED
  BY <1>1, <1>2, <1>3 DEF NextRead

\* Such a function exists, and Unescaped is its last value.
LEMMA UnescapedIs ==
    ASSUME NEW s \in Text
    PROVE  \E f : ReadOf(s, f)
<1> DEFINE N == Len(s)
           base == <<>>
           step == [p \in Text \X (1 .. N) |-> NextRead(p[1], s[p[2]])]
           Rec(f) == f = [n \in 0 .. N |-> IF n = 0 THEN base ELSE NextRead(f[n - 1], s[n])]
<1>1. N \in Nat /\ base \in Text /\ \A n \in 1 .. N : s[n] \in Characters
  BY DEF Text
<1>2. step \in [Text \X (1 .. N) -> Text]
  BY <1>1, NextReadType
<1>3. PICK f : GoesOn(Text, base, N, step, f)
  <2> HIDE DEF N, base, step
  <2> QED
    BY <1>1, <1>2, PrefixFunction
<1>4. \A n \in 1 .. N : step[<<f[n - 1], n>>] = NextRead(f[n - 1], s[n])
  <2>1. \A n \in 1 .. N : n - 1 \in 0 .. N
    BY <1>1
  <2>2. \A n \in 1 .. N : <<f[n - 1], n>> \in Text \X (1 .. N)
    BY <1>3, <2>1 DEF GoesOn
  <2> HIDE DEF N
  <2> QED
    BY <2>2
<1>5. Rec(f)
  <2>1. \A n \in 0 .. N : n # 0 => n \in 1 .. N
    BY <1>1
  <2> HIDE DEF N, base, step
  <2> QED
    BY <1>3, <1>4, <2>1 DEF GoesOn
<1> DEFINE h == CHOOSE g : Rec(g)
<1>6. Unescaped(s) = h[N]
  BY DEF Unescaped, NextRead
<1>7. Rec(h)
  <2> HIDE DEF Rec
  <2> QED
    BY <1>5
<1>8. \A n \in 1 .. N : h[n] = NextRead(h[n - 1], s[n])
  <2>1. \A n \in 1 .. N : n \in 0 .. N /\ n # 0
    BY <1>1
  <2> HIDE DEF h
  <2> QED
    BY <1>7, <2>1
<1>9. h[0] = base /\ h = [n \in 0 .. N |-> h[n]]
  <2> HIDE DEF h
  <2> QED
    BY <1>1, <1>7
<1>10. \A n \in 0 .. N : h[n] \in Text
  <2> DEFINE T == {n \in 0 .. N : h[n] \in Text}
  <2> HIDE DEF h, N
  <2>1. 0 \in T
    BY <1>1, <1>9
  <2>2. ASSUME NEW n \in 1 .. N, n - 1 \in T PROVE n \in T
    <3>1. h[n - 1] \in Text /\ n \in 0 .. N /\ s[n] \in Characters
      BY <1>1, <2>2
    <3>2. h[n] \in Text
      BY <1>8, <3>1, NextReadType
    <3> QED
      BY <3>1, <3>2
  <2> HIDE DEF T
  <2>3. \A n \in 0 .. N : n \in T
    BY <1>1, <2>1, <2>2, UpTo
  <2> QED
    BY <2>3 DEF T
<1>11. ReadOf(s, h)
  <2> HIDE DEF h
  <2> QED
    BY <1>6, <1>8, <1>9, <1>10 DEF ReadOf
<1> QED
  BY <1>11

\* One character more of a text.
LEMMA Longer ==
    ASSUME NEW s \in Text, NEW n \in 1 .. Len(s)
    PROVE  /\ SubSeq(s, 1, n - 1) \in Text
           /\ SubSeq(s, 1, n) = Append(SubSeq(s, 1, n - 1), s[n])
<1>1. s \in Seq(Characters) /\ 1 \in 1 .. Len(s) /\ n \in 1 .. Len(s)
  BY DEF Text
<1>2. SubSeq(s, 1, n) = SubSeq(s, 1, n - 1) \o <<s[n]>>
  BY <1>1, SubSeqRecursiveSecond
<1>3. SubSeq(s, 1, n - 1) \in Seq(Characters) /\ s[n] \in Characters
  BY <1>1
<1> QED
  BY <1>2, <1>3, AppendIsConcat DEF Text

\* A text without escapes is read as it is.
LEMMA UnescapedPlain ==
    ASSUME NEW s \in Text, \A i \in 1 .. Len(s) : s[i] # "%"
    PROVE  Unescaped(s) = s
<1>1. PICK f : ReadOf(s, f)
  BY UnescapedIs
<1> DEFINE T == {n \in 0 .. Len(s) : f[n] = SubSeq(s, 1, n)}
<1>2. 0 \in T
  <2>1. SubSeq(s, 1, 0) = <<>> /\ 0 \in 0 .. Len(s)
    BY SubSeqEmpty DEF Text
  <2> QED
    BY <1>1, <2>1 DEF ReadOf
<1>3. ASSUME NEW n \in 1 .. Len(s), n - 1 \in T PROVE n \in T
  <2> DEFINE b == SubSeq(s, 1, n - 1)
  <2>1. f[n] = NextRead(b, s[n])
    BY <1>1, <1>3 DEF ReadOf
  <2>2. b # <<>> => Last(b) # "%"
    BY DEF Last, Text
  <2>3. f[n] = Append(b, s[n])
    BY <2>1, <2>2 DEF NextRead
  <2>4. f[n] = SubSeq(s, 1, n) /\ n \in 0 .. Len(s)
    BY <2>3, Longer
  <2> QED
    BY <2>4
<1>4. Len(s) \in Nat
  BY DEF Text
<1>5. \A n \in 0 .. Len(s) : n \in T
  <2> HIDE DEF T
  <2> QED
    BY <1>2, <1>3, <1>4, UpTo
<1>6. f[Len(s)] = SubSeq(s, 1, Len(s))
  BY <1>4, <1>5
<1> QED
  BY <1>1, <1>6 DEF ReadOf, Text

\* A text without separators is one part.
LEMMA OnePart ==
    ASSUME NEW s \in Text, NEW separators, \A i \in 1 .. Len(s) : s[i] \notin separators
    PROVE  Split(s, separators) = <<s>>
<1>1. PICK f : PartsOf(s, separators, f)
  BY SplitIs
<1> DEFINE T == {n \in 0 .. Len(s) : f[n] = <<SubSeq(s, 1, n)>>}
<1>2. 0 \in T
  <2>1. SubSeq(s, 1, 0) = <<>> /\ 0 \in 0 .. Len(s)
    BY SubSeqEmpty DEF Text
  <2> QED
    BY <1>1, <2>1 DEF PartsOf
<1>3. ASSUME NEW n \in 1 .. Len(s), n - 1 \in T PROVE n \in T
  <2> DEFINE b == SubSeq(s, 1, n - 1)
  <2>1. f[n] = NextParts(<<b>>, s[n], separators)
    BY <1>1, <1>3 DEF PartsOf
  <2>2. NextParts(<<b>>, s[n], separators) = <<Append(b, s[n])>>
    <3> HIDE DEF b
    <3> QED
      BY DEF NextParts
  <2>3. f[n] = <<SubSeq(s, 1, n)>> /\ n \in 0 .. Len(s)
    <3>1. SubSeq(s, 1, n) = Append(b, s[n])
      BY Longer
    <3>2. n \in 0 .. Len(s)
      BY DEF Text
    <3> HIDE DEF b
    <3> QED
      BY <2>1, <2>2, <3>1, <3>2
  <2> QED
    BY <2>3
<1>4. Len(s) \in Nat
  BY DEF Text
<1>5. \A n \in 0 .. Len(s) : n \in T
  <2> HIDE DEF T
  <2> QED
    BY <1>2, <1>3, <1>4, UpTo
<1>6. f[Len(s)] = <<SubSeq(s, 1, Len(s))>>
  BY <1>4, <1>5
<1> QED
  BY <1>1, <1>6 DEF PartsOf, Text

\* Characters behind a text that it does not have are erased.
LEMMA ErasedEnd ==
    ASSUME NEW s \in Text, NEW c, NEW k \in 0 .. Len(s),
           \A i \in 1 .. k : s[i] # c, \A i \in k + 1 .. Len(s) : s[i] = c
    PROVE  Erased(s, c) = SubSeq(s, 1, k)
<1> DEFINE N == Len(s)
           Rec(f) == f = [n \in 0 .. N |->
                             IF n = 0 THEN <<>>
                             ELSE IF s[n] = c THEN f[n - 1] ELSE Append(f[n - 1], s[n])]
           Kept(n) == SubSeq(s, 1, IF n <= k THEN n ELSE k)
           g == [n \in 0 .. N |-> Kept(n)]
<1>1. N \in Nat /\ k \in Nat /\ k <= N
  BY DEF Text
<1>2. Kept(0) = <<>>
  BY <1>1, SubSeqEmpty
<1>3. ASSUME NEW n \in 1 .. N
      PROVE  Kept(n) = IF s[n] = c THEN Kept(n - 1) ELSE Append(Kept(n - 1), s[n])
  <2>1. CASE n <= k
    <3>1. Kept(n) = SubSeq(s, 1, n) /\ Kept(n - 1) = SubSeq(s, 1, n - 1) /\ s[n] # c
      BY <1>1, <2>1
    <3> HIDE DEF Kept
    <3> QED
      BY <3>1, Longer
  <2>2. CASE n > k
    <3>1. Kept(n) = SubSeq(s, 1, k) /\ Kept(n - 1) = SubSeq(s, 1, k) /\ s[n] = c
      BY <1>1, <2>2
    <3> HIDE DEF Kept
    <3> QED
      BY <3>1
  <2> QED
    BY <1>1, <2>1, <2>2
<1> HIDE DEF Kept
<1>4. Rec(g)
  <2>1. \A n \in 0 .. N : n # 0 => n \in 1 .. N /\ n - 1 \in 0 .. N
    BY <1>1
  <2> HIDE DEF N
  <2> QED
    BY <1>2, <1>3, <2>1
<1> DEFINE h == CHOOSE f : Rec(f)
<1>5. Erased(s, c) = h[N]
  BY DEF Erased
<1>6. Rec(h)
  <2> HIDE DEF Rec, g
  <2> QED
    BY <1>4
<1> DEFINE T == {n \in 0 .. N : h[n] = Kept(n)}
<1>7. \A n \in 0 .. N : n \in T
  <2> HIDE DEF h, N
  <2>1. 0 \in T
    BY <1>1, <1>2, <1>6
  <2>2. ASSUME NEW n \in 1 .. N, n - 1 \in T PROVE n \in T
    <3>1. h[n] = IF s[n] = c THEN h[n - 1] ELSE Append(h[n - 1], s[n])
      <4>1. n \in 0 .. N /\ n # 0
        BY <1>1
      <4> QED
        BY <1>6, <4>1
    <3>2. n \in 0 .. N /\ h[n - 1] = Kept(n - 1)
      BY <1>1, <2>2
    <3> QED
      BY <1>3, <3>1, <3>2
  <2> HIDE DEF T
  <2> QED
    BY <1>1, <2>1, <2>2, UpTo
<1>8. Erased(s, c) = Kept(N)
  <2> HIDE DEF h, N
  <2> QED
    BY <1>1, <1>5, <1>7
<1> QED
  BY <1>1, <1>8 DEF Kept

-----------------------------------------------------------------------------
(* What the plugin makes of a text, and the matcher of that *)

Encrypted(text) == Unescaped(encrypt_wltpwd(text))

\* The first part of a text is a text.
LEMMA FirstPart ==
    ASSUME NEW s \in Text, NEW separators
    PROVE  Split(s, separators)[1] \in Text
<1>1. PICK f : PartsOf(s, separators, f)
  BY SplitIs
<1>2. Len(s) \in 0 .. Len(s)
  BY DEF Text
<1>3. Split(s, separators) \in Seq(Text) \ {<<>>}
  BY <1>1, <1>2 DEF PartsOf
<1> QED
  BY <1>3

\* It is never the empty text, which would remove the row.
LEMMA EncryptedType ==
    ASSUME NEW t \in Text
    PROVE  Encrypted(t) \in Text \ {<<>>}
<1> DEFINE p == Pad(Split(t, {Comma})[1], Padding)
           s == Scrambled(p)
<1>1. Padding \in Characters
  BY RegistryAssumption DEF Padding
<1>2. p \in Blocks(Characters) /\ Len(p) > 0
  <2>1. Split(t, {Comma})[1] \in Seq(Characters)
    BY FirstPart DEF Text
  <2> DEFINE u == Split(t, {Comma})[1]
  <2> HIDE DEF u
  <2>2. u \in Seq(Characters)
    BY <2>1 DEF u
  <2>3. Pad(u, Padding) \in Blocks(Characters) /\ Len(Pad(u, Padding)) > Len(u)
    BY <1>1, <2>2, PaddedBlocks
  <2>4. Pad(u, Padding) \in Seq(Characters)
    BY <2>3 DEF Blocks
  <2> QED
    BY <2>2, <2>3, <2>4 DEF u
<1> HIDE DEF p
<1>3. s \in Blocks(Characters) /\ Len(s) = Len(p)
  BY <1>2, ScrambleInverse
<1>4. s \in Text /\ Len(s) \in 1 .. Len(s)
  BY <1>2, <1>3 DEF Blocks, Text
<1> HIDE DEF s
<1>5. PICK f : ReadOf(s, f)
  BY <1>4, UnescapedIs
<1>6. Unescaped(s) = NextRead(f[Len(s) - 1], s[Len(s)]) /\ f[Len(s) - 1] \in Text
  BY <1>4, <1>5 DEF ReadOf, Text
<1>7. Unescaped(s) \in Text \ {<<>>}
  <2>1. s[Len(s)] \in Characters
    BY <1>4 DEF Text
  <2> QED
    BY <1>6, <2>1, NextReadType
<1> QED
  BY <1>7 DEF Encrypted, encrypt_wltpwd, s, p

\* A plain text comes back.
LEMMA RoundTrip ==
    ASSUME NEW t \in Text, Plain(t)
    PROVE  Decrypted(Encrypted(t)) = t
<1> DEFINE C == Characters \ {"%"}
           p == Pad(t, Padding)
           s == Scrambled(p)
<1>0. /\ t \in Seq(Characters)
      /\ \A i \in 1 .. Len(t) : t[i] # Padding /\ t[i] # "%" /\ t[i] # Comma
  <2>1. t \in Seq(Characters) /\ DOMAIN t = 1 .. Len(t)
    BY DEF Text
  <2>2. \A i \in DOMAIN t : t[i] # Padding /\ t[i] # "%" /\ t[i] # Comma
    BY DEF Plain
  <2> QED
    BY <2>1, <2>2
<1>1. t \in Seq(C) /\ Padding \in C /\ C \subseteq Characters
  <2>1. \A i \in 1 .. Len(t) : t[i] \in C
    BY <1>0
  <2>2. Padding \in C
    BY RegistryAssumption DEF Padding
  <2> QED
    BY <1>0, <2>1, <2>2
<1>2. /\ p \in Blocks(C) /\ Len(p) > Len(t)
      /\ \A i \in 1 .. Len(t) : p[i] = t[i]
      /\ \A i \in Len(t) + 1 .. Len(p) : p[i] = Padding
  <2> HIDE DEF C
  <2> QED
    BY <1>1, PaddedBlocks
<1>3. s \in Blocks(C) /\ Unscrambled(s) = p
  <2> HIDE DEF C, p
  <2> QED
    BY <1>2, ScrambleInverse
<1>4. Encrypted(t) = s
  <2>1. Split(t, {Comma}) = <<t>>
    <3>1. \A i \in 1 .. Len(t) : t[i] \notin {Comma}
      BY <1>0
    <3> QED
      BY <3>1, OnePart
  <2>2. encrypt_wltpwd(t) = s
    <3>1. Split(t, {Comma})[1] = t
      BY <2>1
    <3> QED
      BY <3>1 DEF encrypt_wltpwd
  <2>3. s \in Text /\ \A i \in 1 .. Len(s) : s[i] # "%"
    <3> HIDE DEF s
    <3> QED
      BY <1>3 DEF Blocks, Text
  <2> HIDE DEF s
  <2> QED
    BY <2>2, <2>3, UnescapedPlain DEF Encrypted
<1>5. p \in Text /\ Len(t) \in 0 .. Len(p)
  <2> HIDE DEF p
  <2> QED
    BY <1>2 DEF Blocks, Text
<1>6. \A i \in 1 .. Len(t) : t[i] # Padding
  BY <1>0
<1>7. Erased(p, Padding) = SubSeq(p, 1, Len(t))
  <2> HIDE DEF p
  <2> QED
    BY <1>2, <1>5, <1>6, ErasedEnd
<1>8. SubSeq(p, 1, Len(t)) = t
  <2> HIDE DEF p
  <2> QED
    BY <1>2, <1>5 DEF Text
<1> QED
  BY <1>3, <1>4, <1>7, <1>8 DEF Decrypted

-----------------------------------------------------------------------------
(* The table *)

\* A row exists while its account has registered nothing directly, and is what
\* the plugin makes of the one text that was registered, if it is one.
RegistryInv ==
    /\ wltpwd \in [DOMAIN wltpwd -> Text \ {<<>>}]
    /\ calls \in [Accounts -> Seq({"plugin", "direct"} \X Texts)]
    /\ \A a \in Accounts : calls[a] = <<>> => a \notin DOMAIN wltpwd
    /\ \A a \in Accounts, t \in Texts :
           ToSet(calls[a]) = {<<"plugin", t>>} =>
               a \in DOMAIN wltpwd /\ wltpwd[a] = Encrypted(t)

IInv == TypeOK /\ RegistryInv

\* A text lies within itself.
LEMMA WithinItself ==
    ASSUME NEW t \in Text
    PROVE  Within(t, t)
<1>1. SubSeq(t, 0 + 1, 0 + Len(t)) = t /\ 0 \in 0 .. Len(t) - Len(t)
  BY SubSeqFull DEF Text
<1> QED
  BY <1>1 DEF Within

\* What swlt does to the rows.
LEMMA SwltRows ==
    ASSUME TypeOK, wltpwd \in [DOMAIN wltpwd -> Text \ {<<>>}],
           NEW a \in Accounts, NEW s \in Text, Swlt(a, s)
    PROVE  /\ DOMAIN wltpwd' \subseteq Accounts
           /\ wltpwd' \in [DOMAIN wltpwd' -> Text \ {<<>>}]
           /\ \A b \in Accounts \ {a} : /\ b \in DOMAIN wltpwd' <=> b \in DOMAIN wltpwd
                                        /\ b \in DOMAIN wltpwd => wltpwd'[b] = wltpwd[b]
           /\ s = <<>> => a \notin DOMAIN wltpwd'
           /\ s # <<>> => a \in DOMAIN wltpwd'
           /\ s # <<>> /\ a \notin DOMAIN wltpwd => wltpwd'[a] = s
           /\ s # <<>> /\ a \in DOMAIN wltpwd /\ wltpwd[a] = s => wltpwd'[a] = s
<1>1. CASE s = <<>>
  <2>1. wltpwd' = [b \in DOMAIN wltpwd \ {a} |-> wltpwd[b]]
    BY <1>1 DEF Swlt
  <2> QED
    BY <1>1, <2>1 DEF TypeOK
<1>2. CASE s # <<>> /\ a \notin DOMAIN wltpwd
  <2>1. wltpwd' = [b \in DOMAIN wltpwd \union {a} |-> IF b = a THEN s ELSE wltpwd[b]]
    BY <1>2 DEF Swlt
  <2> QED
    BY <1>2, <2>1 DEF TypeOK
<1>3. CASE s # <<>> /\ a \in DOMAIN wltpwd
  <2> DEFINE new == IF Within(s, wltpwd[a]) THEN wltpwd[a]
                    ELSE wltpwd[a] \o <<Comma>> \o s
  <2>1. wltpwd' = [wltpwd EXCEPT ![a] = new]
    BY <1>3 DEF Swlt
  <2>2. new \in Text \ {<<>>}
    <3>1. wltpwd[a] \in Text \ {<<>>} /\ Comma \in Characters
      BY <1>3, RegistryAssumption
    <3>2. \A x, y \in Text, c \in Characters : y # <<>> => x \o <<c>> \o y \in Text \ {<<>>}
      <4> SUFFICES ASSUME NEW x \in Text, NEW y \in Text, NEW c \in Characters, y # <<>>
                   PROVE  x \o <<c>> \o y \in Text \ {<<>>}
        OBVIOUS
      <4>1. x \in Seq(Characters) /\ y \in Seq(Characters) /\ <<c>> \in Seq(Characters)
        BY DEF Text
      <4> DEFINE z == x \o <<c>>
      <4>2. z \in Seq(Characters) /\ Len(z) = Len(x) + 1
        BY <4>1
      <4> HIDE DEF z
      <4>3. z \o y \in Seq(Characters) /\ Len(z \o y) > 0
        BY <4>1, <4>2
      <4> QED
        BY <4>3 DEF Text, z
    <3> QED
      BY <1>3, <3>1, <3>2
  <2>3. wltpwd[a] = s => new = s
    BY WithinItself
  <2> HIDE DEF new
  <2> QED
    BY <1>3, <2>1, <2>2, <2>3 DEF TypeOK
<1> QED
  BY <1>1, <1>2, <1>3

\* One call more that was made through the plugin with one text.
LEMMA OneText ==
    ASSUME NEW S, NEW q \in Seq(S), NEW c \in S, NEW d \in S
    PROVE  /\ Append(q, c) # <<>>
           /\ ToSet(Append(q, c)) = {d} => c = d /\ (q = <<>> \/ ToSet(q) = {d})
<1>1. /\ Len(q) \in Nat /\ Append(q, c) # <<>>
      /\ Len(Append(q, c)) = Len(q) + 1 /\ Append(q, c)[Len(q) + 1] = c
      /\ \A i \in 1 .. Len(q) : Append(q, c)[i] = q[i]
      /\ DOMAIN Append(q, c) = 1 .. Len(q) + 1 /\ DOMAIN q = 1 .. Len(q)
  BY AppendProperties
<1>2. ToSet(Append(q, c)) = ToSet(q) \union {c}
  BY <1>1 DEF ToSet
<1>3. q # <<>> => q[1] \in ToSet(q)
  BY <1>1 DEF ToSet
<1> QED
  BY <1>1, <1>2, <1>3

\* No call was made.
LEMMA NoText == \A d : ToSet(<<>>) # {d}
<1>1. DOMAIN <<>> = {}
  OBVIOUS
<1> QED
  BY <1>1 DEF ToSet

\* It is inductive.
LEMMA InitInv == Init => IInv
<1> SUFFICES ASSUME Init PROVE IInv
  OBVIOUS
<1>1. TypeOK
  BY RegistryAssumption DEF Init, TypeOK
<1>2. \A a \in Accounts, t \in Texts : ToSet(calls[a]) # {<<"plugin", t>>}
  BY NoText DEF Init
<1> QED
  BY <1>1, <1>2 DEF Init, IInv, RegistryInv

LEMMA NextInv == IInv /\ [Next]_vars => IInv'
<1> SUFFICES ASSUME IInv, [Next]_vars PROVE IInv'
  OBVIOUS
<1>1. ASSUME NEW a \in Accounts, NEW s \in Text, NEW route \in {"plugin", "direct"},
             NEW t \in Texts, Count, Swlt(a, s),
             route = "plugin" => s = Encrypted(t),
             calls' = [calls EXCEPT ![a] = Append(@, <<route, t>>)]
      PROVE  IInv'
  <2> DEFINE Call == {"plugin", "direct"} \X Texts
  <2>1. /\ DOMAIN wltpwd' \subseteq Accounts
        /\ wltpwd' \in [DOMAIN wltpwd' -> Text \ {<<>>}]
        /\ \A b \in Accounts \ {a} : /\ b \in DOMAIN wltpwd' <=> b \in DOMAIN wltpwd
                                     /\ b \in DOMAIN wltpwd => wltpwd'[b] = wltpwd[b]
        /\ s # <<>> => a \in DOMAIN wltpwd'
        /\ s # <<>> /\ a \notin DOMAIN wltpwd => wltpwd'[a] = s
        /\ s # <<>> /\ a \in DOMAIN wltpwd /\ wltpwd[a] = s => wltpwd'[a] = s
    BY <1>1, SwltRows DEF IInv, RegistryInv
  <2>2. calls[a] \in Seq(Call) /\ <<route, t>> \in Call
    BY <1>1 DEF IInv, RegistryInv
  <2>3. /\ Append(calls[a], <<route, t>>) \in Seq(Call)
        /\ Append(calls[a], <<route, t>>) # <<>>
        /\ \A u \in Texts : ToSet(Append(calls[a], <<route, t>>)) = {<<"plugin", u>>} =>
               /\ <<route, t>> = <<"plugin", u>>
               /\ calls[a] = <<>> \/ ToSet(calls[a]) = {<<"plugin", u>>}
    <3> DEFINE q == calls[a]
               c == <<route, t>>
    <3>1. \A u \in Texts : <<"plugin", u>> \in Call
      OBVIOUS
    <3> HIDE DEF Call
    <3>2. q \in Seq(Call) /\ c \in Call
      BY <2>2
    <3> HIDE DEF q, c
    <3>3. Append(q, c) \in Seq(Call)
      BY <3>2, AppendProperties
    <3>4. ASSUME NEW u \in Texts
          PROVE  /\ Append(q, c) # <<>>
                 /\ ToSet(Append(q, c)) = {<<"plugin", u>>} =>
                        c = <<"plugin", u>> /\ (q = <<>> \/ ToSet(q) = {<<"plugin", u>>})
      <4> DEFINE d == <<"plugin", u>>
      <4>1. d \in Call
        BY <3>1
      <4> HIDE DEF d
      <4>2. /\ Append(q, c) # <<>>
            /\ ToSet(Append(q, c)) = {d} => c = d /\ (q = <<>> \/ ToSet(q) = {d})
        BY <3>2, <4>1, OneText
      <4> QED
        BY <4>2 DEF d
    <3> QED
      BY <3>3, <3>4 DEF q, c
  <2>4. /\ calls' \in [Accounts -> Seq(Call)]
        /\ calls'[a] = Append(calls[a], <<route, t>>)
        /\ \A b \in Accounts \ {a} : calls'[b] = calls[b]
    BY <1>1, <2>3 DEF IInv, RegistryInv
  <2>5. TypeOK'
    <3>1. count' \in 0 .. MaxCalls
      BY <1>1, RegistryAssumption DEF Count, IInv, TypeOK
    <3> QED
      BY <2>1, <3>1 DEF TypeOK, Text
  <2>6. \A b \in Accounts : calls'[b] = <<>> => b \notin DOMAIN wltpwd'
    BY <2>1, <2>3, <2>4 DEF IInv, RegistryInv
  <2>7. ASSUME NEW b \in Accounts, NEW u \in Texts, ToSet(calls'[b]) = {<<"plugin", u>>}
        PROVE  b \in DOMAIN wltpwd' /\ wltpwd'[b] = Encrypted(u)
    <3>1. CASE b # a
      BY <2>1, <2>4, <2>7, <3>1 DEF IInv, RegistryInv
    <3>2. CASE b = a
      <4>1. /\ route = "plugin" /\ t = u
            /\ calls[a] = <<>> \/ ToSet(calls[a]) = {<<"plugin", u>>}
        BY <2>3, <2>4, <2>7, <3>2
      <4>2. s = Encrypted(u) /\ s # <<>>
        BY <1>1, <4>1, EncryptedType, RegistryAssumption DEF Text
      <4>3. CASE calls[a] = <<>>
        BY <2>1, <3>2, <4>2, <4>3 DEF IInv, RegistryInv
      <4>4. CASE ToSet(calls[a]) = {<<"plugin", u>>}
        BY <2>1, <3>2, <4>2, <4>4 DEF IInv, RegistryInv
      <4> QED
        BY <4>1, <4>3, <4>4
    <3> QED
      BY <3>1, <3>2
  <2> QED
    BY <2>1, <2>4, <2>5, <2>6, <2>7 DEF IInv, RegistryInv
<1>2. ASSUME NEW a \in Accounts, NEW t \in Texts, RegisterByPlugin(a, t)
      PROVE  IInv'
  <2>1. Encrypted(t) \in Text
    BY EncryptedType, RegistryAssumption DEF Text
  <2> QED
    BY <1>1, <1>2, <2>1 DEF RegisterByPlugin, Encrypted
<1>3. ASSUME NEW a \in Accounts, NEW t \in Texts, RegisterDirectly(a, t)
      PROVE  IInv'
  <2>1. t \in Text
    BY RegistryAssumption DEF Text
  <2> QED
    BY <1>1, <1>3, <2>1 DEF RegisterDirectly
<1>4. ASSUME NEW a \in Accounts, RemoveDirectly(a)
      PROVE  IInv'
  <2>1. /\ DOMAIN wltpwd' \subseteq Accounts /\ a \notin DOMAIN wltpwd'
        /\ wltpwd' \in [DOMAIN wltpwd' -> Text \ {<<>>}]
        /\ \A b \in Accounts \ {a} : /\ b \in DOMAIN wltpwd' <=> b \in DOMAIN wltpwd
                                     /\ b \in DOMAIN wltpwd => wltpwd'[b] = wltpwd[b]
    <3>1. <<>> \in Text
      BY DEF Text
    <3> QED
      BY <1>4, <3>1, SwltRows DEF IInv, RegistryInv, RemoveDirectly
  <2>2. /\ calls' \in [Accounts -> Seq({"plugin", "direct"} \X Texts)]
        /\ calls'[a] = <<>> /\ \A b \in Accounts \ {a} : calls'[b] = calls[b]
    BY <1>4 DEF IInv, RegistryInv, RemoveDirectly
  <2>3. TypeOK'
    <3>1. count' \in 0 .. MaxCalls
      BY <1>4, RegistryAssumption DEF RemoveDirectly, Count, IInv, TypeOK
    <3> QED
      BY <2>1, <3>1 DEF TypeOK, Text
  <2>4. \A u \in Texts : ToSet(calls'[a]) # {<<"plugin", u>>}
    BY <2>2, NoText
  <2> QED
    BY <2>1, <2>2, <2>3, <2>4 DEF IInv, RegistryInv
<1>5. CASE UNCHANGED vars
  BY <1>5 DEF vars, IInv, TypeOK, RegistryInv
<1> QED
  BY <1>2, <1>3, <1>4, <1>5 DEF Next

\* The inductive invariant holds.
THEOREM RegistryInvariance == Spec => []IInv
<1> QED
  BY InitInv, NextInv, PTL DEF Spec

\* TypeOK holds for all accounts and texts: surprise_wlt never leaves an empty
\* row.
THEOREM RegistryTypeCorrect == Spec => []TypeOK
<1>1. IInv => TypeOK
  BY DEF IInv
<1> QED
  BY <1>1, RegistryInvariance, PTL

-----------------------------------------------------------------------------
(* What the matcher reads *)

\* What an account registered is what its row is decrypted to.
LEMMA SettledRow ==
    ASSUME IInv, NEW a \in Accounts, Settled(a)
    PROVE  /\ TextOf(a) \in Texts /\ TextOf(a) \in Text
           /\ a \in DOMAIN wltpwd /\ Decrypted(wltpwd[a]) = TextOf(a)
<1>1. PICK t \in Texts : Plain(t) /\ ToSet(calls[a]) = {<<"plugin", t>>}
  BY DEF Settled
<1>2. calls[a] \in Seq({"plugin", "direct"} \X Texts)
  BY DEF IInv, RegistryInv
<1>3. calls[a] # <<>>
  BY <1>1, NoText
<1>4. calls[a][1] \in ToSet(calls[a])
  BY <1>2, <1>3 DEF ToSet
<1>5. TextOf(a) = t
  BY <1>1, <1>4 DEF TextOf
<1>6. a \in DOMAIN wltpwd /\ wltpwd[a] = Encrypted(t)
  BY <1>1 DEF IInv, RegistryInv
<1>7. t \in Text
  BY RegistryAssumption DEF Text
<1> QED
  BY <1>1, <1>5, <1>6, <1>7, RoundTrip

\* Texts joined are a text.
LEMMA JoinType ==
    ASSUME NEW x \in Text, NEW y \in Text, NEW c \in Characters
    PROVE  x \o <<c>> \o y \in Text
<1> DEFINE z == x \o <<c>>
<1>1. x \in Seq(Characters) /\ y \in Seq(Characters) /\ <<c>> \in Seq(Characters)
  BY DEF Text
<1>2. z \in Seq(Characters)
  BY <1>1
<1> HIDE DEF z
<1>3. z \o y \in Seq(Characters)
  BY <1>1, <1>2
<1> QED
  BY <1>3 DEF Text, z

LEMMA JoinedType ==
    ASSUME NEW x \in Text, NEW y \in Text
    PROVE  Joined(x, y) \in Text
BY JoinType, RegistryAssumption DEF Joined

SettledAccounts == {a \in Accounts : Settled(a)}

\* f gives what was read for the accounts up to each place.
DecryptedOf(accts, f) ==
    /\ f \in [0 .. Len(accts) -> Text]
    /\ f[0] = <<>>
    /\ \A n \in 1 .. Len(accts) : f[n] = Joined(f[n - 1], TextOf(accts[n]))
    /\ decrypt_wltpwd(accts) = f[Len(accts)]

\* For settled accounts, the texts are joined one after the other.
LEMMA DecryptIs ==
    ASSUME IInv, NEW accts \in Seq(SettledAccounts)
    PROVE  \E f : DecryptedOf(accts, f)
<1> DEFINE N == Len(accts)
           base == <<>>
           step == [p \in Text \X (1 .. N) |-> Joined(p[1], TextOf(accts[p[2]]))]
           Read(before, a) == IF a \in DOMAIN wltpwd
                              THEN Joined(before, Decrypted(wltpwd[a])) ELSE before
           Rec(f) == f = [n \in 0 .. N |-> IF n = 0 THEN base ELSE Read(f[n - 1], accts[n])]
<1>1. N \in Nat /\ base \in Text
  BY DEF Text
<1>2. \A n \in 1 .. N : /\ TextOf(accts[n]) \in Text
                        /\ \A b : Read(b, accts[n]) = Joined(b, TextOf(accts[n]))
  <2>1. \A n \in 1 .. N : accts[n] \in Accounts /\ Settled(accts[n])
    BY DEF SettledAccounts
  <2> QED
    BY <2>1, SettledRow
<1>3. step \in [Text \X (1 .. N) -> Text]
  BY <1>2, JoinedType
<1>4. PICK f : GoesOn(Text, base, N, step, f)
  <2> HIDE DEF N, base, step
  <2> QED
    BY <1>1, <1>3, PrefixFunction
<1>5. \A n \in 1 .. N : step[<<f[n - 1], n>>] = Read(f[n - 1], accts[n])
  <2>1. \A n \in 1 .. N : n - 1 \in 0 .. N
    BY <1>1
  <2>2. \A n \in 1 .. N : <<f[n - 1], n>> \in Text \X (1 .. N)
    BY <1>4, <2>1 DEF GoesOn
  <2>3. \A n \in 1 .. N : step[<<f[n - 1], n>>] = Joined(f[n - 1], TextOf(accts[n]))
    <3> HIDE DEF N
    <3> QED
      BY <2>2
  <2> HIDE DEF Read, step, N
  <2> QED
    BY <1>2, <2>3
<1>6. Rec(f)
  <2>1. \A n \in 0 .. N : n # 0 => n \in 1 .. N
    BY <1>1
  <2> HIDE DEF N, base, step, Read
  <2> QED
    BY <1>4, <1>5, <2>1 DEF GoesOn
<1> DEFINE h == CHOOSE g : Rec(g)
<1>7. decrypt_wltpwd(accts) = h[N]
  BY DEF decrypt_wltpwd
<1>8. Rec(h)
  <2> HIDE DEF Rec
  <2> QED
    BY <1>6
<1>9. \A n \in 1 .. N : h[n] = Joined(h[n - 1], TextOf(accts[n]))
  <2>1. \A n \in 1 .. N : n \in 0 .. N /\ n # 0
    BY <1>1
  <2>2. \A n \in 1 .. N : h[n] = Read(h[n - 1], accts[n])
    <3> HIDE DEF h, Read
    <3> QED
      BY <1>8, <2>1
  <2> HIDE DEF h, Read, N
  <2> QED
    BY <1>2, <2>2
<1>10. h[0] = base /\ h = [n \in 0 .. N |-> h[n]]
  <2> HIDE DEF h, Read
  <2> QED
    BY <1>1, <1>8
<1>11. \A n \in 0 .. N : h[n] \in Text
  <2> DEFINE T == {n \in 0 .. N : h[n] \in Text}
  <2> HIDE DEF h, N, Read
  <2>1. 0 \in T
    BY <1>1, <1>10
  <2>2. ASSUME NEW n \in 1 .. N, n - 1 \in T PROVE n \in T
    <3>1. h[n - 1] \in Text /\ n \in 0 .. N
      BY <1>1, <2>2
    <3>2. h[n] \in Text
      BY <1>2, <1>9, <3>1, JoinedType
    <3> QED
      BY <3>1, <3>2
  <2> HIDE DEF T
  <2>3. \A n \in 0 .. N : n \in T
    BY <1>1, <2>1, <2>2, UpTo
  <2> QED
    BY <2>3 DEF T
<1>12. DecryptedOf(accts, h)
  <2> HIDE DEF h
  <2> QED
    BY <1>7, <1>9, <1>10, <1>11 DEF DecryptedOf
<1> QED
  BY <1>12

\* ReadsBack holds for all accounts and texts: what an account registered through
\* the plugin is what decrypt_wltpwd reads, whatever the text's length.
THEOREM RegistryReadsBack == Spec => []ReadsBack
<1>1. ASSUME IInv PROVE ReadsBack
  <2> SUFFICES ASSUME NEW a \in Accounts, Settled(a)
               PROVE  decrypt_wltpwd(<<a>>) = TextOf(a)
    BY DEF ReadsBack
  <2>1. <<a>> \in Seq(SettledAccounts) /\ Len(<<a>>) = 1 /\ <<a>>[1] = a
    BY DEF SettledAccounts
  <2>2. PICK f : DecryptedOf(<<a>>, f)
    BY <1>1, <2>1, DecryptIs
  <2>3. f[1] = Joined(f[0], TextOf(a)) /\ f[0] = <<>> /\ decrypt_wltpwd(<<a>>) = f[1]
    BY <2>1, <2>2 DEF DecryptedOf
  <2> QED
    BY <2>3 DEF Joined
<1> QED
  BY <1>1, RegistryInvariance, PTL

-----------------------------------------------------------------------------
(* The wallets in it *)

Separators == {"#", "|"}

\* One character more in the last of several parts.
LEMMA NextOfMore ==
    ASSUME NEW p \in Seq(Text), NEW q \in Seq(Text) \ {<<>>}, NEW c \in Characters
    PROVE  NextParts(p \o q, c, Separators) = p \o NextParts(q, c, Separators)
<1>1. <<>> \in Text /\ p \o q \in Seq(Text)
  BY DEF Text
<1>2. Append(p \o q, <<>>) = p \o Append(q, <<>>)
  BY <1>1
<1> DEFINE m == Len(p)
           k == Len(q)
           x == Append(q[k], c)
<1>3. /\ m \in Nat /\ k \in Nat /\ k > 0 /\ x \in Text
      /\ Len(p \o q) = m + k /\ (p \o q)[m + k] = q[k]
  <2>1. q[k] \in Text
    OBVIOUS
  <2>2. Append(q[k], c) \in Text
    BY <2>1, AppendProperties DEF Text
  <2> QED
    BY <2>2
<1> HIDE DEF x
<1>n. m \in Nat /\ k \in Nat /\ k > 0 /\ x \in Text
  BY <1>3
<1>4. [p \o q EXCEPT ![m + k] = x] = p \o [q EXCEPT ![k] = x]
  <2> DEFINE u == p \o q
             l == [u EXCEPT ![m + k] = x]
             r == [q EXCEPT ![k] = x]
             w == p \o r
  <2>1. /\ r \in Seq(Text) /\ Len(r) = k
        /\ \A i \in 1 .. k : r[i] = IF i = k THEN x ELSE q[i]
    BY <1>3
  <2>2. u \in Seq(Text) /\ Len(u) = m + k
    BY <1>1, <1>3
  <2>3. /\ \A i \in 1 .. m : u[i] = p[i]
        /\ \A i \in m + 1 .. m + k : u[i] = q[i - m]
    OBVIOUS
  <2> HIDE DEF r, u
  <2>4. /\ l \in Seq(Text) /\ Len(l) = m + k
        /\ \A i \in 1 .. m + k : l[i] = IF i = m + k THEN x ELSE u[i]
    BY <1>n, <2>2
  <2>5. w \in Seq(Text) /\ Len(w) = m + k
    BY <2>1
  <2>6. /\ \A i \in 1 .. m : w[i] = p[i]
        /\ \A i \in m + 1 .. m + k : w[i] = r[i - m]
    BY <2>1
  <2> HIDE DEF l, w, m, k
  <2>7. ASSUME NEW i \in 1 .. m + k PROVE l[i] = w[i]
    <3>1. CASE i <= m
      <4>1. i \in 1 .. m /\ i # m + k
        BY <1>n, <3>1
      <4> QED
        BY <2>3, <2>4, <2>6, <4>1
    <3>2. CASE i > m
      <4>1. i \in m + 1 .. m + k /\ i - m \in 1 .. k /\ (i - m = k <=> i = m + k)
        BY <1>n, <3>2
      <4> QED
        BY <2>1, <2>3, <2>4, <2>6, <4>1
    <3> QED
      BY <1>n, <3>1, <3>2
  <2>8. l = w
    BY <2>4, <2>5, <2>7, SeqEqual
  <2> QED
    BY <2>8 DEF l, u, r, w
<1> QED
  BY <1>2, <1>3, <1>4 DEF NextParts, x

\* The characters of two texts with a bar between them.
LEMMA CharactersOfJoin ==
    ASSUME NEW x \in Text, NEW y \in Text
    PROVE  LET s == x \o <<"|">> \o y
               m == Len(x)
               k == Len(y)
           IN  /\ m \in Nat /\ k \in Nat /\ Len(s) = m + 1 + k /\ s[m + 1] = "|"
               /\ \A i \in 1 .. m : s[i] = x[i]
               /\ \A i \in 1 .. k : s[m + 1 + i] = y[i] /\ y[i] \in Characters
<1> DEFINE m == Len(x)
           k == Len(y)
           z == x \o <<"|">>
<1>1. /\ x \in Seq(Characters) /\ y \in Seq(Characters) /\ <<"|">> \in Seq(Characters)
  BY RegistryAssumption DEF Text
<1>2. /\ z \in Seq(Characters) /\ Len(z) = m + 1 /\ z[m + 1] = "|"
      /\ \A i \in 1 .. m : z[i] = x[i]
  BY <1>1
<1> HIDE DEF z
<1>3. /\ Len(z \o y) = m + 1 + k /\ (z \o y)[m + 1] = "|"
      /\ \A i \in 1 .. m : (z \o y)[i] = x[i]
  BY <1>1, <1>2
<1>4. ASSUME NEW i \in 1 .. k PROVE (z \o y)[m + 1 + i] = y[i] /\ y[i] \in Characters
  BY <1>1, <1>2
<1> QED
  BY <1>1, <1>3, <1>4 DEF z

\* The parts of two texts with a bar between them are those of both.
LEMMA PartsOfJoin ==
    ASSUME NEW x \in Text, NEW y \in Text
    PROVE  Split(x \o <<"|">> \o y, Separators) = Split(x, Separators) \o Split(y, Separators)
<1> DEFINE s == x \o <<"|">> \o y
           m == Len(x)
           k == Len(y)
<1>1. "|" \in Characters /\ "|" \in Separators
  BY RegistryAssumption DEF Separators
<1>2. s \in Text
  BY <1>1, JoinType
<1>3. /\ m \in Nat /\ k \in Nat /\ Len(s) = m + 1 + k /\ s[m + 1] = "|"
      /\ \A i \in 1 .. m : s[i] = x[i]
      /\ \A i \in 1 .. k : s[m + 1 + i] = y[i] /\ y[i] \in Characters
  BY CharactersOfJoin
<1>n. /\ m \in Nat /\ k \in Nat /\ Len(s) = m + 1 + k
      /\ Len(x) = m /\ Len(y) = k
  BY <1>3
<1>4. PICK f : PartsOf(s, Separators, f)
  BY <1>2, SplitIs
<1>5. PICK g : PartsOf(x, Separators, g)
  BY SplitIs
<1>6. PICK h : PartsOf(y, Separators, h)
  BY SplitIs
<1> HIDE DEF s, m, k
<1>7. f[m] = g[m]
  <2> DEFINE T == {n \in 0 .. m : f[n] = g[n]}
  <2>1. 0 \in T
    <3>1. f[0] = << <<>> >> /\ g[0] = << <<>> >> /\ 0 \in 0 .. m
      BY <1>n, <1>4, <1>5 DEF PartsOf
    <3> QED
      BY <3>1
  <2>2. ASSUME NEW n \in 1 .. m, n - 1 \in T PROVE n \in T
    <3>1. n \in 0 .. m /\ n \in 1 .. Len(s) /\ n \in 1 .. Len(x) /\ f[n - 1] = g[n - 1]
      BY <1>3, <2>2 DEF m
    <3>2. f[n] = NextParts(f[n - 1], s[n], Separators) /\ g[n] = NextParts(g[n - 1], x[n], Separators)
      BY <1>4, <1>5, <3>1 DEF PartsOf
    <3> QED
      BY <1>3, <3>1, <3>2
  <2> HIDE DEF T
  <2>3. \A n \in 0 .. m : n \in T
    BY <1>3, <2>1, <2>2, UpTo
  <2> QED
    BY <1>3, <2>3 DEF T
<1>8. /\ g[m] \in Seq(Text) /\ Split(x, Separators) = g[m]
      /\ Split(y, Separators) = h[k] /\ Split(s, Separators) = f[m + 1 + k]
      /\ \A n \in 0 .. k : h[n] \in Seq(Text) \ {<<>>}
  <2>1. m \in 0 .. m /\ k \in 0 .. k
    BY <1>n
  <2>2. g[m] \in Seq(Text) /\ Split(x, Separators) = g[m]
    BY <1>n, <1>5, <2>1 DEF PartsOf
  <2>3. Split(y, Separators) = h[k] /\ \A n \in 0 .. k : h[n] \in Seq(Text) \ {<<>>}
    BY <1>n, <1>6, <2>1 DEF PartsOf
  <2>4. Split(s, Separators) = f[m + 1 + k]
    BY <1>n, <1>4 DEF PartsOf
  <2> QED
    BY <2>2, <2>3, <2>4
<1>9. f[m + 1] = g[m] \o << <<>> >>
  <2>1. m + 1 \in 1 .. Len(s) /\ (m + 1) - 1 = m
    BY <1>3
  <2>2. f[m + 1] = NextParts(f[m], "|", Separators)
    BY <1>3, <1>4, <2>1 DEF PartsOf
  <2>3. f[m + 1] = Append(g[m], <<>>)
    BY <1>1, <1>7, <2>2 DEF NextParts
  <2>4. <<>> \in Text
    BY DEF Text
  <2> QED
    BY <1>8, <2>3, <2>4, AppendIsConcat
<1>10. f[m + 1 + k] = g[m] \o h[k]
  <2> DEFINE T == {n \in 0 .. k : f[m + 1 + n] = g[m] \o h[n]}
  <2>1. 0 \in T
    <3>1. h[0] = << <<>> >> /\ m + 1 + 0 = m + 1 /\ 0 \in 0 .. k
      BY <1>n, <1>6 DEF PartsOf
    <3> QED
      BY <1>9, <3>1
  <2>2. ASSUME NEW n \in 1 .. k, n - 1 \in T PROVE n \in T
    <3>1. /\ n \in 0 .. k /\ n - 1 \in 0 .. k /\ m + 1 + n \in 1 .. Len(s)
          /\ (m + 1 + n) - 1 = m + 1 + (n - 1) /\ n \in 1 .. Len(y)
      BY <1>3, <2>2 DEF k
    <3>2. f[m + 1 + (n - 1)] = g[m] \o h[n - 1]
      BY <2>2
    <3>3. f[m + 1 + n] = NextParts(f[m + 1 + (n - 1)], s[m + 1 + n], Separators)
      <4> DEFINE j == m + 1 + n
      <4>1. f[j] = NextParts(f[j - 1], s[j], Separators)
        <5> j \in 1 .. Len(s)
          BY <3>1
        <5> HIDE DEF j
        <5> QED
          BY <1>4 DEF PartsOf
      <4> QED
        BY <3>1, <4>1
    <3>4. h[n] = NextParts(h[n - 1], y[n], Separators)
      BY <1>6, <3>1 DEF PartsOf
    <3>5. y[n] \in Characters /\ s[m + 1 + n] = y[n]
      BY <1>3
    <3>6. NextParts(g[m] \o h[n - 1], y[n], Separators) = g[m] \o NextParts(h[n - 1], y[n], Separators)
      BY <1>8, <3>1, <3>5, NextOfMore
    <3> QED
      BY <3>1, <3>2, <3>3, <3>4, <3>5, <3>6
  <2> HIDE DEF T
  <2>3. \A n \in 0 .. k : n \in T
    BY <1>n, <2>1, <2>2, UpTo
  <2>4. k \in 0 .. k
    BY <1>n
  <2> QED
    BY <2>3, <2>4 DEF T
<1> QED
  BY <1>8, <1>10 DEF s

\* The elements of a sequence, two by two
PairsIn(v) == {<<v[2 * i - 1], v[2 * i]>> : i \in 1 .. Len(v) \div 2}

\* Two sequences of whole pairs have the pairs of both.
LEMMA PairsOfBoth ==
    ASSUME NEW S, NEW v \in Seq(S), NEW w \in Seq(S), Len(v) % 2 = 0, Len(w) % 2 = 0
    PROVE  Len(v \o w) % 2 = 0 /\ PairsIn(v \o w) = PairsIn(v) \union PairsIn(w)
<1> DEFINE m == Len(v) \div 2
           k == Len(w) \div 2
           u == v \o w
<1>1. m \in Nat /\ k \in Nat /\ Len(v) = 2 * m /\ Len(w) = 2 * k
  OBVIOUS
<1>2. /\ Len(u) = 2 * m + 2 * k
      /\ \A i \in 1 .. 2 * m : u[i] = v[i]
      /\ \A i \in 2 * m + 1 .. 2 * m + 2 * k : u[i] = w[i - 2 * m]
  BY <1>1
<1>3. Len(u) % 2 = 0 /\ Len(u) \div 2 = m + k
  <2> HIDE DEF m, k, u
  <2> QED
    BY <1>1, <1>2
<1>4. /\ PairsIn(v) = {<<v[2 * i - 1], v[2 * i]>> : i \in 1 .. m}
      /\ PairsIn(w) = {<<w[2 * i - 1], w[2 * i]>> : i \in 1 .. k}
      /\ PairsIn(u) = {<<u[2 * i - 1], u[2 * i]>> : i \in 1 .. m + k}
  BY <1>3 DEF PairsIn
<1> HIDE DEF m, k, u
<1>5. ASSUME NEW i \in 1 .. m PROVE u[2 * i - 1] = v[2 * i - 1] /\ u[2 * i] = v[2 * i]
  <2>1. 2 * i - 1 \in 1 .. 2 * m /\ 2 * i \in 1 .. 2 * m
    BY <1>1
  <2> QED
    BY <1>2, <2>1
<1>6. ASSUME NEW i \in m + 1 .. m + k
      PROVE  /\ i - m \in 1 .. k
             /\ u[2 * i - 1] = w[2 * (i - m) - 1] /\ u[2 * i] = w[2 * (i - m)]
  <2>1. /\ 2 * i - 1 \in 2 * m + 1 .. 2 * m + 2 * k /\ 2 * i \in 2 * m + 1 .. 2 * m + 2 * k
        /\ (2 * i - 1) - 2 * m = 2 * (i - m) - 1 /\ 2 * i - 2 * m = 2 * (i - m)
        /\ i - m \in 1 .. k
    BY <1>1
  <2>2. u[2 * i - 1] = w[(2 * i - 1) - 2 * m] /\ u[2 * i] = w[2 * i - 2 * m]
    BY <1>2, <2>1
  <2> QED
    BY <2>1, <2>2
<1>7. PairsIn(u) \subseteq PairsIn(v) \union PairsIn(w)
  <2> SUFFICES ASSUME NEW i \in 1 .. m + k
               PROVE  <<u[2 * i - 1], u[2 * i]>> \in PairsIn(v) \union PairsIn(w)
    BY <1>4
  <2>1. i \in 1 .. m \/ i \in m + 1 .. m + k
    BY <1>1
  <2>2. CASE i \in 1 .. m
    BY <1>4, <1>5, <2>2
  <2>3. CASE i \in m + 1 .. m + k
    BY <1>4, <1>6, <2>3
  <2> QED
    BY <2>1, <2>2, <2>3
<1>8. PairsIn(v) \subseteq PairsIn(u)
  <2> SUFFICES ASSUME NEW i \in 1 .. m
               PROVE  <<v[2 * i - 1], v[2 * i]>> \in PairsIn(u)
    BY <1>4
  <2>1. i \in 1 .. m + k
    BY <1>1
  <2> QED
    BY <1>4, <1>5, <2>1
<1>9. PairsIn(w) \subseteq PairsIn(u)
  <2> SUFFICES ASSUME NEW j \in 1 .. k
               PROVE  <<w[2 * j - 1], w[2 * j]>> \in PairsIn(u)
    BY <1>4
  <2> DEFINE i == m + j
  <2>1. i \in m + 1 .. m + k /\ i \in 1 .. m + k /\ i - m = j
    BY <1>1
  <2> HIDE DEF i
  <2>2. <<u[2 * i - 1], u[2 * i]>> \in PairsIn(u)
    BY <1>4, <2>1
  <2> QED
    BY <1>6, <2>1, <2>2
<1> QED
  BY <1>3, <1>7, <1>8, <1>9 DEF u

\* The wallets of two texts with a bar between them are those of both.
LEMMA WalletsOfJoin ==
    ASSUME NEW x \in Text, NEW y \in Text, Wallets(x), Wallets(y)
    PROVE  /\ Wallets(x \o <<"|">> \o y)
           /\ parse_wltpwd(x \o <<"|">> \o y) = parse_wltpwd(x) \union parse_wltpwd(y)
<1> DEFINE v == Split(x, Separators)
           w == Split(y, Separators)
<1>1. ASSUME NEW s \in Text PROVE Split(s, Separators) \in Seq(Text)
  <2>1. PICK f : PartsOf(s, Separators, f)
    BY SplitIs
  <2>2. Len(s) \in 0 .. Len(s)
    BY DEF Text
  <2> QED
    BY <2>1, <2>2 DEF PartsOf
<1>2. \A s : /\ Wallets(s) <=> Len(Split(s, Separators)) % 2 = 0
             /\ parse_wltpwd(s) = PairsIn(Split(s, Separators))
  BY DEF Wallets, parse_wltpwd, PairsIn, Separators
<1>3. v \in Seq(Text) /\ w \in Seq(Text) /\ Len(v) % 2 = 0 /\ Len(w) % 2 = 0
  BY <1>1, <1>2
<1>4. Split(x \o <<"|">> \o y, Separators) = v \o w
  BY PartsOfJoin
<1> HIDE DEF v, w
<1>5. Len(v \o w) % 2 = 0 /\ PairsIn(v \o w) = PairsIn(v) \union PairsIn(w)
  BY <1>3, PairsOfBoth
<1> QED
  BY <1>2, <1>4, <1>5 DEF v, w

\* The guard's accounts are settled ones.
LEMMA TuplesAre ==
    ASSUME NEW accts \in Tuples
    PROVE  /\ accts \in Seq(SettledAccounts) /\ Len(accts) \in Nat \ {0}
           /\ ToSet(accts) = {accts[i] : i \in 1 .. Len(accts)}
<1>1. PICK n \in 1 .. 3 : accts \in [1 .. n -> SettledAccounts]
  BY DEF Tuples, SettledAccounts
<1>2. accts \in Seq(SettledAccounts) /\ Len(accts) = n /\ DOMAIN accts = 1 .. Len(accts)
  BY <1>1
<1> QED
  BY <1>2 DEF ToSet

\* NothingInvented holds for all accounts and texts, if the texts are wallets
\* with their passwords: the bars that decrypt_wltpwd puts between them never
\* make parse_wltpwd pair a wallet with another's password.
THEOREM RegistryInventsNothing ==
    ASSUME \A t \in Texts : Wallets(t)
    PROVE  Spec => []NothingInvented
<1>1. ASSUME IInv, NEW accts \in Tuples
      PROVE  parse_wltpwd(decrypt_wltpwd(accts)) \subseteq
                 UNION {parse_wltpwd(TextOf(a)) : a \in ToSet(accts)}
  <2> DEFINE all == UNION {parse_wltpwd(TextOf(a)) : a \in ToSet(accts)}
             N == Len(accts)
  <2>1. accts \in Seq(SettledAccounts) /\ N \in Nat \ {0}
    BY TuplesAre
  <2>2. PICK f : DecryptedOf(accts, f)
    BY <1>1, <2>1, DecryptIs
  <2>3. ASSUME NEW n \in 1 .. N
        PROVE  /\ TextOf(accts[n]) \in Text /\ Wallets(TextOf(accts[n]))
               /\ parse_wltpwd(TextOf(accts[n])) \subseteq all
    <3>1. accts[n] \in Accounts /\ Settled(accts[n]) /\ accts[n] \in ToSet(accts)
      BY <2>1, TuplesAre DEF SettledAccounts
    <3>2. TextOf(accts[n]) \in Texts /\ TextOf(accts[n]) \in Text
      BY <1>1, <3>1, SettledRow
    <3> QED
      BY <3>1, <3>2
  <2> DEFINE Good(s) == Wallets(s) /\ parse_wltpwd(s) \subseteq all
             T == {n \in 0 .. N : n = 0 \/ Good(f[n])}
  <2>4. \A n \in 0 .. N : f[n] \in Text
    BY <2>2 DEF DecryptedOf
  <2>5. ASSUME NEW n \in 1 .. N, n - 1 \in T PROVE n \in T
    <3> DEFINE before == f[n - 1]
               s == TextOf(accts[n])
    <3>1. n \in 0 .. N /\ f[n] = Joined(before, s)
      BY <2>1, <2>2 DEF DecryptedOf
    <3>2. s \in Text /\ Good(s)
      BY <2>3
    <3>3. before \in Text /\ (before = <<>> \/ Good(before))
      <4>1. n - 1 \in 0 .. N /\ f[0] = <<>>
        BY <2>1, <2>2 DEF DecryptedOf
      <4> QED
        BY <2>4, <2>5, <4>1
    <3> HIDE DEF all, before, s
    <3>4. before # <<>> => Good(before \o <<"|">> \o s)
      BY <3>2, <3>3, WalletsOfJoin
    <3>5. Good(f[n])
      BY <3>1, <3>2, <3>3, <3>4 DEF Joined
    <3> HIDE DEF Good
    <3> QED
      BY <3>1, <3>5
  <2>6. 0 \in T
    BY <2>1
  <2> HIDE DEF T, Good, all
  <2>7. \A n \in 0 .. N : n \in T
    <3> HIDE DEF N
    <3> QED
      BY <2>1, <2>5, <2>6, UpTo
  <2>8. Good(f[N])
    <3> HIDE DEF N
    <3>1. N \in 0 .. N /\ N # 0
      BY <2>1
    <3> QED
      BY <2>7, <3>1 DEF T
  <2>9. decrypt_wltpwd(accts) = f[N]
    BY <2>2 DEF DecryptedOf
  <2>10. parse_wltpwd(decrypt_wltpwd(accts)) \subseteq all
    BY <2>8, <2>9 DEF Good
  <2> QED
    BY <2>10 DEF all
<1>2. IInv => NothingInvented
  BY <1>1 DEF NothingInvented
<1> QED
  BY <1>2, RegistryInvariance, PTL

\* A text of wallets that no bar separates: of one wallet, as a rule.
OneWallet(t) == Wallets(t) /\ \A i \in DOMAIN t : t[i] # "|"

\* A text lies at a place within another.
At(i, t, s) == i \in 0 .. Len(s) - Len(t) /\ \A j \in 1 .. Len(t) : s[i + j] = t[j]

\* To lie within a text is to lie at some place of it.
LEMMA WithinAt ==
    ASSUME NEW t \in Text, NEW s \in Text
    PROVE  Within(t, s) <=> \E i : At(i, t, s)
<1>1. Len(t) \in Nat /\ Len(s) \in Nat /\ s \in Seq(Characters) /\ t \in Seq(Characters)
  BY DEF Text
<1>2. ASSUME NEW i \in 0 .. Len(s) - Len(t)
      PROVE  SubSeq(s, i + 1, i + Len(t)) = t <=> \A j \in 1 .. Len(t) : s[i + j] = t[j]
  <2> DEFINE u == SubSeq(s, i + 1, i + Len(t))
  <2>1. /\ u \in Seq(Characters) /\ Len(u) = Len(t)
        /\ \A j \in 1 .. Len(t) : u[j] = s[i + j]
    BY <1>1
  <2> HIDE DEF u
  <2>2. u = t <=> \A j \in 1 .. Len(t) : u[j] = t[j]
    BY <1>1, <2>1, SeqEqual
  <2>3. u = t <=> \A j \in 1 .. Len(t) : s[i + j] = t[j]
    BY <2>1, <2>2
  <2> QED
    BY <2>3 DEF u
<1> QED
  BY <1>2 DEF Within, At

\* What has no bar in it lies on one side of a bar.
LEMMA WithinJoin ==
    ASSUME NEW t \in Text, NEW x \in Text, NEW y \in Text, \A i \in DOMAIN t : t[i] # "|",
           Within(t, x \o <<"|">> \o y)
    PROVE  Within(t, x) \/ Within(t, y)
<1> DEFINE s == x \o <<"|">> \o y
           m == Len(x)
           k == Len(y)
           l == Len(t)
<1>1. "|" \in Characters /\ s \in Text
  BY RegistryAssumption, JoinType
<1>2. /\ m \in Nat /\ k \in Nat /\ l \in Nat /\ Len(s) = m + 1 + k /\ s[m + 1] = "|"
      /\ \A i \in 1 .. m : s[i] = x[i]
      /\ \A i \in 1 .. k : s[m + 1 + i] = y[i]
  <2>1. l \in Nat
    BY DEF Text
  <2> QED
    BY <2>1, CharactersOfJoin
<1>3. PICK i : At(i, t, s)
  <2> HIDE DEF s
  <2>1. Within(t, s)
    BY DEF s
  <2> QED
    BY <1>1, <2>1, WithinAt
<1>4. \A j \in 1 .. l : t[j] # "|"
  BY DEF Text
<1> HIDE DEF s, m, k, l
<1>n. m \in Nat /\ k \in Nat /\ l \in Nat /\ i \in Nat /\ i + l <= m + 1 + k
  BY <1>2, <1>3 DEF At, l
<1>5. \A j \in 1 .. l : s[i + j] = t[j]
  BY <1>3 DEF At, l
<1>6. CASE i + l <= m
  <2>1. i \in 0 .. m - l
    BY <1>n, <1>6
  <2>2. \A j \in 1 .. l : i + j \in 1 .. m
    BY <1>n, <1>6
  <2>3. \A j \in 1 .. l : x[i + j] = t[j]
    BY <1>2, <1>5, <2>2
  <2>4. At(i, t, x)
    BY <2>1, <2>3 DEF At, m, l
  <2> QED
    BY <2>4, WithinAt
<1>7. CASE i >= m + 1
  <2> DEFINE d == i - (m + 1)
  <2>1. d \in 0 .. k - l
    BY <1>n, <1>7
  <2>2. \A j \in 1 .. l : d + j \in 1 .. k /\ m + 1 + (d + j) = i + j
    BY <1>n, <1>7
  <2> HIDE DEF d
  <2>3. ASSUME NEW j \in 1 .. l PROVE y[d + j] = t[j]
    <3>1. s[m + 1 + (d + j)] = y[d + j]
      BY <1>2, <2>2
    <3> QED
      BY <1>5, <2>2, <3>1
  <2>4. At(d, t, y)
    BY <2>1, <2>3 DEF At, k, l
  <2> QED
    BY <2>4, WithinAt
<1>8. CASE i < m + 1 /\ i + l > m
  <2> DEFINE j == m + 1 - i
  <2>1. j \in 1 .. l /\ i + j = m + 1
    BY <1>n, <1>8
  <2> HIDE DEF j
  <2>2. t[j] = s[m + 1]
    BY <1>5, <2>1
  <2> QED
    BY <1>2, <1>4, <2>1, <2>2
<1> QED
  BY <1>n, <1>6, <1>7, <1>8

\* GuardGetsAll holds for all accounts and texts, if accounts register one wallet
\* each: what decrypt_wltpwd leaves out was there already.  (With several
\* wallets, a text may lie across the bar between two others.)
THEOREM RegistryGivesAll ==
    ASSUME \A t \in Texts : OneWallet(t)
    PROVE  Spec => []GuardGetsAll
<1>1. ASSUME IInv, NEW accts \in Tuples,
             \A i, j \in DOMAIN accts : Within(TextOf(accts[i]), TextOf(accts[j])) =>
                                            TextOf(accts[i]) = TextOf(accts[j]),
             NEW a \in ToSet(accts)
      PROVE  parse_wltpwd(TextOf(a)) \subseteq parse_wltpwd(decrypt_wltpwd(accts))
  <2> DEFINE N == Len(accts)
             W(n) == parse_wltpwd(TextOf(accts[n]))
  <2>1. accts \in Seq(SettledAccounts) /\ N \in Nat \ {0} /\ DOMAIN accts = 1 .. N
    BY TuplesAre
  <2>2. PICK f : DecryptedOf(accts, f)
    BY <1>1, <2>1, DecryptIs
  <2>3. ASSUME NEW n \in 1 .. N
        PROVE  TextOf(accts[n]) \in Text /\ OneWallet(TextOf(accts[n]))
    <3>1. accts[n] \in Accounts /\ Settled(accts[n])
      BY <2>1 DEF SettledAccounts
    <3> QED
      BY <1>1, <3>1, SettledRow
  <2> DEFINE All(n) == \A m \in 1 .. n : W(m) \subseteq parse_wltpwd(f[n])
             Only(n) == \A t \in Text : OneWallet(t) /\ Within(t, f[n]) =>
                            \E m \in 1 .. n : Within(t, TextOf(accts[m]))
             T == {n \in 0 .. N : n = 0 \/ (Wallets(f[n]) /\ All(n) /\ Only(n))}
  <2>4. \A n \in 0 .. N : f[n] \in Text
    BY <2>2 DEF DecryptedOf
  <2>5. ASSUME NEW n \in 1 .. N, n - 1 \in T PROVE n \in T
    <3> DEFINE before == f[n - 1]
               s == TextOf(accts[n])
    <3>1. /\ n \in 0 .. N /\ n - 1 \in 0 .. N /\ f[n] = Joined(before, s) /\ f[0] = <<>>
          /\ before \in Text
      <4>1. n \in 0 .. N /\ n - 1 \in 0 .. N
        BY <2>1
      <4> QED
        BY <2>2, <2>4, <4>1 DEF DecryptedOf
    <3>2. s \in Text /\ OneWallet(s) /\ Wallets(s)
      BY <2>3 DEF OneWallet
    <3>3. CASE before = <<>>
      \* Nothing was read: there is no empty text of wallets.
      <4>1. n - 1 = 0
        <5>1. ~ Wallets(<<>>)
          <6>1. <<>> \in Text /\ \A j \in 1 .. Len(<<>>) : <<>>[j] \notin {"#", "|"}
            BY DEF Text
          <6>2. Split(<<>>, {"#", "|"}) = << <<>> >>
            BY <6>1, OnePart
          <6>3. Len(Split(<<>>, {"#", "|"})) = 1 /\ 1 % 2 # 0
            BY <6>2
          <6> QED
            BY <6>3 DEF Wallets
        <5> QED
          BY <2>5, <3>3, <5>1
      <4>2. n = 1 /\ f[n] = s
        BY <3>1, <3>3, <4>1 DEF Joined
      <4>3. 1 .. n = {1}
        BY <4>2
      <4>4. All(n) /\ Only(n)
        BY <4>2, <4>3
      <4> QED
        BY <3>1, <3>2, <4>2, <4>4
    <3>4. CASE before # <<>>
      <4>1. n - 1 # 0 /\ Wallets(before) /\ All(n - 1) /\ Only(n - 1)
        BY <2>5, <3>1, <3>4
      <4>2. 1 .. n = (1 .. n - 1) \union {n} /\ n \in 1 .. n
        BY <2>1
      <4>3. CASE Within(s, before)
        <5>1. f[n] = before
          BY <3>1, <3>4, <4>3 DEF Joined
        <5>2. PICK m \in 1 .. n - 1 : Within(s, TextOf(accts[m]))
          BY <3>2, <4>1, <4>3
        <5>3. m \in 1 .. N
          BY <2>1
        <5>4. s = TextOf(accts[m])
          BY <1>1, <2>1, <5>2, <5>3
        <5>5. All(n)
          BY <4>1, <4>2, <5>1, <5>2, <5>4
        <5>6. Only(n)
          BY <4>1, <4>2, <5>1
        <5> QED
          BY <3>1, <4>1, <5>1, <5>5, <5>6
      <4>4. CASE ~ Within(s, before)
        <5>1. f[n] = before \o <<"|">> \o s
          BY <3>1, <3>4, <4>4 DEF Joined
        <5>2. Wallets(f[n]) /\ parse_wltpwd(f[n]) = parse_wltpwd(before) \union parse_wltpwd(s)
          <6> HIDE DEF before, s
          <6> QED
            BY <3>1, <3>2, <4>1, <5>1, WalletsOfJoin
        <5>3. All(n)
          BY <4>1, <4>2, <5>2
        <5>4. ASSUME NEW t \in Text, OneWallet(t), Within(t, f[n])
              PROVE  \E m \in 1 .. n : Within(t, TextOf(accts[m]))
          <6>1. Within(t, before) \/ Within(t, s)
            <7> HIDE DEF before, s
            <7> QED
              BY <3>1, <3>2, <5>1, <5>4, WithinJoin DEF OneWallet
          <6> QED
            BY <4>1, <4>2, <5>4, <6>1
        <5> QED
          BY <3>1, <5>2, <5>3, <5>4
      <4> QED
        BY <4>3, <4>4
    <3> QED
      BY <3>3, <3>4
  <2>6. 0 \in T
    BY <2>1
  <2> HIDE DEF T, All, Only
  <2>7. \A n \in 0 .. N : n \in T
    <3> HIDE DEF N
    <3> QED
      BY <2>1, <2>5, <2>6, UpTo
  <2>8. All(N)
    <3> HIDE DEF N
    <3>1. N \in 0 .. N /\ N # 0
      BY <2>1
    <3> QED
      BY <2>7, <3>1 DEF T
  <2>9. decrypt_wltpwd(accts) = f[N]
    BY <2>2 DEF DecryptedOf
  <2>10. PICK m \in 1 .. N : a = accts[m]
    BY <1>1, TuplesAre
  <2> QED
    BY <2>8, <2>9, <2>10 DEF All
<1>2. IInv => GuardGetsAll
  BY <1>1 DEF GuardGetsAll
<1> QED
  BY <1>2, RegistryInvariance, PTL
=============================================================================
