----------------------------- MODULE Recursion ------------------------------
(***************************************************************************)
(* What the proofs about recursively defined functions rest on: a set of   *)
(* natural numbers has a least member, what is handed on along an interval *)
(* holds in all of it, and a function defined step by step exists.  And    *)
(* what that says of the two operations on lists of Listing.               *)
(***************************************************************************)
EXTENDS Listing, FiniteSetsExt, TLAPS, WellFoundedInduction, FiniteSetTheorems

\* A set of natural numbers has a least member.
LEMMA LeastOf ==
    ASSUME NEW S \in SUBSET Nat, S # {}
    PROVE  Min(S) \in S /\ \A x \in S : Min(S) <= x
<1>1. PICK m \in S : \A y \in S : ~(<<y, m>> \in OpToRel(<, Nat))
  BY NatLessThanWellFounded, WFMin
<1>2. \A y \in S : ~(y < m)
  BY <1>1 DEF OpToRel
<1>3. \A y \in S : m <= y
  BY <1>2
<1> QED  BY <1>3 DEF Min

\* What holds at 0 and is handed on holds in the whole interval.
LEMMA StepByStep ==
    ASSUME NEW N \in Nat, NEW G \in SUBSET (0 .. N), 0 \in G, \A i \in 1 .. N : i - 1 \in G => i \in G
    PROVE  G = 0 .. N
<1> DEFINE bad == (0 .. N) \ G
<1>1. CASE bad = {}
  BY <1>1
<1>2. CASE bad # {}
  <2>1. bad \in SUBSET Nat
    OBVIOUS
  <2>2. Min(bad) \in bad /\ \A i \in bad : Min(bad) <= i
    BY <1>2, <2>1, LeastOf
  <2> DEFINE m == Min(bad)
  <2>3. m \in 0 .. N /\ m \notin G /\ \A i \in bad : m <= i
    BY <2>2
  <2> HIDE DEF m
  <2>4. m # 0 /\ m \in 1 .. N /\ m - 1 \in 0 .. N
    BY <2>3
  <2>5. m - 1 \notin bad
    BY <2>3, <2>4
  <2> QED  BY <2>3, <2>4, <2>5
<1> QED  BY <1>1, <1>2

\* Step F, started from a, can be repeated N times within S.
Repeats(N, S, a, F) ==
    \E f \in [0 .. N -> S] : f[0] = a /\ \A i \in 1 .. N : f[i] = F[<<i, f[i - 1]>>]

\* A function defined by recursion over an interval exists.
LEMMA RecursionExists ==
    ASSUME NEW N \in Nat, NEW S, NEW a \in S, NEW F \in [(1 .. N) \X S -> S]
    PROVE  Repeats(N, S, a, F)
<1> DEFINE Ok(n, f) == f \in [0 .. n -> S] /\ f[0] = a /\ \A i \in 1 .. n : f[i] = F[<<i, f[i - 1]>>]
           G == {n \in 0 .. N : \E f : Ok(n, f)}
<1>1. 0 \in G
  <2> DEFINE f == [i \in 0 .. 0 |-> a]
  <2>1. 0 \in 0 .. 0 /\ 0 \in 0 .. N /\ 1 .. 0 = {}
    OBVIOUS
  <2>2. f \in [0 .. 0 -> S] /\ f[0] = a
    BY <2>1
  <2> HIDE DEF f
  <2>3. Ok(0, f)
    BY <2>1, <2>2
  <2> QED  BY <2>1, <2>3
<1>2. ASSUME NEW n \in 1 .. N, n - 1 \in G PROVE n \in G
  <2>1. PICK g : Ok(n - 1, g)
    BY <1>2
  <2> DEFINE f == [i \in 0 .. n |-> IF i = n THEN F[<<n, g[n - 1]>>] ELSE g[i]]
  <2>2. n \in Nat /\ n - 1 \in 0 .. n - 1 /\ n \in 0 .. n /\ 0 \in 0 .. n /\ 0 # n /\ n \in 0 .. N
    OBVIOUS
  <2>3. g[n - 1] \in S
    BY <2>1, <2>2
  <2>4. <<n, g[n - 1]>> \in (1 .. N) \X S
    BY <2>3
  <2>5. F[<<n, g[n - 1]>>] \in S
    BY <2>4
  <2>6. f \in [0 .. n -> S]
    BY <2>1, <2>2, <2>5
  <2>7. f[n] = F[<<n, g[n - 1]>>] /\ \A i \in 0 .. n - 1 : f[i] = g[i]
    BY <2>2
  <2> HIDE DEF f
  <2>8. f[0] = a
    BY <2>1, <2>2, <2>7
  <2>9. ASSUME NEW i \in 1 .. n PROVE f[i] = F[<<i, f[i - 1]>>]
    <3>1. i - 1 \in 0 .. n - 1
      OBVIOUS
    <3>2. f[i - 1] = g[i - 1]
      BY <2>7, <3>1
    <3>3. CASE i = n
      BY <2>7, <3>2, <3>3
    <3>4. CASE i # n
      <4>1. i \in 1 .. n - 1 /\ i \in 0 .. n - 1
        BY <3>4
      <4> QED  BY <2>1, <2>7, <3>2, <4>1
    <3> QED  BY <3>3, <3>4
  <2>10. Ok(n, f)
    BY <2>6, <2>8, <2>9
  <2> QED  BY <2>2, <2>10
<1>3. G = 0 .. N
  <2> HIDE DEF G
  <2>1. G \in SUBSET (0 .. N)
    BY DEF G
  <2> QED  BY <1>1, <1>2, <2>1, StepByStep
<1>4. N \in G
  <2>1. N \in 0 .. N
    OBVIOUS
  <2> QED  BY <1>3, <2>1
<1>5. PICK f : Ok(N, f)
  BY <1>4
<1> QED  BY <1>5 DEF Repeats

-----------------------------------------------------------------------------
(* What a filter keeps *)

\* c holds the elements of the first n places of s that belong to S, in their
\* order: g tells the place of each.
Picks(s, n, S, c, g) ==
    /\ g \in [1 .. Len(c) -> 1 .. n]
    /\ \A x \in 1 .. Len(c) : c[x] = s[g[x]] /\ s[g[x]] \in S
    /\ \A x, y \in 1 .. Len(c) : x < y => g[x] < g[y]
    /\ \A p \in 1 .. n : s[p] \in S => \E x \in 1 .. Len(c) : g[x] = p

\* One more place, picked or not.
LEMMA PicksOn ==
    ASSUME NEW E, NEW s \in Seq(E), NEW n \in 1 .. Len(s), NEW S, NEW c \in Seq(E), NEW g, Picks(s, n - 1, S, c, g)
    PROVE  \E h : Picks(s, n, S, IF s[n] \in S THEN Append(c, s[n]) ELSE c, h)
<1>1. CASE s[n] \in S
  <2> DEFINE k == Len(c)
             d == Append(c, s[n])
             h == [x \in 1 .. k + 1 |-> IF x = k + 1 THEN n ELSE g[x]]
  <2>1. /\ k \in Nat /\ n \in Nat \ {0} /\ Len(d) = k + 1 /\ d[k + 1] = s[n] /\ s[n] \in E
        /\ \A x \in 1 .. k : d[x] = c[x]
    OBVIOUS
  <2>2. /\ \A x \in 1 .. k : h[x] = g[x] /\ g[x] \in 1 .. n - 1 /\ x \in 1 .. k + 1
        /\ h[k + 1] = n /\ k + 1 \in 1 .. k + 1 /\ \A x \in 1 .. k + 1 : x \in 1 .. k \/ x = k + 1
    BY SMTT(60), <2>1 DEF Picks
  <2>a. h = [x \in 1 .. k + 1 |-> h[x]]
    OBVIOUS
  <2> HIDE DEF h, k, d
  <2>3. h \in [1 .. k + 1 -> 1 .. n]
    <3>1. \A x \in 1 .. k + 1 : h[x] \in 1 .. n
      BY <2>1, <2>2
    <3> QED  BY <2>a, <3>1
  <2>4. \A x \in 1 .. k + 1 : d[x] = s[h[x]] /\ s[h[x]] \in S
    BY <1>1, <2>1, <2>2 DEF Picks, k
  <2>5. \A x, y \in 1 .. k + 1 : x < y => h[x] < h[y]
    <3> SUFFICES ASSUME NEW x \in 1 .. k + 1, NEW y \in 1 .. k + 1, x < y PROVE h[x] < h[y]
      OBVIOUS
    <3>1. x \in 1 .. k
      BY <2>1
    <3>2. CASE y = k + 1
      BY <2>1, <2>2, <3>1, <3>2
    <3>3. CASE y # k + 1
      BY <2>2, <3>1, <3>3 DEF Picks, k
    <3> QED  BY <3>2, <3>3
  <2>6. \A p \in 1 .. n : s[p] \in S => \E x \in 1 .. k + 1 : h[x] = p
    <3> SUFFICES ASSUME NEW p \in 1 .. n, s[p] \in S PROVE \E x \in 1 .. k + 1 : h[x] = p
      OBVIOUS
    <3>1. CASE p = n
      BY <2>2, <3>1
    <3>2. CASE p # n
      <4>1. p \in 1 .. n - 1
        BY <2>1, <3>2
      <4>2. PICK x \in 1 .. k : g[x] = p
        BY <4>1 DEF Picks, k
      <4> QED  BY <2>2, <4>2
    <3> QED  BY <3>1, <3>2
  <2>7. Picks(s, n, S, d, h)
    BY <2>1, <2>3, <2>4, <2>5, <2>6 DEF Picks
  <2> QED  BY <1>1, <2>7 DEF d
<1>2. CASE s[n] \notin S
  <2>1. n \in Nat \ {0} /\ \A p \in 1 .. n - 1 : p \in 1 .. n
    OBVIOUS
  <2>2. g \in [1 .. Len(c) -> 1 .. n]
    BY <2>1 DEF Picks
  <2>3. \A p \in 1 .. n : s[p] \in S => p \in 1 .. n - 1
    BY <1>2, <2>1
  <2>4. Picks(s, n, S, c, g)
    BY <2>2, <2>3 DEF Picks
  <2> QED  BY <1>2, <2>4
<1> QED  BY <1>1, <1>2

\* What a filter keeps: every element of S, in the order of the sequence.
LEMMA ChosenPicks ==
    ASSUME NEW E, NEW s \in Seq(E), NEW S
    PROVE  Chosen(s, S) \in Seq(E) /\ \E g : Picks(s, Len(s), S, Chosen(s, S), g)
<1> DEFINE N == Len(s)
           L == Seq(E)
           Turn(n, c) == IF s[n] \in S THEN Append(c, s[n]) ELSE c
           Rec(f) == [n \in 0 .. N |-> IF n = 0 THEN <<>>
                                       ELSE IF s[n] \in S THEN Append(f[n - 1], s[n]) ELSE f[n - 1]]
           F == [p \in (1 .. N) \X L |-> Turn(p[1], p[2])]
<1>1. N \in Nat /\ <<>> \in L /\ \A n \in 1 .. N : s[n] \in E
  OBVIOUS
<1>2. \A n \in 1 .. N, c \in L : Turn(n, c) \in L
  BY <1>1
<1>3. Chosen(s, S) = (CHOOSE f : f = Rec(f))[N]
  BY DEF Chosen
<1>4. \E f : f = Rec(f)
  <2>1. F \in [(1 .. N) \X L -> L]
    BY <1>2
  <2>2. \A n \in 1 .. N, c \in L : F[<<n, c>>] = Turn(n, c)
    OBVIOUS
  <2> HIDE DEF F, L, N
  <2>3. PICK f \in [0 .. N -> L] : f[0] = <<>> /\ \A n \in 1 .. N : f[n] = F[<<n, f[n - 1]>>]
    <3>1. Repeats(N, L, <<>>, F)
      BY <1>1, <2>1, RecursionExists
    <3> QED  BY <3>1 DEF Repeats
  <2>4. ASSUME NEW n \in 0 .. N PROVE f[n] = IF n = 0 THEN <<>> ELSE Turn(n, f[n - 1])
    <3>1. CASE n = 0
      BY <2>3, <3>1
    <3>2. CASE n # 0
      <4>1. n \in 1 .. N /\ n - 1 \in 0 .. N
        BY <1>1, <3>2
      <4> QED  BY <2>2, <2>3, <3>2, <4>1
    <3> QED  BY <3>1, <3>2
  <2>5. f = Rec(f)
    BY <2>3, <2>4
  <2> QED  BY <2>5
<1> DEFINE f == CHOOSE h : h = Rec(h)
<1>5. f = Rec(f)
  BY <1>4
<1> HIDE DEF f
<1>6. f[0] = <<>> /\ \A n \in 1 .. N : f[n] = Turn(n, f[n - 1])
  <2>1. 0 \in 0 .. N /\ \A n \in 1 .. N : n \in 0 .. N /\ n # 0
    BY <1>1
  <2> HIDE DEF N
  <2> QED  BY <1>5, <2>1
<1> DEFINE G == {n \in 0 .. N : f[n] \in L /\ \E g : Picks(s, n, S, f[n], g)}
<1>7. 0 \in G
  <2>1. 0 \in 0 .. N /\ Len(<<>>) = 0 /\ 1 .. 0 = {}
    BY <1>1
  <2>2. [x \in {} |-> 0] \in [1 .. 0 -> 1 .. 0]
    BY <2>1
  <2>3. Picks(s, 0, S, <<>>, [x \in {} |-> 0])
    BY <2>1, <2>2 DEF Picks
  <2> QED  BY <1>1, <1>6, <2>1, <2>3
<1>8. ASSUME NEW n \in 1 .. N, n - 1 \in G PROVE n \in G
  <2>1. n \in 0 .. N /\ f[n] = Turn(n, f[n - 1]) /\ f[n - 1] \in L
    BY <1>1, <1>6, <1>8
  <2>2. PICK g : Picks(s, n - 1, S, f[n - 1], g)
    BY <1>8
  <2>3. \E h : Picks(s, n, S, f[n], h)
    BY <2>1, <2>2, PicksOn
  <2> QED  BY <1>2, <2>1, <2>3
<1>9. N \in G
  <2>1. G \in SUBSET (0 .. N) /\ N \in 0 .. N
    BY <1>1
  <2> HIDE DEF G, N
  <2> QED  BY <1>1, <1>7, <1>8, <2>1, StepByStep
<1> QED  BY <1>3, <1>9 DEF f

\* The members of what a filter keeps.
LEMMA ChosenMembers ==
    ASSUME NEW E, NEW s \in Seq(E), NEW S
    PROVE  /\ Chosen(s, S) \in Seq(E)
           /\ {Chosen(s, S)[x] : x \in 1 .. Len(Chosen(s, S))} = {s[p] : p \in 1 .. Len(s)} \cap S
<1> DEFINE c == Chosen(s, S)
<1>1. c \in Seq(E) /\ \E g : Picks(s, Len(s), S, c, g)
  BY ChosenPicks
<1> HIDE DEF c
<1>2. PICK g : Picks(s, Len(s), S, c, g)
  BY <1>1
<1>3. \A x \in 1 .. Len(c) : g[x] \in 1 .. Len(s) /\ c[x] = s[g[x]] /\ s[g[x]] \in S
  BY <1>2 DEF Picks
<1>4. \A p \in 1 .. Len(s) : s[p] \in S => \E x \in 1 .. Len(c) : c[x] = s[p]
  BY <1>2 DEF Picks
<1>5. {c[x] : x \in 1 .. Len(c)} = {s[p] : p \in 1 .. Len(s)} \cap S
  BY SMTT(60), <1>3, <1>4
<1> QED  BY <1>1, <1>5 DEF c

\* A filter of a filter.
LEMMA ChosenTwice ==
    ASSUME NEW E, NEW s \in Seq(E), NEW S, NEW T
    PROVE  /\ Chosen(Chosen(s, S), T) \in Seq(E)
           /\ \E g : Picks(s, Len(s), S \cap T, Chosen(Chosen(s, S), T), g)
<1> DEFINE b == Chosen(s, S)
           c == Chosen(b, T)
<1>1. b \in Seq(E) /\ \E g : Picks(s, Len(s), S, b, g)
  BY ChosenPicks
<1>2. c \in Seq(E) /\ \E g : Picks(b, Len(b), T, c, g)
  <2> HIDE DEF b
  <2> QED  BY <1>1, ChosenPicks
<1> HIDE DEF b, c
<1>3. PICK g : Picks(s, Len(s), S, b, g)
  BY <1>1
<1>4. PICK h : Picks(b, Len(b), T, c, h)
  BY <1>2
<1> DEFINE k == [x \in 1 .. Len(c) |-> g[h[x]]]
<1>5. \A x \in 1 .. Len(c) : /\ h[x] \in 1 .. Len(b) /\ k[x] = g[h[x]] /\ k[x] \in 1 .. Len(s)
                             /\ c[x] = s[k[x]] /\ s[k[x]] \in S \cap T
  BY SMTT(60), <1>3, <1>4 DEF Picks
<1>6. k \in [1 .. Len(c) -> 1 .. Len(s)]
  BY <1>5
<1> HIDE DEF k
<1>7. \A x, y \in 1 .. Len(c) : x < y => k[x] < k[y]
  BY <1>3, <1>4, <1>5 DEF Picks
<1>8. ASSUME NEW p \in 1 .. Len(s), s[p] \in S \cap T PROVE \E x \in 1 .. Len(c) : k[x] = p
  <2>1. PICK y \in 1 .. Len(b) : g[y] = p
    BY <1>3, <1>8 DEF Picks
  <2>2. b[y] \in T
    BY <1>3, <1>8, <2>1 DEF Picks
  <2>3. PICK x \in 1 .. Len(c) : h[x] = y
    BY <1>4, <2>2 DEF Picks
  <2> QED  BY <1>5, <2>1, <2>3
<1>9. Picks(s, Len(s), S \cap T, c, k)
  BY <1>5, <1>6, <1>7, <1>8 DEF Picks
<1> QED  BY <1>2, <1>9 DEF b, c

\* Each element of a sequence once.
Distinct(s) == \A p, q \in 1 .. Len(s) : s[p] = s[q] => p = q

\* A list without repetition is as long as it has members.
LEMMA OnceCounts ==
    ASSUME NEW E, NEW c \in Seq(E), Distinct(c)
    PROVE  IsFiniteSet({c[x] : x \in 1 .. Len(c)}) /\ Cardinality({c[x] : x \in 1 .. Len(c)}) = Len(c)
<1> DEFINE k == Len(c)
           M == {c[x] : x \in 1 .. k}
           f == [x \in 1 .. k |-> c[x]]
<1>1. k \in Nat
  OBVIOUS
<1>2. f \in [1 .. k -> M] /\ \A x \in 1 .. k : f[x] = c[x]
  OBVIOUS
<1>3. \A m \in M : \E x \in 1 .. k : f[x] = m
  OBVIOUS
<1> HIDE DEF f, M
<1>4. \A x, y \in 1 .. k : f[x] = f[y] => x = y
  BY <1>2 DEF Distinct
<1>5. f \in Bijection(1 .. k, M)
  BY <1>2, <1>3, <1>4 DEF Bijection, Injection, Surjection, IsInjective
<1>6. ExistsBijection(1 .. k, M)
  BY <1>5 DEF ExistsBijection
<1>7. IsFiniteSet(M) /\ Cardinality(M) = k
  BY <1>1, <1>6, FS_NatBijection, FS_CountingElements
<1> QED  BY <1>7 DEF M

\* The filter of a list without repetition has none, and is as long as there are members.
LEMMA ChosenOnce ==
    ASSUME NEW E, NEW s \in Seq(E), Distinct(s), NEW S
    PROVE  Distinct(Chosen(s, S)) /\ Len(Chosen(s, S)) = Cardinality({s[p] : p \in 1 .. Len(s)} \cap S)
<1> DEFINE c == Chosen(s, S)
           k == Len(c)
           M == {c[x] : x \in 1 .. k}
<1>1. c \in Seq(E) /\ M = {s[p] : p \in 1 .. Len(s)} \cap S /\ \E g : Picks(s, Len(s), S, c, g)
  BY SMTT(60), ChosenPicks, ChosenMembers
<1> HIDE DEF c
<1>2. PICK g : Picks(s, Len(s), S, c, g)
  BY <1>1
<1>3. Distinct(c)
  <2> SUFFICES ASSUME NEW x \in 1 .. k, NEW y \in 1 .. k, c[x] = c[y] PROVE x = y
    BY DEF Distinct
  <2>1. g[x] \in 1 .. Len(s) /\ g[y] \in 1 .. Len(s) /\ s[g[x]] = s[g[y]]
    BY <1>2 DEF Picks
  <2>2. g[x] = g[y]
    BY <2>1 DEF Distinct
  <2>3. ~(x < y) /\ ~(y < x)
    BY <1>2, <2>1, <2>2 DEF Picks
  <2> QED  BY <2>3
<1>4. Cardinality(M) = k
  BY <1>1, <1>3, OnceCounts
<1> QED  BY <1>1, <1>3, <1>4 DEF c

-----------------------------------------------------------------------------
(* The sorted list of a set *)

StrictOrder(S, R) ==
    /\ \A x \in S : <<x, x>> \notin R
    /\ \A x, y \in S : x = y \/ <<x, y>> \in R \/ <<y, x>> \in R
    /\ \A x, y, z \in S : <<x, y>> \in R /\ <<y, z>> \in R => <<x, z>> \in R

Preceding(S, R, x) == {y \in S : <<y, x>> \in R}

\* An element's place is the number of elements before it.
LEMMA PlacesRise ==
    ASSUME NEW S, IsFiniteSet(S), NEW R, StrictOrder(S, R)
    PROVE  /\ \A x \in S : Cardinality(Preceding(S, R, x)) \in 0 .. Cardinality(S) - 1
           /\ \A x, y \in S : <<x, y>> \in R => Cardinality(Preceding(S, R, x)) < Cardinality(Preceding(S, R, y))
           /\ \A x, y \in S : Cardinality(Preceding(S, R, x)) = Cardinality(Preceding(S, R, y)) => x = y
<1> DEFINE n == Cardinality(S)
           below(x) == Preceding(S, R, x)
<1>1. n \in Nat
  BY FS_CardinalityType
<1>2. \A x \in S : below(x) \in SUBSET S /\ x \notin below(x)
  BY DEF Preceding, StrictOrder
<1>3. ASSUME NEW x \in S PROVE IsFiniteSet(below(x)) /\ Cardinality(below(x)) \in 0 .. n - 1
  <2>1. /\ IsFiniteSet(below(x)) /\ Cardinality(below(x)) <= n
        /\ (Cardinality(below(x)) = n => below(x) = S)
    BY <1>2, FS_Subset
  <2>2. Cardinality(below(x)) \in Nat
    BY <2>1, FS_CardinalityType
  <2> QED  BY <1>1, <1>2, <2>1, <2>2
<1>4. ASSUME NEW x \in S, NEW y \in S, <<x, y>> \in R PROVE Cardinality(below(x)) < Cardinality(below(y))
  <2>1. below(x) \in SUBSET below(y) /\ x \in below(y)
    BY <1>4 DEF Preceding, StrictOrder
  <2> HIDE DEF below
  <2>2. /\ Cardinality(below(x)) <= Cardinality(below(y))
        /\ (Cardinality(below(y)) = Cardinality(below(x)) => below(y) = below(x))
    BY <1>3, <2>1, FS_Subset
  <2> QED  BY <1>2, <1>3, <2>1, <2>2
<1>5. ASSUME NEW x \in S, NEW y \in S, x # y PROVE Cardinality(below(x)) # Cardinality(below(y))
  <2>1. <<x, y>> \in R \/ <<y, x>> \in R
    BY <1>5 DEF StrictOrder
  <2> QED  BY <1>3, <1>4, <2>1
<1> QED  BY <1>3, <1>4, <1>5

\* The sorted list holds every element once, in the order.
LEMMA ArrangedIsWhole ==
    ASSUME NEW S, IsFiniteSet(S), NEW R, StrictOrder(S, R)
    PROVE  LET a == Arranged(S, R)
               n == Cardinality(S) IN
           /\ n \in Nat /\ a \in [1 .. n -> S] /\ DOMAIN a = 1 .. n
           /\ \A x \in S : \E i \in 1 .. n : a[i] = x
           /\ \A i, j \in 1 .. n : a[i] = a[j] => i = j
           /\ \A i, j \in 1 .. n : i < j => <<a[i], a[j]>> \in R
<1> DEFINE n == Cardinality(S)
           T == 0 .. n - 1
           place == [x \in S |-> Cardinality(Preceding(S, R, x))]
           a == Arranged(S, R)
<1>1. n \in Nat
  BY FS_CardinalityType
<1>2. \A x \in S : place[x] = Cardinality(Preceding(S, R, x)) /\ place[x] \in T
  BY PlacesRise
<1>3. place \in Injection(S, T)
  <2>1. place \in [S -> T] /\ \A x, y \in S : place[x] = place[y] => x = y
    BY <1>2, PlacesRise
  <2> HIDE DEF place
  <2> QED  BY <2>1 DEF Injection, IsInjective
<1>4. IsFiniteSet(T) /\ Cardinality(T) = n
  BY SMTT(60), <1>1, FS_Interval
<1>5. place \in Surjection(S, T)
  <2> HIDE DEF place, T
  <2> QED  BY <1>3, <1>4, FS_Injection
<1>6. \A k \in T : \E x \in S : Cardinality(Preceding(S, R, x)) = k
  BY <1>2, <1>5 DEF Surjection
<1>7. \A i \in 1 .. n : a[i] \in S /\ Cardinality(Preceding(S, R, a[i])) = i - 1
  <2> SUFFICES ASSUME NEW i \in 1 .. n PROVE a[i] \in S /\ Cardinality(Preceding(S, R, a[i])) = i - 1
    OBVIOUS
  <2>1. i - 1 \in T
    BY <1>1
  <2>2. a[i] = CHOOSE x \in S : Cardinality({y \in S : <<y, x>> \in R}) = i - 1
    BY DEF Arranged
  <2>3. a[i] = CHOOSE x \in S : Cardinality(Preceding(S, R, x)) = i - 1
    BY <2>2 DEF Preceding
  <2> HIDE DEF a
  <2> QED  BY <1>6, <2>1, <2>3
<1>8. a \in [1 .. n -> S] /\ DOMAIN a = 1 .. n
  <2> DEFINE e(i) == CHOOSE x \in S : Cardinality({y \in S : <<y, x>> \in R}) = i - 1
  <2>0. a = [i \in 1 .. n |-> e(i)]
    BY DEF Arranged
  <2> HIDE DEF a, e
  <2>1. a = [i \in 1 .. n |-> a[i]]
    BY <2>0
  <2> QED  BY <1>7, <2>1
<1> HIDE DEF a, n, place
<1>9. \A i, j \in 1 .. n : a[i] = a[j] => i = j
  BY <1>1, <1>7
<1>10. ASSUME NEW x \in S PROVE \E i \in 1 .. n : a[i] = x
  <2> DEFINE k == Cardinality(Preceding(S, R, x))
             i == k + 1
  <2>0. k \in 0 .. n - 1
    BY PlacesRise DEF n
  <2> HIDE DEF k
  <2>1. i \in 1 .. n /\ i - 1 = k
    BY <1>1, <2>0
  <2> HIDE DEF i
  <2>2. Cardinality(Preceding(S, R, a[i])) = k /\ a[i] \in S
    BY <1>7, <2>1
  <2>3. a[i] = x
    BY <2>2, PlacesRise DEF k
  <2> QED  BY <2>1, <2>3
<1>11. ASSUME NEW i \in 1 .. n, NEW j \in 1 .. n, i < j PROVE <<a[i], a[j]>> \in R
  <2>1. /\ a[i] \in S /\ a[j] \in S /\ a[i] # a[j]
        /\ Cardinality(Preceding(S, R, a[i])) = i - 1 /\ Cardinality(Preceding(S, R, a[j])) = j - 1
    BY <1>1, <1>7, <1>9, <1>11
  <2>2. <<a[j], a[i]>> \in R => j - 1 < i - 1
    BY <2>1, PlacesRise
  <2> QED  BY <1>1, <1>11, <2>1, <2>2 DEF StrictOrder
<1> QED  BY <1>1, <1>8, <1>9, <1>10, <1>11 DEF a, n
=============================================================================
