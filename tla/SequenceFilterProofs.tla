------------------------ MODULE SequenceFilterProofs ------------------------
(***************************************************************************)
(* What Filter keeps, in which order and how often.  Filter is a recursive *)
(* function, so there is an induction below: over a set of numbers, as the *)
(* induction theorems of the library take an operator.                     *)
(***************************************************************************)
EXTENDS SequenceFilter, WellFoundedInduction, TLAPS

-----------------------------------------------------------------------------
(* Induction *)

\* A set of natural numbers has a least one.
LEMMA LeastNat ==
  ASSUME NEW T \in SUBSET Nat, T # {}
  PROVE  \E n \in T : \A m \in T : n <= m
<1> DEFINE R == OpToRel(<, Nat)
<1>1. IsWellFoundedOn(R, Nat)
  BY NatLessThanWellFounded
<1>2. \A x, y \in Nat : <<y, x>> \in R <=> y < x
  BY DEF OpToRel
<1> HIDE DEF R
<1>3. PICK x \in T : \A y \in T : ~ (<<y, x>> \in R)
  BY <1>1, WFMin
<1>4. \A y \in T : ~(y < x)
  BY <1>2, <1>3, Zenon
<1> QED
  BY <1>4

\* A set with 0 and with the successor of each of its numbers has all of them.
LEMMA Induction ==
  ASSUME NEW S, 0 \in S, \A n \in Nat : n \in S => n + 1 \in S
  PROVE  Nat \subseteq S
<1> SUFFICES ASSUME Nat \ S # {} PROVE FALSE
  OBVIOUS
<1>1. PICK n \in Nat \ S : \A m \in Nat \ S : n <= m
  BY LeastNat
<1>2. n - 1 \in Nat /\ n - 1 \notin S
  BY <1>1
<1> QED
  BY <1>1, <1>2

-----------------------------------------------------------------------------
(* The recursion *)

FilterStep(s, S, f, n) ==
  IF n = 0 THEN <<>> ELSE IF s[n] \in S THEN Append(f[n - 1], s[n]) ELSE f[n - 1]

\* There is a function that the recursion defines,
LEMMA FilterExists ==
  ASSUME NEW s, NEW S, NEW n \in Nat
  PROVE  \E f : f = [m \in 0 .. n |-> FilterStep(s, S, f, m)]
<1> DEFINE Good == {k \in Nat : \E f : f = [m \in 0 .. k |-> FilterStep(s, S, f, m)]}
<1>1. 0 \in Good
  <2> DEFINE f == [m \in 0 .. 0 |-> <<>>]
  <2>1. f = [m \in 0 .. 0 |-> FilterStep(s, S, f, m)]
    BY DEF FilterStep
  <2> QED
    BY <2>1
<1>2. ASSUME NEW k \in Nat, k \in Good
      PROVE  k + 1 \in Good
  <2>1. PICK f : f = [m \in 0 .. k |-> FilterStep(s, S, f, m)]
    BY <1>2
  <2> DEFINE g == [m \in 0 .. k + 1 |-> IF m = k + 1 THEN FilterStep(s, S, f, m) ELSE f[m]]
  <2>2. \A m \in 0 .. k + 1 : g[m] = FilterStep(s, S, g, m)
    <3> SUFFICES ASSUME NEW m \in 0 .. k + 1 PROVE g[m] = FilterStep(s, S, g, m)
      OBVIOUS
    <3>1. m # 0 => g[m - 1] = f[m - 1]
      OBVIOUS
    <3>2. FilterStep(s, S, g, m) = FilterStep(s, S, f, m)
      BY <3>1 DEF FilterStep
    <3>3. g[m] = FilterStep(s, S, f, m)
      BY <2>1
    <3> QED
      BY <3>2, <3>3
  <2>3. g = [m \in 0 .. k + 1 |-> FilterStep(s, S, g, m)]
    <3>1. g = [m \in 0 .. k + 1 |-> g[m]]
      OBVIOUS
    <3> HIDE DEF g
    <3> QED
      BY <3>1, <2>2
  <2>4. \E h : h = [m \in 0 .. k + 1 |-> FilterStep(s, S, h, m)]
    <3> HIDE DEF g
    <3> QED
      BY <2>3
  <2> QED
    BY <2>4
<1> HIDE DEF Good
<1>3. n \in Good
  BY <1>1, <1>2, Induction
<1> QED
  BY <1>3 DEF Good

\* and FilterOfPrefix is one.
LEMMA FilterDef ==
  ASSUME NEW T, NEW s \in Seq(T), NEW S
  PROVE  /\ FilterOfPrefix(s, S)[0] = <<>>
         /\ \A n \in 1 .. Len(s) :
              FilterOfPrefix(s, S)[n] = IF s[n] \in S THEN Append(FilterOfPrefix(s, S)[n - 1], s[n])
                                      ELSE FilterOfPrefix(s, S)[n - 1]
<1> DEFINE f == FilterOfPrefix(s, S)
<1>1. f = CHOOSE g : g = [n \in 0 .. Len(s) |-> FilterStep(s, S, g, n)]
  BY DEF FilterOfPrefix, FilterStep
<1>2. f = [n \in 0 .. Len(s) |-> FilterStep(s, S, f, n)]
  <2> HIDE DEF f
  <2>0. Len(s) \in Nat
    OBVIOUS
  <2>1. \E g : g = [n \in 0 .. Len(s) |-> FilterStep(s, S, g, n)]
    BY <2>0, FilterExists
  <2> QED
    BY <1>1, <2>1
<1>3. Len(s) \in Nat
  OBVIOUS
<1> HIDE DEF f
<1>4. \A n \in 0 .. Len(s) : f[n] = FilterStep(s, S, f, n)
  BY <1>2
<1>5. \A n \in 1 .. Len(s) : f[n] = IF s[n] \in S THEN Append(f[n - 1], s[n]) ELSE f[n - 1]
  BY <1>3, <1>4 DEF FilterStep
<1>6. f[0] = <<>>
  BY <1>3, <1>4 DEF FilterStep
<1> QED
  BY <1>5, <1>6 DEF f

-----------------------------------------------------------------------------
(* What is left *)

\* r is what S leaves of the first n elements of s: g tells where each element was.
Picks(s, S, n, r, g) ==
  /\ g \in [1 .. Len(r) -> 1 .. n]
  /\ \A i \in 1 .. Len(r) : r[i] = s[g[i]] /\ s[g[i]] \in S
  /\ \A i, j \in 1 .. Len(r) : i < j => g[i] < g[j]
  /\ \A k \in 1 .. n : s[k] \in S => \E i \in 1 .. Len(r) : g[i] = k

\* Each prefix is cut so.
LEMMA PrefixPicks ==
  ASSUME NEW T, NEW s \in Seq(T), NEW S
  PROVE  \A n \in 0 .. Len(s) :
           LET r == FilterOfPrefix(s, S)[n]
           IN  r \in Seq(T) /\ Len(r) <= n /\ \E g : Picks(s, S, n, r, g)
<1> DEFINE f == FilterOfPrefix(s, S)
           Good == {n \in Nat : n <= Len(s) => f[n] \in Seq(T) /\ Len(f[n]) <= n /\ \E g : Picks(s, S, n, f[n], g)}
<1>a. Len(s) \in Nat
  OBVIOUS
<1>1. 0 \in Good
  <2>1. f[0] = <<>>
    BY FilterDef
  <2> DEFINE g == [i \in {} |-> i]
  <2>2. Picks(s, S, 0, <<>>, g)
    BY DEF Picks
  <2> HIDE DEF g, f
  <2>3. f[0] \in Seq(T) /\ Len(f[0]) <= 0 /\ \E h : Picks(s, S, 0, f[0], h)
    BY <2>1, <2>2
  <2> QED
    BY <2>3
<1>2. ASSUME NEW n \in Nat, n \in Good
      PROVE  n + 1 \in Good
  <2> SUFFICES ASSUME n + 1 <= Len(s)
               PROVE  f[n + 1] \in Seq(T) /\ Len(f[n + 1]) <= n + 1 /\ \E g : Picks(s, S, n + 1, f[n + 1], g)
    OBVIOUS
  <2>1. n + 1 \in 1 .. Len(s) /\ n <= Len(s)
    BY <1>a
  <2>2. f[n] \in Seq(T) /\ Len(f[n]) <= n /\ \E g : Picks(s, S, n, f[n], g)
    BY <1>2, <2>1
  <2>3. f[n + 1] = IF s[n + 1] \in S THEN Append(f[n], s[n + 1]) ELSE f[n]
    BY <2>1, FilterDef
  <2> HIDE DEF f
  <2>4. PICK g : Picks(s, S, n, f[n], g)
    BY <2>2
  <2>5. s[n + 1] \in T /\ Len(f[n]) \in Nat
    BY <2>1, <2>2
  <2>6. CASE s[n + 1] \notin S
    <3>1. Picks(s, S, n + 1, f[n], g)
      BY <2>4, <2>5, <2>6 DEF Picks
    <3> QED
      BY <2>2, <2>3, <2>5, <2>6, <3>1
  <2>7. CASE s[n + 1] \in S
    <3> DEFINE r == Append(f[n], s[n + 1])
               l == Len(f[n])
               h == [i \in 1 .. l + 1 |-> IF i = l + 1 THEN n + 1 ELSE g[i]]
    <3>1. /\ r \in Seq(T) /\ Len(r) = l + 1 /\ r[l + 1] = s[n + 1]
          /\ \A i \in 1 .. l : r[i] = f[n][i]
      BY <2>2, <2>5
    <3>2. /\ h \in [1 .. l + 1 -> 1 .. n + 1]
          /\ h[l + 1] = n + 1 /\ \A i \in 1 .. l : h[i] = g[i] /\ h[i] \in 1 .. n
      <4>1. g \in [1 .. l -> 1 .. n] /\ l \in Nat
        BY <2>4, <2>5 DEF Picks
      <4> HIDE DEF l
      <4>2. \A i \in 1 .. l : i # l + 1 /\ i \in 1 .. l + 1 /\ g[i] \in 1 .. n
        BY <4>1
      <4>3. \A i \in 1 .. l + 1 : h[i] \in 1 .. n + 1
        BY <4>1
      <4> QED
        BY <4>1, <4>2, <4>3
    <3> HIDE DEF r, h
    <3>3. \A i \in 1 .. l + 1 : r[i] = s[h[i]] /\ s[h[i]] \in S
      <4> SUFFICES ASSUME NEW i \in 1 .. l + 1
                   PROVE  r[i] = s[h[i]] /\ s[h[i]] \in S
        OBVIOUS
      <4>1. CASE i = l + 1
        BY <2>7, <3>1, <3>2, <4>1
      <4>2. CASE i \in 1 .. l
        BY <2>4, <3>1, <3>2, <4>2 DEF Picks
      <4> QED
        BY <2>5, <4>1, <4>2
    <3>4. \A i, j \in 1 .. l + 1 : i < j => h[i] < h[j]
      <4> SUFFICES ASSUME NEW i \in 1 .. l + 1, NEW j \in 1 .. l + 1, i < j
                   PROVE  h[i] < h[j]
        OBVIOUS
      <4>0. i \in 1 .. l
        BY <2>5
      <4>1. CASE j = l + 1
        BY <3>2, <4>0, <4>1
      <4>2. CASE j \in 1 .. l
        BY <2>4, <3>2, <4>0, <4>2 DEF Picks
      <4> QED
        BY <2>5, <4>1, <4>2
    <3>5. \A k \in 1 .. n + 1 : s[k] \in S => \E i \in 1 .. l + 1 : h[i] = k
      <4> SUFFICES ASSUME NEW k \in 1 .. n + 1, s[k] \in S
                   PROVE  \E i \in 1 .. l + 1 : h[i] = k
        OBVIOUS
      <4>1. CASE k = n + 1
        BY <2>5, <3>2, <4>1
      <4>2. CASE k \in 1 .. n
        <5>1. PICK i \in 1 .. l : g[i] = k
          BY <2>4, <4>2 DEF Picks
        <5> QED
          BY <2>5, <3>2, <5>1
      <4> QED
        BY <4>1, <4>2
    <3>6. Picks(s, S, n + 1, r, h)
      BY <3>1, <3>2, <3>3, <3>4, <3>5 DEF Picks
    <3>7. Len(r) <= n + 1 /\ f[n + 1] = r
      BY <2>2, <2>3, <2>5, <2>7, <3>1 DEF r
    <3> QED
      BY <3>1, <3>6, <3>7
  <2> QED
    BY <2>6, <2>7
<1>3. Nat \subseteq Good
  <2> HIDE DEF Good
  <2> QED
    BY <1>1, <1>2, Induction
<1>4. ASSUME NEW n \in 0 .. Len(s)
      PROVE  f[n] \in Seq(T) /\ Len(f[n]) <= n /\ \E g : Picks(s, S, n, f[n], g)
  BY <1>a, <1>3
<1> QED
  BY <1>4

\* What is left of a sequence, and in which order.
LEMMA FilterPicks ==
  ASSUME NEW T, NEW s \in Seq(T), NEW S
  PROVE  /\ Filter(s, S) \in Seq(T) /\ Len(Filter(s, S)) <= Len(s)
         /\ \E g : Picks(s, S, Len(s), Filter(s, S), g)
<1>1. Len(s) \in 0 .. Len(s)
  OBVIOUS
<1> QED
  BY <1>1, PrefixPicks DEF Filter

-----------------------------------------------------------------------------
(* What occurs in a sequence, and how often *)

Occurs(s, e) == \E i \in DOMAIN s : s[i] = e
Once(s) == \A i, j \in DOMAIN s : s[i] = s[j] => i = j

\* The elements of what is left.
LEMMA FilterOccurs ==
  ASSUME NEW T, NEW s \in Seq(T), NEW S
  PROVE  \A e : Occurs(Filter(s, S), e) <=> e \in S /\ Occurs(s, e)
<1> DEFINE r == Filter(s, S)
<1>1. PICK g : Picks(s, S, Len(s), r, g)
  BY FilterPicks
<1>2. r \in Seq(T)
  BY FilterPicks
<1> HIDE DEF r
<1>3. DOMAIN r = 1 .. Len(r) /\ DOMAIN s = 1 .. Len(s)
  BY <1>2
<1>4. \A i \in 1 .. Len(r) : g[i] \in 1 .. Len(s) /\ r[i] = s[g[i]] /\ r[i] \in S
  BY <1>1 DEF Picks
<1>5. \A k \in 1 .. Len(s) : s[k] \in S => \E i \in 1 .. Len(r) : r[i] = s[k]
  BY <1>1 DEF Picks
<1>6. \A e : Occurs(r, e) <=> e \in S /\ Occurs(s, e)
  BY <1>3, <1>4, <1>5 DEF Occurs
<1> QED
  BY <1>6 DEF r

\* A sequence without repetition stays so.
LEMMA FilterOnce ==
  ASSUME NEW T, NEW s \in Seq(T), NEW S, Once(s)
  PROVE  Once(Filter(s, S))
<1> DEFINE r == Filter(s, S)
<1>1. PICK g : Picks(s, S, Len(s), r, g)
  BY FilterPicks
<1>2. r \in Seq(T)
  BY FilterPicks
<1> HIDE DEF r
<1>3. DOMAIN r = 1 .. Len(r) /\ DOMAIN s = 1 .. Len(s) /\ Len(r) \in Nat
  BY <1>2
<1>4. \A i \in 1 .. Len(r) : g[i] \in 1 .. Len(s) /\ r[i] = s[g[i]]
  BY <1>1 DEF Picks
<1>5. ASSUME NEW i \in DOMAIN r, NEW j \in DOMAIN r, r[i] = r[j]
      PROVE  i = j
  <2>1. g[i] = g[j] /\ g[i] \in Nat /\ i \in Nat /\ j \in Nat
    BY <1>3, <1>4, <1>5 DEF Once
  <2>2. ~(i < j) /\ ~(j < i)
    BY <1>1, <1>3, <1>5, <2>1 DEF Picks
  <2> QED
    BY <2>1, <2>2
<1>6. Once(r)
  BY <1>5 DEF Once
<1> QED
  BY <1>6 DEF r

\* An element is put at the end,
LEMMA AppendOccurs ==
  ASSUME NEW T, NEW s \in Seq(T), NEW x \in T
  PROVE  /\ \A e : Occurs(Append(s, x), e) <=> Occurs(s, e) \/ e = x
         /\ Once(s) /\ ~Occurs(s, x) => Once(Append(s, x))
         /\ Head(Append(s, x)) = IF s = <<>> THEN x ELSE Head(s)
<1> DEFINE r == Append(s, x)
           l == Len(s)
<1>1. /\ r \in Seq(T) /\ Len(r) = l + 1 /\ r[l + 1] = x /\ l \in Nat
      /\ \A i \in 1 .. l : r[i] = s[i]
      /\ DOMAIN s = 1 .. l /\ DOMAIN r = 1 .. l + 1
  OBVIOUS
<1>2. Head(r) = r[1] /\ (s # <<>> => Head(s) = s[1] /\ l # 0) /\ (s = <<>> => l = 0)
  OBVIOUS
<1> HIDE DEF r, l
<1>3. \A e : Occurs(r, e) <=> Occurs(s, e) \/ e = x
  BY <1>1 DEF Occurs
<1>4. Once(s) /\ ~Occurs(s, x) => Once(r)
  BY <1>1 DEF Once, Occurs
<1>5. Head(r) = IF s = <<>> THEN x ELSE Head(s)
  BY <1>1, <1>2
<1> QED
  BY <1>3, <1>4, <1>5 DEF r

\* and taken from the front.
LEMMA TailOccurs ==
  ASSUME NEW T, NEW s \in Seq(T), s # <<>>
  PROVE  /\ Occurs(s, Head(s)) /\ Tail(s) \in Seq(T)
         /\ \A e : Occurs(s, e) <=> Occurs(Tail(s), e) \/ e = Head(s)
         /\ Once(s) => Once(Tail(s)) /\ ~Occurs(Tail(s), Head(s))
<1> DEFINE r == Tail(s)
           l == Len(s)
<1>1. /\ l \in Nat \ {0} /\ Head(s) = s[1]
      /\ r \in Seq(T) /\ Len(r) = l - 1 /\ \A i \in 1 .. l - 1 : r[i] = s[i + 1]
      /\ DOMAIN s = 1 .. l /\ DOMAIN r = 1 .. l - 1
  OBVIOUS
<1> HIDE DEF r, l
<1>2. \A i \in 2 .. l : i - 1 \in 1 .. l - 1 /\ r[i - 1] = s[i]
  <2> SUFFICES ASSUME NEW i \in 2 .. l PROVE i - 1 \in 1 .. l - 1 /\ r[i - 1] = s[i]
    OBVIOUS
  <2>1. i - 1 \in 1 .. l - 1 /\ (i - 1) + 1 = i
    BY <1>1
  <2> QED
    BY <1>1, <2>1
<1>3. \A i \in 1 .. l - 1 : i + 1 \in 2 .. l
  BY <1>1
<1>4. 1 .. l = {1} \cup 2 .. l /\ 1 \notin 2 .. l
  BY <1>1
<1>5. \A e : Occurs(s, e) <=> Occurs(r, e) \/ e = Head(s)
  BY <1>1, <1>2, <1>3, <1>4 DEF Occurs
<1>6. Once(s) => Once(r)
  <2> SUFFICES ASSUME Once(s), NEW i \in 1 .. l - 1, NEW j \in 1 .. l - 1, r[i] = r[j]
               PROVE  i = j
    BY <1>1 DEF Once
  <2>1. i + 1 \in 1 .. l /\ j + 1 \in 1 .. l /\ s[i + 1] = s[j + 1]
    BY <1>1
  <2>2. i + 1 = j + 1
    BY <1>1, <2>1 DEF Once
  <2> QED
    BY <1>1, <2>2
<1>7. Once(s) => ~Occurs(r, Head(s))
  <2> SUFFICES ASSUME Once(s), NEW i \in 1 .. l - 1, r[i] = s[1]
               PROVE  FALSE
    BY <1>1 DEF Occurs
  <2>1. i + 1 \in 1 .. l /\ 1 \in 1 .. l /\ s[i + 1] = s[1]
    BY <1>1
  <2>2. i + 1 = 1
    BY <1>1, <2>1 DEF Once
  <2> QED
    BY <1>1, <2>2
<1> QED
  BY <1>1, <1>5, <1>6, <1>7 DEF r

=============================================================================
