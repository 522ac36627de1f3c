--------------------------- MODULE SequenceLemmas ---------------------------
(***************************************************************************)
(* Facts about functions defined by recursion on a number, about sequences *)
(* put end to end, about the places of their elements, and about the sets  *)
(* of their elements.  The library has some of them with an operator for a *)
(* parameter; here the induction is over a set of numbers, which rests on  *)
(* < being well-founded.                                                   *)
(***************************************************************************)
EXTENDS Naturals, Integers, Sequences, SequencesExt, WellFoundedInduction, TLAPS

\* A non-empty set of naturals has a least element.
LEMMA LeastOf ==
    ASSUME NEW S, S \subseteq Nat, S # {}
    PROVE  \E m \in S : \A x \in S : m <= x
<1> DEFINE R == {ss \in Nat \X Nat : ss[1] < ss[2]}
<1>1. IsWellFoundedOn(R, Nat)
  <2>1. IsWellFoundedOn(OpToRel(<, Nat), Nat)
    BY NatLessThanWellFounded
  <2> QED BY <2>1 DEF OpToRel
<1>2. PICK m \in S : \A y \in S : ~ (<<y, m>> \in R)
  <2> HIDE DEF R
  <2> QED BY <1>1, WFMin
<1>3. ASSUME NEW y \in S PROVE m <= y
  <2>1. <<y, m>> \in Nat \X Nat /\ ~ (<<y, m>> \in R)
    BY <1>2
  <2>2. ~ (y < m)
    BY <2>1
  <2> QED BY <2>2
<1> QED BY <1>3

\* Induction over the naturals, for a set.
LEMMA Induction ==
    ASSUME NEW T, 0 \in T, \A n \in Nat : n \in T => n + 1 \in T
    PROVE  Nat \subseteq T
<1> DEFINE S == {n \in Nat : n \notin T}
<1>1. SUFFICES ASSUME S # {} PROVE FALSE
  OBVIOUS
<1>2. S \subseteq Nat
  OBVIOUS
<1>3. PICK m \in S : \A x \in S : m <= x
  <2> HIDE DEF S
  <2> QED BY <1>1, <1>2, LeastOf
<1>4. m \in Nat /\ m # 0
  OBVIOUS
<1>5. m - 1 \in Nat /\ m - 1 \notin S
  BY <1>3, <1>4
<1> QED BY <1>4, <1>5

\* step takes the values of S to values of S, and f follows it from its first value on.
Stays(step, S) == \A n \in Nat, x \in S : step[n][x] \in S
Follows(f, S, first, step) ==
    f \in [Nat -> S] /\ f[0] = first /\ \A n \in Nat : f[n + 1] = step[n][f[n]]

\* A function over the naturals can be defined by its first value and its steps.
LEMMA Recursion ==
    ASSUME NEW S, NEW first \in S, NEW step, Stays(step, S)
    PROVE  \E f : Follows(f, S, first, step)
<1> USE DEF Stays
<1> DEFINE Partial(g, n) == /\ g \in [0..n -> S] /\ g[0] = first
                            /\ \A i \in 0..(n - 1) : g[i + 1] = step[i][g[i]]
<1>1. \A n \in Nat : \E g : Partial(g, n)
  <2> DEFINE T == {n \in Nat : \E g : Partial(g, n)}
  <2>1. 0 \in T
    <3>1. Partial([i \in 0..0 |-> first], 0)
      OBVIOUS
    <3> QED BY <3>1
  <2>2. ASSUME NEW n \in Nat, n \in T PROVE n + 1 \in T
    <3>1. PICK g : Partial(g, n)
      BY <2>2
    <3> DEFINE h == [i \in 0..(n + 1) |-> IF i = n + 1 THEN step[n][g[n]] ELSE g[i]]
    <3>2. Partial(h, n + 1)
      <4>1. h \in [0..(n + 1) -> S]
        BY <3>1
      <4>2. h[0] = first
        BY <3>1
      <4>3. ASSUME NEW i \in 0..(n + 1 - 1) PROVE h[i + 1] = step[i][h[i]]
        <5>1. CASE i = n
          BY <3>1, <5>1
        <5>2. CASE i \in 0..(n - 1)
          <6>1. i + 1 \in 0..n /\ i \in 0..n /\ g[i + 1] = step[i][g[i]]
            BY <3>1, <5>2
          <6> QED BY <6>1
        <5> QED BY <5>1, <5>2
      <4> HIDE DEF h
      <4> QED BY <4>1, <4>2, <4>3
    <3> HIDE DEF Partial, h
    <3> QED BY <3>2
  <2> HIDE DEF T
  <2>3. Nat \subseteq T
    BY <2>1, <2>2, Induction
  <2> QED BY <2>3 DEF T
<1>2. \A i, m, n \in Nat : \A g, h : i <= m /\ i <= n /\ Partial(g, m) /\ Partial(h, n) => g[i] = h[i]
  <2> DEFINE T == {i \in Nat : \A m, n \in Nat : \A g, h :
                        i <= m /\ i <= n /\ Partial(g, m) /\ Partial(h, n) => g[i] = h[i]}
  <2>1. 0 \in T
    OBVIOUS
  <2>2. ASSUME NEW i \in Nat, i \in T PROVE i + 1 \in T
    <3> SUFFICES ASSUME NEW m \in Nat, NEW n \in Nat, NEW g, NEW h, i + 1 <= m, i + 1 <= n,
                        Partial(g, m), Partial(h, n)
                 PROVE  g[i + 1] = h[i + 1]
      <4> HIDE DEF Partial
      <4> QED OBVIOUS
    <3>1. g[i] = h[i]
      <4>1. i <= m /\ i <= n
        OBVIOUS
      <4> HIDE DEF Partial
      <4> QED BY <2>2, <4>1
    <3>2. i \in 0..(m - 1) /\ i \in 0..(n - 1)
      OBVIOUS
    <3> QED BY <3>1, <3>2
  <2> HIDE DEF T
  <2>3. Nat \subseteq T
    BY <2>1, <2>2, Induction
  <2> QED BY <2>3 DEF T
<1> DEFINE G(n) == CHOOSE g : Partial(g, n)
           f == [n \in Nat |-> G(n)[n]]
<1>3. \A n \in Nat : Partial(G(n), n)
  <2> HIDE DEF Partial
  <2> QED BY <1>1, Zenon
<1> HIDE DEF G
<1>4. f \in [Nat -> S]
  BY <1>3
<1>5. f[0] = first
  BY <1>3
<1>6. ASSUME NEW n \in Nat PROVE f[n + 1] = step[n][f[n]]
  <2>1. Partial(G(n + 1), n + 1) /\ Partial(G(n), n)
    BY <1>3
  <2>2. G(n + 1)[n] = G(n)[n]
    <3> HIDE DEF Partial
    <3> QED BY <1>2, <2>1
  <2>3. G(n + 1)[n + 1] = step[n][G(n + 1)[n]]
    BY <2>1
  <2> QED BY <2>2, <2>3
<1> HIDE DEF f
<1>7. Follows(f, S, first, step)
  BY <1>4, <1>5, <1>6 DEF Follows
<1> QED BY <1>7

\* FlattenSeq puts the sequences behind each other, one after the other.
LEMMA Flattening ==
    ASSUME NEW S, NEW ss \in Seq(Seq(S))
    PROVE  \E F \in [Nat -> Seq(S)] :
                /\ F[0] = <<>>
                /\ \A i \in 1..Len(ss) : F[i] = F[i - 1] \o ss[i]
                /\ FlattenSeq(ss) = F[Len(ss)]
<1> DEFINE N == Len(ss)
           step == [n \in Nat |-> [s \in Seq(S) |-> IF n + 1 \in 1..N THEN s \o ss[n + 1] ELSE s]]
<1>0. N \in Nat /\ \A i \in 1..N : ss[i] \in Seq(S)
  OBVIOUS
<1>1. Stays(step, Seq(S))
  BY <1>0 DEF Stays
<1>2. <<>> \in Seq(S)
  OBVIOUS
<1>3. PICK F \in [Nat -> Seq(S)] : F[0] = <<>> /\ \A n \in Nat : F[n + 1] = step[n][F[n]]
  <2> HIDE DEF step
  <2>1. \E f : Follows(f, Seq(S), <<>>, step)
    BY <1>1, <1>2, Recursion
  <2> QED BY <2>1 DEF Follows
<1>4. \A i \in 1..N : F[i] = F[i - 1] \o ss[i]
  <2> SUFFICES ASSUME NEW i \in 1..N PROVE F[i] = F[i - 1] \o ss[i]
    OBVIOUS
  <2>1. i - 1 \in Nat /\ (i - 1) + 1 = i
    BY <1>0
  <2>2. F[i] = step[i - 1][F[i - 1]]
    BY <1>3, <2>1
  <2> QED BY <2>1, <2>2
<1> HIDE DEF step, N
<1>6. \A s \in Seq(S) : <<>> \o s = s
  OBVIOUS
<1>5. FlattenSeq(ss) = F[N]
  <2>1. CASE N = 0
    <3>1. FlattenSeq(ss) = ss
      BY <2>1 DEF FlattenSeq, N
    <3>2. ss = <<>>
      BY <2>1 DEF N
    <3> QED BY <1>3, <2>1, <3>1, <3>2
  <2>2. CASE N # 0
    <3> DEFINE flatten[i \in 1..N] == IF i = 1 THEN ss[i] ELSE flatten[i - 1] \o ss[i]
               h == [i \in 1..N |-> F[i]]
               Fits(g) == g = [i \in 1..N |-> IF i = 1 THEN ss[i] ELSE g[i - 1] \o ss[i]]
    <3>1. FlattenSeq(ss) = flatten[N]
      BY <2>2 DEF FlattenSeq, N
    <3>2. Fits(h)
      <4> SUFFICES ASSUME NEW i \in 1..N
                   PROVE  h[i] = IF i = 1 THEN ss[i] ELSE h[i - 1] \o ss[i]
        OBVIOUS
      <4>1. CASE i = 1
        <5>1. F[i] = F[0] \o ss[i] /\ ss[i] \in Seq(S)
          <6>1. i - 1 = 0
            BY <4>1
          <6> QED BY <1>0, <1>4, <6>1
        <5>2. F[i] = ss[i]
          BY <1>3, <5>1
        <5> QED BY <4>1, <5>2
      <4>2. CASE i # 1
        <5>1. i - 1 \in 1..N
          BY <1>0, <4>2
        <5>2. h[i - 1] = F[i - 1] /\ h[i] = F[i]
          BY <5>1
        <5> QED BY <1>4, <4>2, <5>2
      <4> QED BY <4>1, <4>2
    <3>3. Fits(flatten)
      <4>1. flatten = CHOOSE g : Fits(g)
        OBVIOUS
      <4> HIDE DEF flatten, Fits
      <4> QED BY <3>2, <4>1, Zenon
    <3> HIDE DEF flatten, h
    <3>4. \A i \in 1..N : flatten[i] = IF i = 1 THEN ss[i] ELSE flatten[i - 1] \o ss[i]
      BY <3>3
    <3> HIDE DEF Fits
    <3>5. ASSUME NEW n \in Nat, n \in 1..N => flatten[n] = F[n], n + 1 \in 1..N
          PROVE  flatten[n + 1] = F[n + 1]
      <4>1. PICK i \in 1..N : i = n + 1
        BY <3>5
      <4>2. i - 1 = n /\ ss[i] \in Seq(S) /\ (i = 1 => n = 0) /\ (i # 1 => n \in 1..N)
        BY <1>0, <4>1
      <4>3. F[i] = F[n] \o ss[i]
        BY <1>4, <4>2
      <4>4. flatten[i] = IF i = 1 THEN ss[i] ELSE flatten[n] \o ss[i]
        BY <3>4, <4>2
      <4>5. CASE i = 1
        <5>1. F[i] = ss[i]
          BY <1>3, <4>2, <4>3, <4>5, <1>6
        <5> QED BY <4>1, <4>4, <4>5, <5>1
      <4>6. CASE i # 1
        BY <3>5, <4>1, <4>2, <4>3, <4>4, <4>6
      <4> QED BY <4>5, <4>6
    <3>6. \A n \in Nat : n \in 1..N => flatten[n] = F[n]
      <4> DEFINE T == {n \in Nat : n \in 1..N => flatten[n] = F[n]}
      <4>1. 0 \in T
        OBVIOUS
      <4>2. ASSUME NEW n \in Nat, n \in T PROVE n + 1 \in T
        BY <3>5, <4>2
      <4> HIDE DEF T
      <4>3. Nat \subseteq T
        BY <4>1, <4>2, Induction
      <4> QED BY <4>3 DEF T
    <3> QED BY <1>0, <2>2, <3>1, <3>6
  <2> QED BY <2>1, <2>2
<1> QED BY <1>3, <1>4, <1>5 DEF N
\* Where the sequences stand in what FlattenSeq makes of them.
Upto(ss, n) == [i \in 1..n |-> ss[i]]
Before(ss, n) == Len(FlattenSeq(Upto(ss, n)))

LEMMA FlatteningPlaces ==
    ASSUME NEW S, NEW ss \in Seq(Seq(S))
    PROVE  /\ FlattenSeq(ss) \in Seq(S)
           /\ Before(ss, 0) = 0 /\ Before(ss, Len(ss)) = Len(FlattenSeq(ss))
           /\ \A n \in 0..Len(ss) : Before(ss, n) \in Nat /\ Before(ss, n) <= Len(FlattenSeq(ss))
           /\ \A n \in 1..Len(ss) :
                /\ Before(ss, n) = Before(ss, n - 1) + Len(ss[n])
                /\ \A i \in 1..Len(ss[n]) : FlattenSeq(ss)[Before(ss, n - 1) + i] = ss[n][i]
<1> DEFINE N == Len(ss)
<1>0. N \in Nat /\ \A i \in 1..N : ss[i] \in Seq(S)
  OBVIOUS
<1>1. PICK F \in [Nat -> Seq(S)] : /\ F[0] = <<>>
                                   /\ \A i \in 1..N : F[i] = F[i - 1] \o ss[i]
                                   /\ FlattenSeq(ss) = F[N]
  BY Flattening
<1> HIDE DEF N
<1>9. \A i \in 0..N : F[i] \in Seq(S) /\ Len(F[i]) \in Nat
  <2>1. \A i \in 0..N : F[i] \in Seq(S)
    BY <1>0
  <2> QED BY <2>1
<1>2. ASSUME NEW n \in 0..N PROVE FlattenSeq(Upto(ss, n)) = F[n]
  <2> DEFINE us == Upto(ss, n)
  <2>1. us \in Seq(Seq(S)) /\ Len(us) = n /\ \A i \in 1..n : us[i] = ss[i]
    BY <1>0 DEF Upto
  <2> HIDE DEF us
  <2>2. PICK G \in [Nat -> Seq(S)] : /\ G[0] = <<>>
                                     /\ \A i \in 1..n : G[i] = G[i - 1] \o us[i]
                                     /\ FlattenSeq(us) = G[n]
    BY <2>1, Flattening
  <2> DEFINE T == {i \in Nat : i <= n => G[i] = F[i]}
  <2>3. 0 \in T
    BY <1>1, <2>2
  <2>4. ASSUME NEW i \in Nat, i \in T PROVE i + 1 \in T
    <3> SUFFICES ASSUME i + 1 <= n PROVE G[i + 1] = F[i + 1]
      OBVIOUS
    <3>1. PICK j \in 1..n : j = i + 1
      OBVIOUS
    <3>2. j \in 1..N /\ j - 1 = i /\ G[i] = F[i]
      BY <1>0, <2>4, <3>1
    <3> QED BY <1>1, <2>1, <2>2, <3>1, <3>2
  <2> HIDE DEF T
  <2>5. Nat \subseteq T
    BY <2>3, <2>4, Induction
  <2>6. n \in T
    BY <2>5
  <2> QED BY <2>2, <2>6 DEF T, us
<1>3. \A n \in 0..N : Before(ss, n) = Len(F[n])
  BY <1>2 DEF Before
<1>4. ASSUME NEW n \in 1..N
      PROVE  /\ Len(F[n]) = Len(F[n - 1]) + Len(ss[n])
             /\ \A i \in 1..Len(ss[n]) : F[n][Len(F[n - 1]) + i] = ss[n][i]
             /\ \A i \in 1..Len(F[n - 1]) : F[n][i] = F[n - 1][i]
  <2>0. n - 1 \in 0..N
    BY <1>0
  <2>1. F[n - 1] \in Seq(S) /\ ss[n] \in Seq(S) /\ F[n] = F[n - 1] \o ss[n]
    BY <1>0, <1>1, <1>9, <2>0
  <2>2. \A a, b \in Seq(S) : /\ Len(a \o b) = Len(a) + Len(b)
                             /\ \A i \in 1..Len(b) : (a \o b)[Len(a) + i] = b[i]
                             /\ \A i \in 1..Len(a) : (a \o b)[i] = a[i]
    OBVIOUS
  <2> DEFINE a == F[n - 1]
             b == ss[n]
  <2>3. a \in Seq(S) /\ b \in Seq(S) /\ F[n] = a \o b
    BY <2>1
  <2> HIDE DEF a, b
  <2>4. /\ Len(F[n]) = Len(a) + Len(b)
        /\ \A i \in 1..Len(b) : F[n][Len(a) + i] = b[i]
        /\ \A i \in 1..Len(a) : F[n][i] = a[i]
    BY <2>2, <2>3
  <2> QED BY <2>4 DEF a, b
<1>5. ASSUME NEW n \in 0..N
      PROVE  Len(F[n]) <= Len(F[N]) /\ \A i \in 1..Len(F[n]) : F[N][i] = F[n][i]
  <2> DEFINE Keeps(m) == Len(F[n]) <= Len(F[m]) /\ \A i \in 1..Len(F[n]) : F[m][i] = F[n][i]
             T == {k \in Nat : n + k <= N => Keeps(n + k)}
  <2>1. 0 \in T
    <3>1. n + 0 = n /\ Len(F[n]) \in Nat
      OBVIOUS
    <3> QED BY <3>1
  <2>2. ASSUME NEW k \in Nat, k \in T PROVE k + 1 \in T
    <3> SUFFICES ASSUME n + (k + 1) <= N PROVE Keeps(n + (k + 1))
      OBVIOUS
    <3>1. PICK m \in 1..N : m = n + (k + 1) /\ m - 1 = n + k
      BY <1>0
    <3>2. Keeps(m - 1)
      BY <1>0, <2>2, <3>1
    <3>3. Len(F[n]) \in Nat /\ Len(F[m - 1]) \in Nat /\ Len(F[m]) \in Nat /\ Len(ss[m]) \in Nat
      <4>1. m - 1 \in 0..N /\ m \in 0..N /\ ss[m] \in Seq(S)
        BY <1>0
      <4>2. \A a \in Seq(S) : Len(a) \in Nat
        OBVIOUS
      <4> QED BY <1>9, <4>1, <4>2, Zenon
    <3>4. Keeps(m)
      <4>1. Len(F[n]) <= Len(F[m])
        <5>1. Len(F[m]) = Len(F[m - 1]) + Len(ss[m]) /\ Len(F[n]) <= Len(F[m - 1])
          BY <1>4, <3>2
        <5>2. \A a, b, c, d \in Nat : a = b + c /\ d <= b => d <= a
          OBVIOUS
        <5> QED BY <3>3, <5>1, <5>2, Zenon
      <4>2. ASSUME NEW i \in 1..Len(F[n]) PROVE F[m][i] = F[n][i]
        <5>1. i \in 1..Len(F[m - 1]) /\ F[m - 1][i] = F[n][i]
          BY <3>2, <3>3
        <5> QED BY <1>4, <5>1
      <4> QED BY <4>1, <4>2
    <3> QED BY <3>1, <3>4
  <2> HIDE DEF T, Keeps
  <2>3. Nat \subseteq T
    BY <2>1, <2>2, Induction
  <2>4. N - n \in Nat /\ n + (N - n) = N
    BY <1>0
  <2>6. N - n \in T
    BY <2>3, <2>4
  <2>7. N <= N
    BY <1>0
  <2>5. Keeps(N)
    BY <2>4, <2>6, <2>7 DEF T
  <2> QED BY <2>5 DEF Keeps
<1>6. \A n \in 0..N : Len(F[n]) \in Nat
  BY <1>9
<1>7. ASSUME NEW n \in 1..N
      PROVE  /\ Before(ss, n) = Before(ss, n - 1) + Len(ss[n])
             /\ \A i \in 1..Len(ss[n]) : FlattenSeq(ss)[Before(ss, n - 1) + i] = ss[n][i]
  <2>1. n - 1 \in 0..N /\ n \in 0..N /\ Before(ss, n) = Len(F[n]) /\ Before(ss, n - 1) = Len(F[n - 1])
    <3>1. n - 1 \in 0..N /\ n \in 0..N
      BY <1>0
    <3> QED BY <1>3, <3>1
  <2>2. ASSUME NEW i \in 1..Len(ss[n]) PROVE Len(F[n - 1]) + i \in 1..Len(F[n])
    <3>1. Len(F[n]) = Len(F[n - 1]) + Len(ss[n]) /\ Len(ss[n]) \in Nat
      <4>1. ss[n] \in Seq(S)
        BY <1>0
      <4>2. \A a \in Seq(S) : Len(a) \in Nat
        OBVIOUS
      <4> QED BY <1>4, <4>1, <4>2, Zenon
    <3> QED BY <1>6, <2>1, <3>1
  <2> QED BY <1>1, <1>4, <1>5, <2>1, <2>2
<1>8. 0 \in 0..N /\ N \in 0..N /\ Len(F[0]) = 0
  BY <1>0, <1>1
<1> QED BY <1>1, <1>3, <1>5, <1>6, <1>7, <1>8, <1>9 DEF N
-----------------------------------------------------------------------------
(* The sets of elements of sequences. *)

\* A sequence of any elements.
IsSeq(s) == s \in Seq(ToSet(s))

LEMMA SeqIsSeq ==
    ASSUME NEW S, NEW s \in Seq(S)
    PROVE  IsSeq(s) /\ ToSet(s) \subseteq S
<1>1. DOMAIN s = 1..Len(s) /\ Len(s) \in Nat /\ \A i \in DOMAIN s : s[i] \in S
  OBVIOUS
<1>2. s = [i \in 1..Len(s) |-> s[i]]
  BY <1>1
<1>3. ToSet(s) = {s[i] : i \in 1..Len(s)}
  BY <1>1 DEF ToSet
<1>4. s \in [1..Len(s) -> ToSet(s)]
  BY <1>2, <1>3
<1>5. s \in Seq(ToSet(s))
  BY <1>1, <1>4
<1> QED BY <1>1, <1>3, <1>5 DEF IsSeq

LEMMA IsSeqOver ==
    ASSUME NEW S, NEW s, IsSeq(s), ToSet(s) \subseteq S
    PROVE  s \in Seq(S)
BY DEF IsSeq

LEMMA SeqFacts ==
    ASSUME NEW s, IsSeq(s)
    PROVE  /\ Len(s) \in Nat /\ DOMAIN s = 1..Len(s)
           /\ s = <<>> <=> Len(s) = 0
           /\ s = <<>> <=> ToSet(s) = {}
           /\ \A x : x \in ToSet(s) <=> \E i \in 1..Len(s) : s[i] = x
<1> DEFINE S == ToSet(s)
<1>1. s \in Seq(S)
  BY DEF IsSeq
<1> HIDE DEF S
<1>2. Len(s) \in Nat /\ DOMAIN s = 1..Len(s) /\ (s = <<>> <=> Len(s) = 0)
  BY <1>1
<1>3. \A x : x \in ToSet(s) <=> \E i \in 1..Len(s) : s[i] = x
  BY <1>2 DEF ToSet
<1>4. ASSUME Len(s) # 0 PROVE ToSet(s) # {}
  <2>1. 1 \in 1..Len(s)
    BY <1>2, <1>4
  <2>2. s[1] \in ToSet(s)
    BY <1>3, <2>1
  <2> QED BY <2>2
<1>5. ASSUME Len(s) = 0 PROVE ToSet(s) = {}
  <2>1. 1..Len(s) = {}
    BY <1>5
  <2> QED BY <1>3, <2>1
<1>6. s = <<>> <=> ToSet(s) = {}
  BY <1>2, <1>4, <1>5
<1> QED BY <1>2, <1>3, <1>6

LEMMA FunctionIsSeq ==
    ASSUME NEW n \in Nat, NEW f, f = [i \in 1..n |-> f[i]]
    PROVE  IsSeq(f) /\ Len(f) = n /\ DOMAIN f = 1..n
<1> DEFINE S == {f[i] : i \in 1..n}
<1>1. f \in [1..n -> S]
  OBVIOUS
<1> HIDE DEF S
<1>2. f \in Seq(S)
  BY <1>1
<1>3. Len(f) = n /\ DOMAIN f = 1..n
  BY <1>1, <1>2
<1> QED BY <1>2, <1>3, SeqIsSeq

LEMMA SetOfNone == IsSeq(<<>>) /\ ToSet(<<>>) = {}
<1>1. ToSet(<<>>) = {}
  BY DEF ToSet
<1>2. <<>> \in Seq({})
  OBVIOUS
<1> QED BY <1>1, <1>2 DEF IsSeq

LEMMA SetOfOne ==
    ASSUME NEW x
    PROVE  IsSeq(<<x>>) /\ ToSet(<<x>>) = {x}
<1>1. <<x>> \in Seq({x})
  OBVIOUS
<1>2. IsSeq(<<x>>)
  BY <1>1, SeqIsSeq
<1>3. Len(<<x>>) = 1 /\ <<x>>[1] = x
  OBVIOUS
<1>4. \A y : y \in ToSet(<<x>>) <=> \E i \in 1..1 : <<x>>[i] = y
  BY <1>2, <1>3, SeqFacts
<1> QED BY <1>2, <1>3, <1>4

LEMMA SetOfConcat ==
    ASSUME NEW a, NEW b, IsSeq(a), IsSeq(b)
    PROVE  IsSeq(a \o b) /\ ToSet(a \o b) = ToSet(a) \cup ToSet(b)
<1> DEFINE S == ToSet(a) \cup ToSet(b)
           c == a \o b
<1>1. a \in Seq(S) /\ b \in Seq(S)
  BY IsSeqOver
<1> HIDE DEF S
<1>2. /\ c \in Seq(S) /\ Len(c) = Len(a) + Len(b) /\ Len(a) \in Nat /\ Len(b) \in Nat
      /\ \A i \in 1..Len(c) : c[i] = IF i <= Len(a) THEN a[i] ELSE b[i - Len(a)]
  BY <1>1
<1>3. IsSeq(c)
  BY <1>2, SeqIsSeq
<1> HIDE DEF c
<1>4. ASSUME NEW x \in ToSet(c) PROVE x \in ToSet(a) \cup ToSet(b)
  <2>1. PICK i \in 1..Len(c) : c[i] = x
    BY <1>3, SeqFacts
  <2>2. CASE i <= Len(a)
    BY <1>2, <2>1, <2>2, SeqFacts
  <2>3. CASE ~(i <= Len(a))
    <3>1. i - Len(a) \in 1..Len(b) /\ b[i - Len(a)] = x
      BY <1>2, <2>1, <2>3
    <3> QED BY <3>1, SeqFacts
  <2> QED BY <2>2, <2>3
<1>5. ASSUME NEW x \in ToSet(a) PROVE x \in ToSet(c)
  <2>1. PICK i \in 1..Len(a) : a[i] = x
    BY SeqFacts
  <2>2. i \in 1..Len(c) /\ c[i] = x
    BY <1>2, <2>1
  <2> QED BY <1>3, <2>2, SeqFacts
<1>6. ASSUME NEW x \in ToSet(b) PROVE x \in ToSet(c)
  <2>1. PICK i \in 1..Len(b) : b[i] = x
    BY SeqFacts
  <2>2. PICK j \in 1..Len(c) : j = Len(a) + i
    BY <1>2
  <2>3. ~(j <= Len(a)) /\ j - Len(a) = i
    BY <1>2, <2>2
  <2>4. c[j] = x
    BY <1>2, <2>1, <2>3
  <2> QED BY <1>3, <2>4, SeqFacts
<1>7. ToSet(c) = ToSet(a) \cup ToSet(b)
  BY <1>4, <1>5, <1>6
<1> QED BY <1>3, <1>7 DEF c

LEMMA SetOfAppend ==
    ASSUME NEW s, IsSeq(s), NEW x
    PROVE  /\ IsSeq(Append(s, x)) /\ ToSet(Append(s, x)) = ToSet(s) \cup {x}
           /\ Len(s) \in Nat /\ Len(Append(s, x)) = Len(s) + 1
           /\ Append(s, x)[Len(s) + 1] = x
           /\ \A i \in 1..Len(s) : Append(s, x)[i] = s[i]
           /\ DOMAIN Append(s, x) = 1..(Len(s) + 1)
           /\ Append(s, x) = s \o <<x>>
<1> DEFINE S == ToSet(s) \cup {x}
<1>1. s \in Seq(S) /\ x \in S
  BY IsSeqOver
<1> HIDE DEF S
<1>2. /\ Append(s, x) \in Seq(S) /\ Len(s) \in Nat /\ Len(Append(s, x)) = Len(s) + 1
      /\ Append(s, x)[Len(s) + 1] = x /\ \A i \in 1..Len(s) : Append(s, x)[i] = s[i]
      /\ DOMAIN Append(s, x) = 1..(Len(s) + 1)
  BY <1>1
<1>3. Append(s, x) = s \o <<x>>
  BY <1>1
<1>4. IsSeq(s \o <<x>>) /\ ToSet(s \o <<x>>) = ToSet(s) \cup {x}
  BY SetOfOne, SetOfConcat
<1> QED BY <1>2, <1>3, <1>4

LEMMA SetOfPart ==
    ASSUME NEW s, IsSeq(s), NEW m \in Nat \ {0}, NEW n \in 0..Len(s)
    PROVE  /\ IsSeq(SubSeq(s, m, n)) /\ ToSet(SubSeq(s, m, n)) \subseteq ToSet(s)
           /\ Len(SubSeq(s, m, n)) = IF m <= n THEN n - m + 1 ELSE 0
           /\ \A i \in 1..Len(SubSeq(s, m, n)) : SubSeq(s, m, n)[i] = s[m + i - 1]
<1> DEFINE l == IF m <= n THEN n - m + 1 ELSE 0
           f == [i \in 1..l |-> s[m + i - 1]]
<1>0. Len(s) \in Nat
  BY SeqFacts
<1>1. SubSeq(s, m, n) = f
  BY <1>0
<1>2. l \in Nat
  BY <1>0
<1>3. IsSeq(f) /\ Len(f) = l /\ \A i \in 1..l : f[i] = s[m + i - 1]
  <2>1. f = [i \in 1..l |-> f[i]] /\ \A i \in 1..l : f[i] = s[m + i - 1]
    OBVIOUS
  <2> HIDE DEF f, l
  <2> QED BY <1>2, <2>1, FunctionIsSeq
<1>4. \A i \in 1..l : m + i - 1 \in 1..Len(s)
  BY <1>0
<1> HIDE DEF f, l
<1>5. ASSUME NEW x \in ToSet(f) PROVE x \in ToSet(s)
  <2>1. PICK i \in 1..l : f[i] = x
    BY <1>3, SeqFacts
  <2> QED BY <1>3, <1>4, <2>1, SeqFacts
<1> QED BY <1>1, <1>3, <1>5 DEF l

LEMMA SetOfFlat ==
    ASSUME NEW ss, IsSeq(ss), \A i \in 1..Len(ss) : IsSeq(ss[i])
    PROVE  /\ IsSeq(FlattenSeq(ss))
           /\ \A x : x \in ToSet(FlattenSeq(ss)) <=> \E i \in 1..Len(ss) : x \in ToSet(ss[i])
<1> DEFINE S == UNION {ToSet(ss[i]) : i \in 1..Len(ss)}
           N == Len(ss)
           f == FlattenSeq(ss)
<1>1. N \in Nat /\ DOMAIN ss = 1..N
  BY SeqFacts
<1>2. ASSUME NEW i \in 1..N PROVE ss[i] \in Seq(S)
  <2>1. ToSet(ss[i]) \subseteq S /\ IsSeq(ss[i])
    OBVIOUS
  <2> HIDE DEF S
  <2> QED BY <2>1, IsSeqOver
<1>3. ss \in Seq(Seq(S))
  <2>1. ToSet(ss) \subseteq Seq(S)
    <3> SUFFICES ASSUME NEW x \in ToSet(ss) PROVE x \in Seq(S)
      OBVIOUS
    <3>1. PICK i \in 1..N : ss[i] = x
      BY SeqFacts
    <3> HIDE DEF S
    <3> QED BY <1>2, <3>1
  <2> HIDE DEF S
  <2> QED BY <2>1, IsSeqOver
<1> HIDE DEF S
<1>4. /\ f \in Seq(S)
      /\ Before(ss, 0) = 0 /\ Before(ss, N) = Len(f)
      /\ \A n \in 0..N : Before(ss, n) \in Nat /\ Before(ss, n) <= Len(f)
      /\ \A n \in 1..N :
                /\ Before(ss, n) = Before(ss, n - 1) + Len(ss[n])
                /\ \A i \in 1..Len(ss[n]) : f[Before(ss, n - 1) + i] = ss[n][i]
  BY <1>3, FlatteningPlaces
<1>5. IsSeq(f) /\ Len(f) \in Nat
  BY <1>4, SeqIsSeq
<1> HIDE DEF f, N
<1>6. ASSUME NEW i \in 1..N, NEW x \in ToSet(ss[i]) PROVE x \in ToSet(f)
  <2>1. PICK j \in 1..Len(ss[i]) : ss[i][j] = x
    BY SeqFacts DEF N
  <2>2. f[Before(ss, i - 1) + j] = x
    BY <1>4, <2>1
  <2>3. /\ Before(ss, i - 1) \in Nat /\ Before(ss, i) <= Len(f) /\ Len(ss[i]) \in Nat
        /\ Before(ss, i) = Before(ss, i - 1) + Len(ss[i])
    <3>1. i - 1 \in 0..N /\ i \in 0..N
      BY <1>1
    <3>2. IsSeq(ss[i])
      BY DEF N
    <3> QED BY <1>4, <3>1, <3>2, SeqFacts
  <2>4. Before(ss, i - 1) + j \in 1..Len(f)
    BY <1>5, <2>3
  <2> QED BY <1>5, <2>2, <2>4, SeqFacts
<1>7. ASSUME NEW x \in ToSet(f) PROVE \E i \in 1..N : x \in ToSet(ss[i])
  <2>1. PICK p \in 1..Len(f) : f[p] = x
    BY <1>5, SeqFacts
  <2> DEFINE R == {n \in 0..N : p <= Before(ss, n)}
  <2>2. N \in R /\ R \subseteq Nat
    BY <1>1, <1>4, <1>5
  <2>3. PICK m \in R : \A n \in R : m <= n
    <3> HIDE DEF R
    <3> QED BY <2>2, LeastOf
  <2>4. m \in 1..N /\ m - 1 \in 0..N
    BY <1>1, <1>4
  <2>5. ~(p <= Before(ss, m - 1)) /\ p <= Before(ss, m)
    <3>1. m - 1 \notin R
      BY <2>3, <2>4
    <3> QED BY <2>4, <3>1
  <2>6. Before(ss, m - 1) \in Nat /\ Before(ss, m) \in Nat /\ Len(ss[m]) \in Nat
    <3>1. IsSeq(ss[m])
      BY <2>4 DEF N
    <3>2. m \in 0..N
      OBVIOUS
    <3> QED BY <1>4, <2>4, <3>1, <3>2, SeqFacts
  <2> HIDE DEF R
  <2>7. Before(ss, m) = Before(ss, m - 1) + Len(ss[m])
    BY <1>4, <2>4
  <2>8. PICK j \in 1..Len(ss[m]) : p = Before(ss, m - 1) + j
    <3>1. p - Before(ss, m - 1) \in 1..Len(ss[m])
      BY <2>5, <2>6, <2>7
    <3>2. p = Before(ss, m - 1) + (p - Before(ss, m - 1))
      BY <2>6
    <3> QED BY <3>1, <3>2
  <2>9. ss[m][j] = x
    BY <1>4, <2>1, <2>4, <2>8
  <2>10. IsSeq(ss[m])
    BY <2>4 DEF N
  <2> QED BY <2>4, <2>9, <2>10, SeqFacts
<1> QED BY <1>5, <1>6, <1>7 DEF f, N

LEMMA AppendTwo ==
    /\ \A a, b : Append(<<a>>, b) = <<a, b>>
    /\ \A a, b, c : Append(<<a, b>>, c) = <<a, b, c>>
<1>1. ASSUME NEW a, NEW b PROVE Append(<<a>>, b) = <<a, b>>
  <2>1. <<a, b>> = Append(<<a>>, b)
    OBVIOUS
  <2> QED BY <2>1
<1>2. ASSUME NEW a, NEW b, NEW c PROVE Append(<<a, b>>, c) = <<a, b, c>>
  <2>1. <<a, b, c>> = Append(<<a, b>>, c)
    OBVIOUS
  <2> QED BY <2>1
<1> QED BY <1>1, <1>2

LEMMA ElementsOf ==
    ASSUME NEW S, NEW s \in Seq(S)
    PROVE  Len(s) \in Nat /\ \A i \in 1..Len(s) : s[i] \in S
OBVIOUS
=============================================================================
