----------------------------- MODULE DataLemmas -----------------------------
(***************************************************************************)
(* Least and greatest elements of sets of natural numbers, for the CHOOSE  *)
(* definitions with which the models describe searches through an array;   *)
(* and, from the least element, induction and recursion in the form of     *)
(* facts about sets and functions, for the loops they describe by          *)
(* recursive functions; and what the operators on sequences make of        *)
(* sequences that are given as functions.                                  *)
(***************************************************************************)
EXTENDS Integers, FiniteSetTheorems, SequenceTheorems, TLAPS

\* A nonempty set of naturals has a least element.
LEMMA LeastNat ==
    ASSUME NEW S, S \subseteq Nat, S # {}
    PROVE  \E a \in S : \A b \in S : a <= b
<1> DEFINE I == {0..a : a \in S}
           R == StrictSubsetOrdering(Nat)
<1>1. I \subseteq FiniteSubsetsOf(Nat) /\ I # {}
  <2>1. \A a \in S : IsFiniteSet(0..a) /\ 0..a \subseteq Nat
    BY FS_Interval
  <2> QED  BY <2>1 DEF FiniteSubsetsOf
<1>2. PICK x \in I : \A y \in I : ~(<<y, x>> \in R)
  <2> HIDE DEF I, R
  <2>1. IsWellFoundedOn(StrictSubsetOrdering(Nat), FiniteSubsetsOf(Nat))
    BY FS_StrictSubsetOrderingWellFounded
  <2>2. IsWellFoundedOn(R, FiniteSubsetsOf(Nat))
    BY <2>1 DEF R
  <2> QED  BY <1>1, <2>2, WFMin
<1>3. PICK a \in S : x = 0..a
  BY <1>2
<1>4. ASSUME NEW b \in S, b < a
      PROVE  FALSE
  <2>1. 0..b \subseteq 0..a /\ 0..b # 0..a
    <3>1. a \in 0..a /\ a \notin 0..b
      BY <1>4
    <3> QED  BY <1>4, <3>1
  <2>2. 0..a \subseteq Nat
    OBVIOUS
  <2>3. <<0..b, 0..a>> \in R
    BY <2>1, <2>2 DEF StrictSubsetOrdering
  <2> QED  BY <1>2, <1>3, <2>3
<1> QED  BY <1>4

\* A nonempty set of naturals with an upper bound has a greatest element.
LEMMA GreatestNat ==
    ASSUME NEW n \in Nat, NEW S, S \subseteq 0..n, S # {}
    PROVE  \E a \in S : \A b \in S : b <= a
<1> DEFINE T == {n - a : a \in S}
<1>1. T \subseteq Nat /\ T # {}
  OBVIOUS
<1>2. PICK t \in T : \A u \in T : t <= u
  <2> HIDE DEF T
  <2> QED  BY <1>1, LeastNat
<1>3. PICK a \in S : t = n - a
  BY <1>2
<1>4. ASSUME NEW b \in S PROVE b <= a
  <2>1. a \in Nat /\ b \in Nat
    OBVIOUS
  <2>2. n - b \in T
    OBVIOUS
  <2>3. n - a <= n - b
    BY <1>2, <1>3, <2>2
  <2> HIDE DEF T
  <2> QED  BY <2>1, <2>3
<1> QED  BY <1>4

\* Induction: a set that has 0 and with each number the next.
LEMMA InductionNat ==
    ASSUME NEW S, 0 \in S, \A n \in Nat : n \in S => n + 1 \in S
    PROVE  \A n \in Nat : n \in S
<1> DEFINE C == {n \in Nat : n \notin S}
<1>1. SUFFICES ASSUME C # {} PROVE FALSE
  OBVIOUS
<1>2. C \subseteq Nat
  OBVIOUS
<1>3. PICK a \in C : \A b \in C : a <= b
  <2> HIDE DEF C
  <2> QED  BY <1>1, <1>2, LeastNat
<1>4. a \in Nat /\ a # 0 /\ a \notin S
  OBVIOUS
<1>5. a - 1 \in Nat /\ a - 1 \notin C
  BY <1>3, <1>4
<1>6. a - 1 \in S /\ (a - 1) + 1 = a
  BY <1>4, <1>5
<1> QED  BY <1>4, <1>5, <1>6

\* Induction with every smaller number at hand.
LEMMA StrongInductionNat ==
    ASSUME NEW S, \A n \in Nat : (\A m \in 0..(n - 1) : m \in S) => n \in S
    PROVE  \A n \in Nat : n \in S
<1> DEFINE C == {n \in Nat : n \notin S}
<1>1. SUFFICES ASSUME C # {} PROVE FALSE
  OBVIOUS
<1>2. C \subseteq Nat
  OBVIOUS
<1>3. PICK a \in C : \A b \in C : a <= b
  <2> HIDE DEF C
  <2> QED  BY <1>1, <1>2, LeastNat
<1>4. a \in Nat /\ a \notin S
  OBVIOUS
<1>5. \A m \in 0..(a - 1) : m \in S
  BY <1>3, <1>4
<1> QED  BY <1>4, <1>5

\* The states of a loop of N steps: it starts from z, and step i makes G[i].
Iterates(f, N, z, G) ==
    f[0] = z /\ \A i \in 1..N : f[i] = G[i][f[i - 1]]

\* Every loop of N steps has its states.
LEMMA Recursion ==
    ASSUME NEW N \in Nat, NEW Z, NEW z \in Z, NEW G \in [1..N -> [Z -> Z]]
    PROVE  \E f \in [0..N -> Z] : Iterates(f, N, z, G)
<1> DEFINE Runs(n) == \E f \in [0..n -> Z] :
                          f[0] = z /\ \A i \in 1..n : f[i] = G[i][f[i - 1]]
           S == {n \in Nat : n <= N => Runs(n)}
<1>1. 0 \in S
  <2> DEFINE f == [i \in 0..0 |-> z]
  <2>1. f \in [0..0 -> Z] /\ f[0] = z
    OBVIOUS
  <2> HIDE DEF f
  <2>2. \A i \in 1..0 : f[i] = G[i][f[i - 1]]
    OBVIOUS
  <2>3. Runs(0)
    BY <2>1, <2>2
  <2> QED  BY <2>3
<1>2. ASSUME NEW n \in Nat, n \in S PROVE n + 1 \in S
  <2> SUFFICES ASSUME n + 1 <= N PROVE Runs(n + 1)
    OBVIOUS
  <2>1. PICK f \in [0..n -> Z] : f[0] = z /\ \A i \in 1..n : f[i] = G[i][f[i - 1]]
    BY <1>2
  <2> DEFINE g == [i \in 0..(n + 1) |-> IF i = n + 1 THEN G[n + 1][f[n]] ELSE f[i]]
  <2>2. G[n + 1] \in [Z -> Z] /\ f[n] \in Z
    OBVIOUS
  <2>3. g \in [0..(n + 1) -> Z]
    BY <2>2
  <2>4. g[0] = z
    BY <2>1
  <2>5. \A i \in 1..(n + 1) : g[i] = G[i][g[i - 1]]
    BY <2>1
  <2> QED  BY <2>3, <2>4, <2>5
<1> HIDE DEF S
<1>3. N \in S
  BY <1>1, <1>2, InductionNat
<1>4. PICK f \in [0..N -> Z] : f[0] = z /\ \A i \in 1..N : f[i] = G[i][f[i - 1]]
  BY <1>3 DEF S
<1> QED  BY <1>4 DEF Iterates

\* The value of f at v is taken from its value at q[v], where v is not an end.
Descends(f, D, q, E, z, G) ==
    \A v \in D : f[v] = IF v \in E THEN z[v] ELSE G[v][f[q[v]]]

\* A function whose value at v is taken from its value at q[v], which is nearer
\* to the end of the recursion, exists.
LEMMA Descent ==
    ASSUME NEW D, NEW Z, NEW m \in [D -> Nat], NEW q \in [D -> D],
           NEW E \in SUBSET D, NEW z \in [D -> Z], NEW G \in [D -> [Z -> Z]],
           \A v \in D : v \notin E => m[q[v]] < m[v]
    PROVE  \E f \in [D -> Z] : Descends(f, D, q, E, z, G)
<1> DEFINE Step(f, v) == IF v \in E THEN z[v] ELSE G[v][f[q[v]]]
           Approx(f, n) == \A v \in D : m[v] < n => f[v] = Step(f, v)
           S == {n \in Nat : \E f \in [D -> Z] : Approx(f, n)}
<1>1. \A n \in Nat : n \in S
  <2>1. 0 \in S
    <3>1. Approx(z, 0)
      OBVIOUS
    <3> HIDE DEF Approx
    <3> QED  BY <3>1
  <2>2. ASSUME NEW n \in Nat, n \in S PROVE n + 1 \in S
    <3>1. PICK f \in [D -> Z] : Approx(f, n)
      BY <2>2
    <3> DEFINE g == [v \in D |-> IF m[v] < n THEN f[v] ELSE Step(f, v)]
    <3>2. g \in [D -> Z]
      <4>1. \A v \in D : Step(f, v) \in Z
        OBVIOUS
      <4> HIDE DEF Step
      <4> QED  BY <4>1
    <3>3. ASSUME NEW v \in D, m[v] < n + 1 PROVE g[v] = Step(g, v)
      <4>1. g[v] = Step(f, v)
        BY <3>1
      <4>2. v \notin E => q[v] \in D /\ m[q[v]] < n
        <5>1. q[v] \in D /\ m[q[v]] \in Nat /\ m[v] \in Nat
          OBVIOUS
        <5> QED  BY <3>3, <5>1
      <4>3. v \notin E => g[q[v]] = f[q[v]]
        BY <4>2
      <4> HIDE DEF g
      <4> QED  BY <4>1, <4>3
    <3>4. Approx(g, n + 1)
      BY <3>3
    <3> HIDE DEF g, Approx
    <3> QED  BY <3>2, <3>4
  <2> HIDE DEF S
  <2> QED  BY <2>1, <2>2, InductionNat
<1>2. \A f, g \in [D -> Z] : \A n, k \in Nat : Approx(f, n) /\ Approx(g, k) =>
          \A v \in D : m[v] < n /\ m[v] < k => f[v] = g[v]
  <2> TAKE f, g \in [D -> Z]
  <2> TAKE n, k \in Nat
  <2> HAVE Approx(f, n) /\ Approx(g, k)
  <2> DEFINE T == {i \in Nat : \A v \in D : m[v] = i /\ i < n /\ i < k => f[v] = g[v]}
  <2>1. ASSUME NEW i \in Nat, \A j \in 0..(i - 1) : j \in T PROVE i \in T
    <3> SUFFICES ASSUME NEW v \in D, m[v] = i, i < n, i < k PROVE f[v] = g[v]
      OBVIOUS
    <3>1. f[v] = Step(f, v) /\ g[v] = Step(g, v)
      OBVIOUS
    <3>2. ASSUME v \notin E PROVE f[q[v]] = g[q[v]]
      <4>1. q[v] \in D /\ m[q[v]] \in 0..(i - 1)
        BY <3>2
      <4>2. m[q[v]] \in T /\ m[q[v]] < n /\ m[q[v]] < k
        BY <2>1, <4>1
      <4> QED  BY <4>1, <4>2
    <3> QED  BY <3>1, <3>2
  <2>2. \A i \in Nat : i \in T
    <3> HIDE DEF T
    <3> QED  BY <2>1, StrongInductionNat
  <2> QED  BY <2>2
<1> DEFINE F == [n \in Nat |-> CHOOSE f \in [D -> Z] : Approx(f, n)]
<1>3. \A n \in Nat : F[n] \in [D -> Z] /\ Approx(F[n], n)
  <2> HIDE DEF Approx
  <2> QED  BY <1>1
<1> DEFINE H == [v \in D |-> F[m[v] + 1][v]]
<1> HIDE DEF F
<1>4. H \in [D -> Z]
  BY <1>3
<1>5. ASSUME NEW v \in D PROVE H[v] = Step(H, v)
  <2>1. m[v] \in Nat /\ m[v] + 1 \in Nat /\ m[v] < m[v] + 1
    OBVIOUS
  <2> DEFINE f == F[m[v] + 1]
  <2>2. f \in [D -> Z] /\ Approx(f, m[v] + 1) /\ H[v] = f[v]
    BY <1>3, <2>1
  <2> HIDE DEF f
  <2>3. H[v] = Step(f, v)
    BY <2>1, <2>2
  <2>4. ASSUME v \notin E PROVE H[q[v]] = f[q[v]]
    <3> DEFINE u == q[v]
               g == F[m[u] + 1]
    <3>1. u \in D /\ m[u] \in Nat /\ m[u] + 1 \in Nat /\ m[u] < m[u] + 1 /\ m[u] < m[v] + 1
      BY <2>1, <2>4
    <3>2. g \in [D -> Z] /\ Approx(g, m[u] + 1) /\ H[u] = g[u]
      BY <1>3, <3>1
    <3> HIDE DEF g, u, Approx
    <3>3. PICK n \in Nat, k \in Nat : n = m[v] + 1 /\ k = m[u] + 1
      BY <2>1, <3>1
    <3>4. \A w \in D : m[w] < n /\ m[w] < k => f[w] = g[w]
      <4>1. Approx(f, n) /\ Approx(g, k)
        BY <2>2, <3>2, <3>3
      <4>2. \A i, j \in Nat : Approx(f, i) /\ Approx(g, j) =>
              \A w \in D : m[w] < i /\ m[w] < j => f[w] = g[w]
        BY <1>2, <2>2, <3>2
      <4> QED  BY <4>1, <4>2
    <3>5. H[u] = f[u]
      BY <3>1, <3>2, <3>3, <3>4
    <3> QED  BY <3>5 DEF u
  <2> HIDE DEF H
  <2> QED  BY <2>3, <2>4
<1> HIDE DEF H
<1> QED  BY <1>4, <1>5 DEF Descends

----------------------------------------------------------------------------
(* Sequences.                                                              *)

\* s is a sequence of n elements.
IsSeq(s, n) == n \in Nat /\ s = [j \in 1..n |-> s[j]]

LEMMA SeqIs ==
    ASSUME NEW s, NEW n, IsSeq(s, n)
    PROVE  s \in Seq({s[j] : j \in 1..n}) /\ Len(s) = n /\ (s = <<>> <=> n = 0)
<1>1. n \in Nat /\ s \in [1..n -> {s[j] : j \in 1..n}]
  BY DEF IsSeq
<1>2. s \in Seq({s[j] : j \in 1..n}) /\ Len(s) = n
  BY <1>1, IsASeq, LenProperties
<1> QED  BY <1>1, <1>2, EmptySeq

LEMMA LenIs ==
    ASSUME NEW s, NEW n \in Nat, IsSeq(s, n)
    PROVE  Len(s) = n /\ (s = <<>> <=> n = 0)
  BY SeqIs DEF IsSeq

LEMMA FunctionIsSeq ==
    ASSUME NEW S, NEW s \in Seq(S)
    PROVE  IsSeq(s, Len(s))
<1>1. Len(s) \in Nat /\ s \in [1..Len(s) -> S]
  BY LenProperties
<1> QED  BY <1>1 DEF IsSeq

LEMMA EmptyIs == IsSeq(<<>>, 0)
<1>1. <<>> \in Seq({}) /\ Len(<<>>) = 0
  BY EmptySeq
<1> QED  BY <1>1, FunctionIsSeq

LEMMA SeqsAreEqual ==
    ASSUME NEW s, NEW t, NEW n \in Nat, IsSeq(s, n), IsSeq(t, n), \A j \in 1..n : s[j] = t[j]
    PROVE  s = t
  BY DEF IsSeq

LEMMA AppendSeq ==
    ASSUME NEW s, NEW n \in Nat, NEW x, IsSeq(s, n)
    PROVE  /\ IsSeq(Append(s, x), n + 1)
           /\ \A j \in 1..n : Append(s, x)[j] = s[j]
           /\ Append(s, x)[n + 1] = x
<1> DEFINE S == {s[j] : j \in 1..n} \cup {x}
           t == Append(s, x)
<1>1. s \in Seq(S) /\ Len(s) = n /\ x \in S /\ n \in Nat
  <2>1. s \in [1..n -> S] /\ n \in Nat
    BY DEF IsSeq
  <2> QED  BY <2>1, IsASeq, LenProperties
<1> HIDE DEF S
<1>2. /\ t \in Seq(S) /\ Len(t) = n + 1
      /\ \A j \in 1..n : t[j] = s[j]
      /\ t[n + 1] = x
  BY <1>1, AppendProperties
<1> HIDE DEF t
<1>3. IsSeq(t, n + 1)
  BY <1>2, FunctionIsSeq
<1> QED  BY <1>2, <1>3 DEF t

\* u is s, of n elements, with t, of m elements, behind it.
Joins(u, s, n, t, m) ==
    /\ IsSeq(u, n + m)
    /\ \A j \in 1..n : u[j] = s[j]
    /\ \A j \in 1..m : u[n + j] = t[j]

LEMMA ConcatSeq ==
    ASSUME NEW s, NEW n \in Nat, NEW t, NEW m \in Nat, IsSeq(s, n), IsSeq(t, m)
    PROVE  Joins(s \o t, s, n, t, m)
<1> DEFINE S == {s[j] : j \in 1..n} \cup {t[j] : j \in 1..m}
           u == s \o t
<1>1. s \in Seq(S) /\ Len(s) = n /\ n \in Nat
  <2>1. s \in [1..n -> S] /\ n \in Nat
    BY DEF IsSeq
  <2> QED  BY <2>1, IsASeq, LenProperties
<1>2. t \in Seq(S) /\ Len(t) = m /\ m \in Nat
  <2>1. t \in [1..m -> S] /\ m \in Nat
    BY DEF IsSeq
  <2> QED  BY <2>1, IsASeq, LenProperties
<1> HIDE DEF S
<1>3. /\ u \in Seq(S) /\ Len(u) = n + m
      /\ \A j \in 1..(n + m) : u[j] = IF j <= n THEN s[j] ELSE t[j - n]
  BY <1>1, <1>2, ConcatProperties
<1> HIDE DEF u
<1>4. IsSeq(u, n + m)
  BY <1>3, FunctionIsSeq
<1>5. \A j \in 1..m : n + j \in 1..(n + m) /\ ~(n + j <= n) /\ (n + j) - n = j
  BY <1>1, <1>2
<1>6. \A j \in 1..m : u[n + j] = t[j]
  BY <1>3, <1>5
<1>7. \A j \in 1..n : u[j] = s[j]
  BY <1>1, <1>2, <1>3
<1> QED  BY <1>4, <1>6, <1>7 DEF u, Joins

LEMMA SubSeqIs ==
    ASSUME NEW s, NEW n \in Nat, NEW a \in 1..(n + 1), NEW b \in (a - 1)..n, IsSeq(s, n)
    PROVE  /\ IsSeq(SubSeq(s, a, b), b - a + 1)
           /\ \A j \in 1..(b - a + 1) : SubSeq(s, a, b)[j] = s[a + j - 1]
<1> DEFINE S == {s[j] : j \in 1..n}
           u == SubSeq(s, a, b)
<1>1. s \in Seq(S) /\ Len(s) = n /\ n \in Nat
  BY SeqIs DEF IsSeq
<1> HIDE DEF S
<1>2. /\ u \in Seq(S) /\ Len(u) = b - a + 1
      /\ \A j \in 1..(b - a + 1) : u[j] = s[a + j - 1]
  <2>1. /\ u \in Seq(S)
        /\ Len(u) = IF a <= b THEN b - a + 1 ELSE 0
        /\ \A j \in 1..(b - a + 1) : u[j] = s[a + j - 1]
    BY <1>1, SubSeqProperties
  <2>2. ~(a <= b) => b - a + 1 = 0
    BY <1>1
  <2> QED  BY <2>1, <2>2
<1> HIDE DEF u
<1>3. IsSeq(u, b - a + 1)
  BY <1>2, FunctionIsSeq
<1> QED  BY <1>2, <1>3 DEF u

LEMMA TailIs ==
    ASSUME NEW s, NEW n \in Nat, IsSeq(s, n), n > 0
    PROVE  /\ IsSeq(Tail(s), n - 1)
           /\ \A j \in 1..(n - 1) : Tail(s)[j] = s[j + 1]
           /\ Head(s) = s[1]
<1> DEFINE S == {s[j] : j \in 1..n}
           u == Tail(s)
<1>1. s \in Seq(S) /\ Len(s) = n /\ n \in Nat /\ s # <<>>
  BY SeqIs DEF IsSeq
<1> HIDE DEF S
<1>2. /\ u \in Seq(S) /\ Len(u) = n - 1
      /\ \A j \in 1..(n - 1) : u[j] = s[j + 1]
      /\ Head(s) = s[1]
  BY <1>1, HeadTailProperties
<1> HIDE DEF u
<1>3. IsSeq(u, n - 1)
  BY <1>2, FunctionIsSeq
<1> QED  BY <1>2, <1>3 DEF u

LEMMA SingleIs == ASSUME NEW x PROVE IsSeq(<<x>>, 1) /\ <<x>>[1] = x
<1> DEFINE s == <<x>>
<1>1. s \in Seq({x}) /\ Len(s) = 1 /\ s[1] = x
  OBVIOUS
<1> HIDE DEF s
<1>2. IsSeq(s, 1)
  BY <1>1, FunctionIsSeq
<1> QED  BY <1>1, <1>2 DEF s

----------------------------------------------------------------------------
(* Text in an array: the n characters of b from f on.                      *)

Text(b, f, n) == [j \in 1..n |-> b[f + j - 1]]

LEMMA TextIs ==
    ASSUME NEW b, NEW f \in Nat, NEW n \in Nat
    PROVE  /\ IsSeq(Text(b, f, n), n)
           /\ Len(Text(b, f, n)) = n
           /\ Text(b, f, n) = <<>> <=> n = 0
           /\ \A j \in 1..n : Text(b, f, n)[j] = b[f + j - 1]
<1>1. IsSeq(Text(b, f, n), n)
  BY DEF IsSeq, Text
<1>2. \A j \in 1..n : Text(b, f, n)[j] = b[f + j - 1]
  BY DEF Text
<1> DEFINE s == Text(b, f, n)
<1> HIDE DEF s
<1>3. Len(s) = n /\ (s = <<>> <=> n = 0)
  BY <1>1, LenIs DEF s
<1> QED  BY <1>1, <1>2, <1>3 DEF s

LEMMA TextsAreEqual ==
    \A b, c : \A f \in Nat, g \in Nat, n \in Nat :
        (\A i \in 0..(n - 1) : b[f + i] = c[g + i]) => Text(b, f, n) = Text(c, g, n)
<1> SUFFICES ASSUME NEW b, NEW c, NEW f \in Nat, NEW g \in Nat, NEW n \in Nat,
                    \A i \in 0..(n - 1) : b[f + i] = c[g + i],
                    NEW j \in 1..n
             PROVE  b[f + j - 1] = c[g + j - 1]
  BY DEF Text
<1>1. j - 1 \in 0..(n - 1) /\ f + (j - 1) = f + j - 1 /\ g + (j - 1) = g + j - 1
  OBVIOUS
<1> QED  BY <1>1

LEMMA TextAppend ==
    ASSUME NEW b, NEW f \in Nat, NEW n \in Nat
    PROVE  Append(Text(b, f, n), b[f + n]) = Text(b, f, n + 1)
<1> DEFINE s == Text(b, f, n)
           t == Text(b, f, n + 1)
           u == Append(s, b[f + n])
<1>1. IsSeq(s, n) /\ IsSeq(t, n + 1)
  BY TextIs
<1>2. /\ \A j \in 1..n : s[j] = b[f + j - 1]
      /\ \A j \in 1..(n + 1) : t[j] = b[f + j - 1]
  BY DEF Text
<1> HIDE DEF s, t
<1>3. /\ IsSeq(u, n + 1)
      /\ \A j \in 1..n : u[j] = s[j]
      /\ u[n + 1] = b[f + n]
  BY <1>1, AppendSeq DEF IsSeq
<1> HIDE DEF u
<1>4. ASSUME NEW j \in 1..(n + 1) PROVE u[j] = t[j]
  <2>1. j \in 1..n \/ (j = n + 1 /\ f + j - 1 = f + n)
    OBVIOUS
  <2> QED  BY <1>2, <1>3, <2>1
<1>5. u = t
  BY <1>1, <1>3, <1>4, SeqsAreEqual
<1> QED  BY <1>5 DEF s, t, u

LEMMA TextJoin ==
    ASSUME NEW b, NEW f \in Nat, NEW n \in Nat, NEW m \in Nat
    PROVE  Text(b, f, n) \o Text(b, f + n, m) = Text(b, f, n + m)
<1> DEFINE s == Text(b, f, n)
           r == Text(b, f + n, m)
           t == Text(b, f, n + m)
           u == s \o r
<1>1. IsSeq(s, n) /\ IsSeq(r, m) /\ IsSeq(t, n + m)
  BY DEF Text, IsSeq
<1>2. /\ \A j \in 1..n : s[j] = b[f + j - 1]
      /\ \A j \in 1..m : r[j] = b[f + n + j - 1]
      /\ \A j \in 1..(n + m) : t[j] = b[f + j - 1]
  BY DEF Text
<1> HIDE DEF s, r, t
<1>3. /\ IsSeq(u, n + m)
      /\ \A j \in 1..n : u[j] = s[j]
      /\ \A j \in 1..m : u[n + j] = r[j]
  <2>1. Joins(s \o r, s, n, r, m)
    BY <1>1, ConcatSeq, Zenon
  <2> QED  BY <2>1 DEF Joins
<1> HIDE DEF u
<1>4. ASSUME NEW j \in 1..(n + m) PROVE u[j] = t[j]
  <2>1. CASE j <= n
    BY <1>2, <1>3, <2>1
  <2>2. CASE j > n
    <3>1. j - n \in 1..m /\ n + (j - n) = j /\ f + n + (j - n) - 1 = f + j - 1
      BY <2>2
    <3> QED  BY <1>2, <1>3, <3>1
  <2> QED  BY <2>1, <2>2
<1>5. u = t
  BY <1>1, <1>3, <1>4, SeqsAreEqual
<1> QED  BY <1>5 DEF s, r, t, u

LEMMA TextPiece ==
    ASSUME NEW b, NEW f \in Nat, NEW n \in Nat, NEW k \in 0..n, NEW l \in k..n
    PROVE  SubSeq(Text(b, f, n), k + 1, l) = Text(b, f + k, l - k)
<1> DEFINE s == Text(b, f, n)
           t == Text(b, f + k, l - k)
           u == SubSeq(s, k + 1, l)
<1>1. IsSeq(s, n) /\ IsSeq(t, l - k) /\ l - k \in Nat /\ f + k \in Nat
  <2>1. l - k \in Nat /\ f + k \in Nat
    OBVIOUS
  <2> QED  BY <2>1, TextIs
<1>2. /\ \A j \in 1..n : s[j] = b[f + j - 1]
      /\ \A j \in 1..(l - k) : t[j] = b[f + k + j - 1]
  BY <1>1, TextIs
<1> HIDE DEF s, t
<1>3. /\ IsSeq(u, l - k)
      /\ \A j \in 1..(l - k) : u[j] = s[k + j]
  <2>1. k + 1 \in 1..(n + 1) /\ l \in ((k + 1) - 1)..n /\ l - (k + 1) + 1 = l - k
    OBVIOUS
  <2>2. /\ IsSeq(u, l - (k + 1) + 1)
        /\ \A j \in 1..(l - (k + 1) + 1) : u[j] = s[(k + 1) + j - 1]
    BY <1>1, <2>1, SubSeqIs
  <2>3. \A j \in 1..(l - k) : (k + 1) + j - 1 = k + j
    OBVIOUS
  <2> QED  BY <2>1, <2>2, <2>3
<1> HIDE DEF u
<1>4. ASSUME NEW j \in 1..(l - k) PROVE u[j] = t[j]
  <2>1. k + j \in 1..n /\ f + (k + j) - 1 = f + k + j - 1
    OBVIOUS
  <2> QED  BY <1>2, <1>3, <2>1
<1>5. u = t
  BY <1>1, <1>3, <1>4, SeqsAreEqual
<1> QED  BY <1>5 DEF s, t, u

LEMMA TextTail ==
    ASSUME NEW b, NEW f \in Nat, NEW n \in Nat, n > 0
    PROVE  /\ Tail(Text(b, f, n)) = Text(b, f + 1, n - 1)
           /\ Head(Text(b, f, n)) = b[f]
<1> DEFINE s == Text(b, f, n)
           t == Text(b, f + 1, n - 1)
           u == Tail(s)
<1>1. n - 1 \in Nat /\ f + 1 \in Nat
  OBVIOUS
<1>2. IsSeq(s, n) /\ IsSeq(t, n - 1)
  BY <1>1, TextIs
<1>3. /\ \A j \in 1..n : s[j] = b[f + j - 1]
      /\ \A j \in 1..(n - 1) : t[j] = b[f + 1 + j - 1]
  BY <1>1, TextIs
<1> HIDE DEF s, t
<1>4. /\ IsSeq(u, n - 1)
      /\ \A j \in 1..(n - 1) : u[j] = s[j + 1]
      /\ Head(s) = s[1]
  BY <1>2, TailIs
<1> HIDE DEF u
<1>5. ASSUME NEW j \in 1..(n - 1) PROVE u[j] = t[j]
  <2>1. j + 1 \in 1..n /\ f + (j + 1) - 1 = f + 1 + j - 1
    OBVIOUS
  <2> QED  BY <1>3, <1>4, <2>1
<1>6. u = t
  BY <1>1, <1>2, <1>4, <1>5, SeqsAreEqual
<1>7. s[1] = b[f]
  <2>1. 1 \in 1..n /\ f + 1 - 1 = f
    OBVIOUS
  <2> QED  BY <1>3, <2>1
<1> QED  BY <1>4, <1>6, <1>7 DEF s, t, u

LEMMA TextPrepend ==
    ASSUME NEW b, NEW f \in Nat, NEW n \in Nat
    PROVE  <<b[f]>> \o Text(b, f + 1, n) = Text(b, f, n + 1)
<1> DEFINE x == <<b[f]>>
           s == Text(b, f, 1)
<1>1. IsSeq(s, 1) /\ s[1] = b[f]
  <2>1. 1 \in 1..1 /\ f + 1 - 1 = f
    OBVIOUS
  <2> QED  BY <2>1, TextIs
<1>2. IsSeq(x, 1) /\ x[1] = b[f]
  BY SingleIs
<1> HIDE DEF s, x
<1>3. x = s
  BY <1>1, <1>2, SeqsAreEqual
<1>4. s \o Text(b, f + 1, n) = Text(b, f, 1 + n)
  <2>1. \A m \in Nat : Text(b, f, m) \o Text(b, f + m, n) = Text(b, f, m + n)
    BY TextJoin
  <2>2. 1 \in Nat
    OBVIOUS
  <2> QED  BY <2>1, <2>2, Zenon DEF s
<1>5. 1 + n = n + 1
  OBVIOUS
<1> QED  BY <1>3, <1>4, <1>5 DEF x

=============================================================================
