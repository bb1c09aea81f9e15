--------------------------- MODULE TcpStreamProof ---------------------------
(***************************************************************************)
(* For blocks of any size and any number of bytes: both buffers stay well  *)
(* formed, input arrives intact, and no byte sent is lost or repeated.     *)
(***************************************************************************)
EXTENDS TcpStream, SequenceTheorems, FiniteSetTheorems, WellFoundedInduction, TLAPS

-----------------------------------------------------------------------------
(* Induction.                                                              *)

LessThan == {ss \in Nat \X Nat : ss[1] < ss[2]}

LEMMA LessThanWellFounded == IsWellFoundedOn(LessThan, Nat)
  BY NatLessThanWellFounded, Zenon DEF OpToRel, LessThan

\* A set that has 0, and with each number the next one, has them all.
LEMMA Induction ==
  ASSUME NEW T, 0 \in T, \A n \in Nat : n \in T => n + 1 \in T
  PROVE  Nat \subseteq T
  <1> SUFFICES ASSUME Nat \ T # {} PROVE FALSE
    OBVIOUS
  <1> DEFINE U == Nat \ T
  <1>1. U \subseteq Nat /\ U # {}
    OBVIOUS
  <1>2. PICK x \in U : \A y \in U : <<y, x>> \notin LessThan
    <2> HIDE DEF U
    <2> QED BY <1>1, LessThanWellFounded, WFMin
  <1>3. x \in Nat /\ x # 0
    OBVIOUS
  <1>4. x - 1 \in U
    BY <1>3
  <1>5. <<x - 1, x>> \in LessThan
    <2>1. x - 1 \in Nat /\ x - 1 < x
      BY <1>3
    <2>2. <<x - 1, x>> \in Nat \X Nat
      BY <1>3, <2>1
    <2>3. <<x - 1, x>>[1] < <<x - 1, x>>[2]
      BY <2>1
    <2> QED BY <2>2, <2>3, Zenon DEF LessThan
  <1> QED BY <1>2, <1>4, <1>5

\* The least and the greatest number of a set.
LEMMA LeastExists ==
  ASSUME NEW T, T \subseteq Nat, T # {}
  PROVE  Min(T) \in T /\ \A y \in T : Min(T) <= y
  <1>1. PICK x \in T : \A y \in T : <<y, x>> \notin LessThan
    BY LessThanWellFounded, WFMin
  <1>2. ASSUME NEW y \in T PROVE x <= y
    <2>1. x \in Nat /\ y \in Nat /\ <<y, x>> \in Nat \X Nat
      OBVIOUS
    <2>2. ~(<<y, x>>[1] < <<y, x>>[2])
      BY <1>1, <2>1, Zenon DEF LessThan
    <2> QED BY <2>1, <2>2
  <1> QED BY <1>2 DEF Min

LEMMA GreatestExists ==
  ASSUME NEW n \in Nat, NEW T, T \subseteq 0..n, T # {}
  PROVE  Max(T) \in T /\ \A y \in T : Max(T) >= y
  <1> DEFINE U == {n - y : y \in T}
  <1>1. U \subseteq Nat /\ U # {}
    <2>1. \A y \in T : n - y \in Nat
      OBVIOUS
    <2> QED BY <2>1
  <1>2. PICK x \in U : \A y \in U : x <= y
    <2> HIDE DEF U
    <2> QED BY <1>1, LeastExists
  <1>3. PICK z \in T : x = n - z
    OBVIOUS
  <1>4. \A y \in T : z >= y
    BY <1>2, <1>3
  <1> QED BY <1>4 DEF Max

\* What follows a base step by step.
Recursion(g, V, base, m, step) ==
    /\ g \in [0..m -> V] /\ g[0] = base
    /\ \A k \in 1..m : g[k] = step[k][g[k - 1]]

LEMMA RecursionExists ==
  ASSUME NEW V, NEW base \in V, NEW m \in Nat, NEW step \in [1..m -> [V -> V]]
  PROVE  \E g : Recursion(g, V, base, m, step)
  <1> USE DEF Recursion
  <1> DEFINE Follows(g, n) == Recursion(g, V, base, n, step)
             T == {n \in Nat : n <= m => \E g : Follows(g, n)}
  <1>1. 0 \in T
    <2>1. Follows([k \in 0..0 |-> base], 0)
      OBVIOUS
    <2> QED BY <2>1
  <1>2. ASSUME NEW n \in Nat, n \in T PROVE n + 1 \in T
    <2> SUFFICES ASSUME n + 1 <= m PROVE \E g : Follows(g, n + 1)
      OBVIOUS
    <2>1. PICK g : Follows(g, n)
      BY <1>2
    <2> DEFINE h == [k \in 0..(n + 1) |-> IF k <= n THEN g[k] ELSE step[n + 1][g[n]]]
    <2>2. g \in [0..n -> V] /\ n + 1 \in 1..m /\ step[n + 1] \in [V -> V]
      BY <2>1
    <2>3. h \in [0..(n + 1) -> V]
      BY <2>2
    <2>4. h[0] = base
      BY <2>1
    <2>5. ASSUME NEW k \in 1..(n + 1) PROVE h[k] = step[k][h[k - 1]]
      <3>1. CASE k <= n
        BY <2>1, <3>1
      <3>2. CASE k = n + 1
        BY <3>2
      <3> QED BY <3>1, <3>2
    <2>6. Follows(h, n + 1)
      BY <2>3, <2>4, <2>5
    <2> QED BY <2>6
  <1>3. m \in T
    <2> HIDE DEF T
    <2> QED BY <1>1, <1>2, Induction
  <1> QED BY <1>3

-----------------------------------------------------------------------------
(* Sums.                                                                   *)

LEMMA SumsDef ==
  ASSUME NEW s \in Seq(Nat)
  PROVE  /\ Sums(s) \in [0..Len(s) -> Nat]
         /\ Sums(s)[0] = 0
         /\ \A k \in 1..Len(s) : Sums(s)[k] = Sums(s)[k - 1] + s[k]
  <1> DEFINE n == Len(s)
             P(h) == h = [k \in 0..n |-> IF k = 0 THEN 0 ELSE h[k - 1] + s[k]]
             step == [k \in 1..n |-> [v \in Nat |-> v + s[k]]]
  <1>1. n \in Nat /\ \A k \in 1..n : s[k] \in Nat
    OBVIOUS
  <1>2. step \in [1..n -> [Nat -> Nat]]
    BY <1>1
  <1>3. PICK g : Recursion(g, Nat, 0, n, step)
    <2> HIDE DEF step, n
    <2> QED BY <1>1, <1>2, RecursionExists
  <1>4. ASSUME NEW k \in 1..n PROVE g[k] = g[k - 1] + s[k]
    <2>1. k \in 1..n /\ k - 1 \in 0..n
      BY <1>1
    <2>2. g[k] = step[k][g[k - 1]] /\ g[k - 1] \in Nat
      <3> HIDE DEF step, n
      <3> QED BY <1>3, <2>1 DEF Recursion
    <2> QED BY <2>1, <2>2
  <1>5. P(g)
    BY <1>1, <1>3, <1>4 DEF Recursion
  <1>6. Sums(s) = CHOOSE h : P(h)
    BY DEF Sums
  <1>7. P(Sums(s))
    <2> HIDE DEF P
    <2> QED BY <1>5, <1>6
  <1> DEFINE S == Sums(s)
             T == {k \in Nat : k <= n => S[k] \in Nat}
  <1> HIDE DEF S
  <1>8. S = [k \in 0..n |-> IF k = 0 THEN 0 ELSE S[k - 1] + s[k]]
    BY <1>7 DEF S
  <1>9. S[0] = 0 /\ \A k \in 1..n : S[k] = S[k - 1] + s[k]
    BY <1>1, <1>8
  <1>10. 0 \in T
    BY <1>9
  <1>11. ASSUME NEW k \in Nat, k \in T PROVE k + 1 \in T
    BY <1>1, <1>9, <1>11, SMTT(30)
  <1>12. \A k \in 0..n : S[k] \in Nat
    <2>1. Nat \subseteq T
      <3> HIDE DEF T
      <3> QED BY <1>10, <1>11, Induction
    <2> QED BY <1>1, <2>1
  <1> QED BY <1>8, <1>9, <1>12 DEF S

\* Sums grow, and those of equal numbers are equal.
LEMMA SumsGrow ==
  ASSUME NEW s \in Seq(Nat), NEW i \in 0..Len(s), NEW j \in i..Len(s)
  PROVE  Sums(s)[i] <= Sums(s)[j]
  <1> DEFINE S == Sums(s)
             T == {k \in Nat : i + k <= Len(s) => S[i] <= S[i + k]}
  <1>1. S \in [0..Len(s) -> Nat] /\ \A k \in 1..Len(s) : S[k] = S[k - 1] + s[k]
    BY SumsDef
  <1>2. Len(s) \in Nat /\ \A k \in 1..Len(s) : s[k] \in Nat
    OBVIOUS
  <1> HIDE DEF S
  <1>3. 0 \in T
    <2>1. S[i] \in Nat /\ i + 0 = i
      BY <1>1, <1>2
    <2> QED BY <2>1
  <1>4. ASSUME NEW k \in Nat, k \in T PROVE k + 1 \in T
    <2> SUFFICES ASSUME i + (k + 1) <= Len(s) PROVE S[i] <= S[i + (k + 1)]
      OBVIOUS
    <2> HIDE DEF T
    <2>1. i + k + 1 \in 1..Len(s) /\ i + k \in 0..Len(s) /\ (i + k + 1) - 1 = i + k
      BY <1>2
    <2>2. S[i + k + 1] = S[i + k] + s[i + k + 1]
      BY <1>1, <2>1
    <2>3. S[i] \in Nat /\ S[i + k] \in Nat /\ s[i + k + 1] \in Nat
      BY <1>1, <1>2, <2>1
    <2>5. S[i] <= S[i + k]
      BY <1>2, <1>4, <2>1 DEF T
    <2>4. i + (k + 1) = i + k + 1
      BY <1>2
    <2> QED BY <2>2, <2>3, <2>4, <2>5
  <1>5. j - i \in T
    <2>1. Nat \subseteq T
      <3> HIDE DEF T
      <3> QED BY <1>3, <1>4, Induction
    <2>2. j - i \in Nat
      BY <1>2
    <2> QED BY <2>1, <2>2
  <1>6. i + (j - i) = j
    BY <1>2
  <1> QED BY <1>2, <1>5, <1>6 DEF S

\* What starts at 0 and grows by the numbers of s is their sums.
LEMMA SumsUnique ==
  ASSUME NEW s \in Seq(Nat), NEW m \in 0..Len(s), NEW f,
         f[0] = 0, \A k \in 1..m : f[k] = f[k - 1] + s[k]
  PROVE  \A k \in 0..m : Sums(s)[k] = f[k]
  <1> DEFINE S == Sums(s)
             T == {k \in Nat : k <= m => S[k] = f[k]}
  <1>1. S[0] = 0 /\ \A k \in 1..Len(s) : S[k] = S[k - 1] + s[k]
    BY SumsDef
  <1>2. Len(s) \in Nat /\ m \in Nat /\ m <= Len(s)
    OBVIOUS
  <1> HIDE DEF S
  <1>3. 0 \in T
    BY <1>1
  <1>4. ASSUME NEW k \in Nat, k \in T PROVE k + 1 \in T
    <2> SUFFICES ASSUME k + 1 <= m PROVE S[k + 1] = f[k + 1]
      OBVIOUS
    <2>1. k + 1 \in 1..m /\ k + 1 \in 1..Len(s) /\ (k + 1) - 1 = k
      BY <1>2
    <2>2. S[k] = f[k]
      BY <1>2, <1>4, <2>1
    <2>3. S[k + 1] = S[k] + s[k + 1] /\ f[k + 1] = f[k] + s[k + 1]
      BY <1>1, <2>1
    <2> QED BY <2>2, <2>3
  <1>5. Nat \subseteq T
    <2> HIDE DEF T
    <2> QED BY <1>3, <1>4, Induction
  <1> QED BY <1>2, <1>5 DEF S

-----------------------------------------------------------------------------
(* Sequences of sequences in one.                                          *)

Joins(g, S, ss) ==
    /\ g \in [0..Len(ss) -> Seq(S)] /\ g[0] = <<>>
    /\ \A k \in 1..Len(ss) : g[k] = g[k - 1] \o ss[k]

\* FlattenSeq joins them from the first to the last.
LEMMA FlattenJoins ==
  ASSUME NEW S, NEW ss \in Seq(Seq(S))
  PROVE  \E g : Joins(g, S, ss) /\ FlattenSeq(ss) = g[Len(ss)]
  <1> DEFINE n == Len(ss)
             step == [k \in 1..n |-> [v \in Seq(S) |-> v \o ss[k]]]
             P(h) == h = [i \in 1..n |-> IF i = 1 THEN ss[i] ELSE h[i - 1] \o ss[i]]
             f == CHOOSE h : P(h)
  <1>1. n \in Nat /\ \A k \in 1..n : ss[k] \in Seq(S)
    OBVIOUS
  <1>2. step \in [1..n -> [Seq(S) -> Seq(S)]]
    BY <1>1
  <1>3. PICK g : Recursion(g, Seq(S), <<>>, n, step)
    <2> HIDE DEF step, n
    <2>1. <<>> \in Seq(S)
      OBVIOUS
    <2> QED BY <1>1, <1>2, <2>1, RecursionExists
  <1>4. ASSUME NEW k \in 1..n PROVE g[k] = g[k - 1] \o ss[k]
    <2>1. k \in 1..n /\ k - 1 \in 0..n
      BY <1>1
    <2>2. g[k] = step[k][g[k - 1]] /\ g[k - 1] \in Seq(S)
      <3> HIDE DEF step, n
      <3> QED BY <1>3, <2>1 DEF Recursion
    <2> QED BY <2>1, <2>2
  <1>5. Joins(g, S, ss)
    BY <1>3, <1>4 DEF Joins, Recursion
  <1>6. P([i \in 1..n |-> g[i]])
    <2>1. 1 \in 1..n => g[1] = ss[1]
      <3>1. g[0] = <<>>
        BY <1>5 DEF Joins
      <3>2. 1 \in 1..n => g[1] = <<>> \o ss[1] /\ ss[1] \in Seq(S)
        <4>1. 1 \in 1..n => g[1] = g[0] \o ss[1]
          <5>1. 1 - 1 = 0
            OBVIOUS
          <5> HIDE DEF n
          <5> QED BY <1>4, <5>1
        <4> QED BY <1>1, <3>1, <4>1
      <3> QED BY <3>2, ConcatEmptySeq
    <2>2. \A k \in 1..n : k # 1 => k - 1 \in 1..n
      BY <1>1
    <2>3. \A k \in 1..n : g[k] = IF k = 1 THEN ss[k] ELSE [i \in 1..n |-> g[i]][k - 1] \o ss[k]
      BY <1>4, <2>1, <2>2
    <2> QED BY <2>3
  <1>7. P(f)
    <2> HIDE DEF P
    <2> QED BY <1>6
  <1> HIDE DEF f
  <1> DEFINE T == {k \in Nat : 1 <= k /\ k <= n => f[k] = g[k]}
  <1>8. 0 \in T
    OBVIOUS
  <1>9. ASSUME NEW k \in Nat, k \in T PROVE k + 1 \in T
    <2> SUFFICES ASSUME k + 1 <= n PROVE f[k + 1] = g[k + 1]
      OBVIOUS
    <2>1. k + 1 \in 1..n /\ (k + 1) - 1 = k
      BY <1>1
    <2>2. f[k + 1] = IF k + 1 = 1 THEN ss[k + 1] ELSE f[k] \o ss[k + 1]
      BY <1>7, <2>1
    <2>3. g[k + 1] = g[k] \o ss[k + 1]
      BY <1>4, <2>1
    <2>4. CASE k = 0
      <3>1. ss[k + 1] \in Seq(S) /\ g[k] = <<>>
        BY <1>1, <1>5, <2>1, <2>4 DEF Joins
      <3>2. <<>> \o ss[k + 1] = ss[k + 1]
        BY <3>1, ConcatEmptySeq
      <3> QED BY <2>2, <2>3, <2>4, <3>1, <3>2
    <2>5. CASE k # 0
      <3>1. f[k] = g[k]
        BY <1>1, <1>9, <2>1, <2>5
      <3>2. k + 1 # 1
        BY <2>5
      <3> QED BY <2>2, <2>3, <3>1, <3>2
    <2> QED BY <2>4, <2>5
  <1>10. \A k \in 1..n : f[k] = g[k]
    <2>1. Nat \subseteq T
      <3> HIDE DEF T
      <3> QED BY <1>8, <1>9, Induction
    <2> QED BY <1>1, <2>1
  <1>11. CASE n = 0
    <2>1. FlattenSeq(ss) = <<>>
      BY <1>11 DEF FlattenSeq
    <2> QED BY <1>5, <1>11, <2>1 DEF Joins
  <1>12. CASE n # 0
    <2>1. FlattenSeq(ss) = f[n]
      BY <1>12 DEF FlattenSeq, f
    <2> QED BY <1>1, <1>5, <1>10, <1>12, <2>1
  <1> QED BY <1>11, <1>12

Lengths(ss) == [k \in DOMAIN ss |-> Len(ss[k])]

LEMMA LengthsType ==
  ASSUME NEW S, NEW ss \in Seq(Seq(S))
  PROVE  /\ Lengths(ss) \in Seq(Nat) /\ Len(Lengths(ss)) = Len(ss)
         /\ \A k \in 1..Len(ss) : Lengths(ss)[k] = Len(ss[k])
  <1>1. \A k \in 1..Len(ss) : Len(ss[k]) \in Nat
    OBVIOUS
  <1>2. Lengths(ss) = [k \in 1..Len(ss) |-> Len(ss[k])]
    BY DEF Lengths
  <1> QED BY <1>1, <1>2

\* Each element of the joined sequences is at its place in the whole.
LEMMA FlattenPlaces ==
  ASSUME NEW S, NEW ss \in Seq(Seq(S))
  PROVE  /\ FlattenSeq(ss) \in Seq(S)
         /\ Len(FlattenSeq(ss)) = Sums(Lengths(ss))[Len(ss)]
         /\ \A k \in 1..Len(ss) : \A j \in 1..Len(ss[k]) :
               FlattenSeq(ss)[Sums(Lengths(ss))[k - 1] + j] = ss[k][j]
  <1> DEFINE U == Sums(Lengths(ss))
  <1>1. PICK g : Joins(g, S, ss) /\ FlattenSeq(ss) = g[Len(ss)]
    BY FlattenJoins
  <1>2. /\ U \in [0..Len(ss) -> Nat] /\ U[0] = 0
        /\ \A k \in 1..Len(ss) : U[k] = U[k - 1] + Len(ss[k])
    BY LengthsType, SumsDef
  <1>3. Len(ss) \in Nat /\ \A k \in 1..Len(ss) : ss[k] \in Seq(S) /\ Len(ss[k]) \in Nat
    OBVIOUS
  <1>4. /\ g \in [0..Len(ss) -> Seq(S)] /\ g[0] = <<>>
        /\ \A k \in 1..Len(ss) : g[k] = g[k - 1] \o ss[k]
    BY <1>1 DEF Joins
  <1> HIDE DEF U
  <1> DEFINE Places(n) ==
               /\ Len(g[n]) = U[n]
               /\ \A k \in 1..n : \A j \in 1..Len(ss[k]) : g[n][U[k - 1] + j] = ss[k][j]
             T == {n \in Nat : n <= Len(ss) => Places(n)}
  <1>5. 0 \in T
    BY <1>2, <1>4
  <1>6. ASSUME NEW n \in Nat, n \in T PROVE n + 1 \in T
    <2> SUFFICES ASSUME n + 1 <= Len(ss) PROVE Places(n + 1)
      OBVIOUS
    <2>1. n + 1 \in 1..Len(ss) /\ n \in 0..Len(ss) /\ (n + 1) - 1 = n
      BY <1>3
    <2>2. g[n + 1] = g[n] \o ss[n + 1] /\ U[n + 1] = U[n] + Len(ss[n + 1])
      BY <1>2, <1>4, <2>1
    <2>3. g[n] \in Seq(S) /\ ss[n + 1] \in Seq(S)
      BY <1>3, <1>4, <2>1
    <2>4. Places(n)
      BY <1>3, <1>6, <2>1
    <2> HIDE DEF T
    <2>7. Len(g[n]) = U[n] /\ U[n] \in Nat /\ Len(ss[n + 1]) \in Nat
      BY <1>2, <1>3, <2>1, <2>4
    <2>8. /\ Len(g[n] \o ss[n + 1]) = U[n] + Len(ss[n + 1])
          /\ \A i \in 1..(U[n] + Len(ss[n + 1])) :
                (g[n] \o ss[n + 1])[i] = IF i <= U[n] THEN g[n][i] ELSE ss[n + 1][i - U[n]]
      <3>1. /\ Len(g[n] \o ss[n + 1]) = Len(g[n]) + Len(ss[n + 1])
            /\ \A i \in 1..(Len(g[n]) + Len(ss[n + 1])) :
                  (g[n] \o ss[n + 1])[i] = IF i <= Len(g[n]) THEN g[n][i] ELSE ss[n + 1][i - Len(g[n])]
        BY <2>3, ConcatProperties, Zenon
      <3> QED BY <2>7, <3>1, Zenon
    <2>5. Len(g[n + 1]) = U[n + 1]
      BY <2>2, <2>8
    <2>6. ASSUME NEW k \in 1..(n + 1), NEW j \in 1..Len(ss[k])
          PROVE  g[n + 1][U[k - 1] + j] = ss[k][j]
      <3>1. CASE k = n + 1
        <4>1. j \in 1..Len(ss[n + 1]) /\ k - 1 = n
          BY <2>1, <3>1
        <4>2. U[n] + j \in 1..(U[n] + Len(ss[n + 1])) /\ ~(U[n] + j <= U[n]) /\ (U[n] + j) - U[n] = j
          BY <2>7, <4>1
        <4> QED BY <2>2, <2>8, <3>1, <4>1, <4>2
      <3>2. CASE k # n + 1
        <4>1. k \in 1..n /\ k \in 1..Len(ss) /\ k - 1 \in 0..Len(ss)
          BY <2>1, <3>2
        <4>2. U[k - 1] \in Nat /\ U[k] = U[k - 1] + Len(ss[k]) /\ Len(ss[k]) \in Nat
          BY <1>2, <1>3, <4>1
        <4>3. U[k] <= U[n]
          <5>1. k \in 0..Len(Lengths(ss)) /\ n \in k..Len(Lengths(ss))
            BY <2>1, <4>1, LengthsType
          <5> QED BY <5>1, LengthsType, SumsGrow DEF U
        <4>4. U[k - 1] + j \in 1..(U[n] + Len(ss[n + 1])) /\ U[k - 1] + j <= U[n]
          <5> DEFINE a == U[k - 1]
                     b == U[k]
                     c == U[n]
                     d == Len(ss[n + 1])
                     e == Len(ss[k])
          <5>1. a \in Nat /\ b = a + e /\ e \in Nat /\ b <= c /\ j \in 1..e
            BY <4>2, <4>3
          <5>2. c \in Nat /\ d \in Nat
            BY <2>7
          <5> HIDE DEF a, b, c, d, e
          <5>3. a + j \in 1..(c + d) /\ a + j <= c
            BY <5>1, <5>2
          <5> QED BY <5>3 DEF a, c, d
        <4>5. g[n + 1][U[k - 1] + j] = g[n][U[k - 1] + j]
          <5> DEFINE i == U[k - 1] + j
          <5>1. i \in 1..(U[n] + Len(ss[n + 1])) /\ i <= U[n]
            BY <4>4
          <5> HIDE DEF i
          <5>3. (g[n] \o ss[n + 1])[i] = IF i <= U[n] THEN g[n][i] ELSE ss[n + 1][i - U[n]]
            BY <2>8, <5>1, Zenon
          <5>2. g[n + 1][i] = g[n][i]
            BY <2>2, <5>1, <5>3, Zenon
          <5> QED BY <5>2 DEF i
        <4> QED BY <2>4, <4>1, <4>5
      <3> QED BY <3>1, <3>2
    <2> QED BY <2>5, <2>6
  <1>7. Places(Len(ss))
    <2>1. Nat \subseteq T
      <3> HIDE DEF T
      <3> QED BY <1>5, <1>6, Induction
    <2>2. Len(ss) \in T /\ Len(ss) <= Len(ss)
      <3> HIDE DEF T
      <3> QED BY <1>3, <2>1
    <2> HIDE DEF Places
    <2> QED BY <2>2
  <1>8. FlattenSeq(ss) \in Seq(S)
    BY <1>1, <1>3, <1>4
  <1> QED BY <1>1, <1>7, <1>8 DEF U

\* Each place in the whole is one of an element of the joined sequences.
LEMMA PlaceFound ==
  ASSUME NEW s \in Seq(Nat), NEW i \in 1..Sums(s)[Len(s)]
  PROVE  \E k \in 1..Len(s), j \in Nat :
            j \in 1..s[k] /\ i = Sums(s)[k - 1] + j
  <1> DEFINE U == Sums(s)
             T == {k \in 0..Len(s) : i <= U[k]}
  <1>1. /\ U \in [0..Len(s) -> Nat] /\ U[0] = 0
        /\ \A k \in 1..Len(s) : U[k] = U[k - 1] + s[k]
    BY SumsDef
  <1>2. Len(s) \in Nat /\ \A k \in 1..Len(s) : s[k] \in Nat
    OBVIOUS
  <1> HIDE DEF U
  <1>3. i \in 1..U[Len(s)] /\ U[Len(s)] \in Nat
    BY <1>1, <1>2 DEF U
  <1>4. PICK k \in T : \A l \in T : k <= l
    <2>1. T \subseteq Nat /\ Len(s) \in T
      BY <1>2, <1>3
    <2> HIDE DEF T
    <2> QED BY <2>1, LeastExists
  <1>5. k \in 1..Len(s) /\ k - 1 \in 0..Len(s)
    BY <1>1, <1>2, <1>3, <1>4
  <1>6. U[k - 1] \in Nat /\ U[k] = U[k - 1] + s[k] /\ s[k] \in Nat
    BY <1>1, <1>2, <1>5
  <1>7. ~(i <= U[k - 1])
    BY <1>4, <1>5
  <1>8. i - U[k - 1] \in 1..s[k] /\ i = U[k - 1] + (i - U[k - 1])
    BY <1>3, <1>4, <1>6, <1>7, SMTT(30)
  <1> QED BY <1>5, <1>8 DEF U

-----------------------------------------------------------------------------
(* Blocks and buffers.                                                     *)

\* A block of bytes of V: what is given up and what is in use fit into it.
Block(V) ==
    {blk \in [size : Nat, misalign : Nat, data : Seq(V)] :
        blk.misalign < blk.size /\ blk.misalign + Off(blk) <= blk.size}

\* Blocks without data come last, and lastWithData_ behind none of them.
IsBuffer(b, V) ==
    /\ b \in [chain : Seq(Block(V)), lwd : Nat, total : Nat]
    /\ b.lwd \in 1..(Len(b.chain) + 1)
    /\ \A k \in 1..Len(b.chain) :
          /\ \A j \in 1..k : Off(b.chain[k]) > 0 => Off(b.chain[j]) > 0
          /\ k < b.lwd => Off(b.chain[k]) > 0

\* all the bytes its blocks hold
Size(b) == Used(b)[Len(b.chain)]

\* An input buffer has no free space: a read has filled what it went into, and
\* lastWithData_ refers to the last block.
Tight(b) ==
    /\ \A k \in 1..Len(b.chain) : Free(b.chain[k]) = 0
    /\ Len(b.chain) > 0 => b.lwd = Len(b.chain)
    /\ b.total = 0 => b = EmptyBuffer

LEMMA BlockFacts ==
  ASSUME NEW V, NEW blk \in Block(V)
  PROVE  /\ blk.size \in Nat /\ blk.misalign \in Nat /\ blk.data \in Seq(V)
         /\ Off(blk) \in Nat /\ Off(blk) = Len(blk.data) /\ Free(blk) \in Nat
         /\ Off(blk) + Free(blk) = blk.size - blk.misalign
         /\ Off(blk) + Free(blk) > 0
         /\ blk = [size |-> blk.size, misalign |-> blk.misalign, data |-> blk.data]
  <1>1. /\ blk \in [size : Nat, misalign : Nat, data : Seq(V)]
        /\ blk.misalign < blk.size /\ blk.misalign + Off(blk) <= blk.size
    BY DEF Block
  <1>2. blk.size \in Nat /\ blk.misalign \in Nat /\ blk.data \in Seq(V)
    BY <1>1
  <1>3. Off(blk) \in Nat /\ Off(blk) = Len(blk.data)
    BY <1>2 DEF Off
  <1>4. Free(blk) \in Nat /\ Off(blk) + Free(blk) = blk.size - blk.misalign
    BY <1>1, <1>2, <1>3 DEF Free
  <1> QED BY <1>1, <1>2, <1>3, <1>4

LEMMA SequenceMade ==
  ASSUME NEW S, NEW n \in Nat, NEW ss \in [1..n -> S]
  PROVE  ss \in Seq(S) /\ Len(ss) = n
  OBVIOUS

LEMMA BlockWith ==
  ASSUME NEW V, NEW blk \in Block(V), NEW data \in Seq(V), NEW new,
         new = [blk EXCEPT !.data = data], blk.misalign + Len(data) <= blk.size
  PROVE  new \in Block(V) /\ new.data = data
  <1>1. blk \in [size : Nat, misalign : Nat, data : Seq(V)] /\ blk.misalign < blk.size
    BY DEF Block
  <1>2. /\ new \in [size : Nat, misalign : Nat, data : Seq(V)]
        /\ new.size = blk.size /\ new.misalign = blk.misalign /\ new.data = data
    BY <1>1
  <1> QED BY <1>1, <1>2 DEF Block, Off

LEMMA BufferFacts ==
  ASSUME NEW V, NEW b, IsBuffer(b, V)
  PROVE  /\ b.chain \in Seq(Block(V)) /\ Len(b.chain) \in Nat /\ Blocks(b) = 1..Len(b.chain)
         /\ \A k \in 1..Len(b.chain) : b.chain[k] \in Block(V)
         /\ b.lwd \in Nat /\ b.lwd >= 1 /\ b.lwd <= Len(b.chain) + 1 /\ b.total \in Nat
         /\ b = [chain |-> b.chain, lwd |-> b.lwd, total |-> b.total]
  <1>1. b \in [chain : Seq(Block(V)), lwd : Nat, total : Nat] /\ b.lwd \in 1..(Len(b.chain) + 1)
    BY DEF IsBuffer
  <1>2. b.chain \in Seq(Block(V)) /\ b.lwd \in Nat /\ b.total \in Nat
    BY <1>1
  <1>3. Len(b.chain) \in Nat /\ Blocks(b) = 1..Len(b.chain)
    BY <1>2 DEF Blocks
  <1> QED BY <1>1, <1>2, <1>3

LEMMA BufferMade ==
  ASSUME NEW V, NEW chain \in Seq(Block(V)), NEW lwd \in 1..(Len(chain) + 1), NEW total \in Nat,
         \A k \in 1..Len(chain) :
            /\ \A j \in 1..k : Off(chain[k]) > 0 => Off(chain[j]) > 0
            /\ k < lwd => Off(chain[k]) > 0
  PROVE  IsBuffer([chain |-> chain, lwd |-> lwd, total |-> total], V)
  <1>1. Len(chain) \in Nat
    OBVIOUS
  <1>2. lwd \in Nat
    BY <1>1
  <1> QED BY <1>2 DEF IsBuffer

\* A buffer of bytes of V is one of bytes of any larger set.
LEMMA BufferGrows ==
  ASSUME NEW V, NEW W, V \subseteq W, NEW b, IsBuffer(b, V)
  PROVE  IsBuffer(b, W)
  <1>1. Block(V) \subseteq Block(W)
    <2>1. Seq(V) \subseteq Seq(W)
      OBVIOUS
    <2> QED BY <2>1 DEF Block
  <1>2. Seq(Block(V)) \subseteq Seq(Block(W))
    BY <1>1
  <1> QED BY <1>2 DEF IsBuffer

LEMMA EmptyIsBuffer ==
  ASSUME NEW V
  PROVE  IsBuffer(EmptyBuffer, V)
  <1>1. <<>> \in Seq(Block(V)) /\ Len(<<>>) = 0
    OBVIOUS
  <1> QED BY <1>1 DEF IsBuffer, EmptyBuffer

LEMMA UsedDef ==
  ASSUME NEW V, NEW b, IsBuffer(b, V)
  PROVE  /\ Used(b) \in [0..Len(b.chain) -> Nat] /\ Used(b)[0] = 0
         /\ \A k \in 1..Len(b.chain) : Used(b)[k] = Used(b)[k - 1] + Off(b.chain[k])
         /\ \A i \in 0..Len(b.chain) : \A j \in i..Len(b.chain) : Used(b)[i] <= Used(b)[j]
         /\ Size(b) \in Nat
  <1> DEFINE s == [k \in Blocks(b) |-> Off(b.chain[k])]
  <1>1. s \in Seq(Nat) /\ Len(s) = Len(b.chain) /\ \A k \in 1..Len(b.chain) : s[k] = Off(b.chain[k])
    <2>1. s = [k \in 1..Len(b.chain) |-> Off(b.chain[k])]
      BY BufferFacts
    <2>2. \A k \in 1..Len(b.chain) : Off(b.chain[k]) \in Nat
      BY BufferFacts, BlockFacts
    <2> QED BY <2>1, <2>2, BufferFacts
  <1>2. Used(b) = Sums(s)
    BY DEF Used
  <1> HIDE DEF s
  <1>3. Used(b) \in [0..Len(b.chain) -> Nat] /\ Used(b)[0] = 0
    BY <1>1, <1>2, SumsDef
  <1>4. \A k \in 1..Len(b.chain) : Used(b)[k] = Used(b)[k - 1] + Off(b.chain[k])
    BY <1>1, <1>2, SumsDef
  <1>5. \A i \in 0..Len(b.chain) : \A j \in i..Len(b.chain) : Used(b)[i] <= Used(b)[j]
    BY <1>1, <1>2, SumsGrow
  <1>6. Size(b) \in Nat
    BY <1>3, BufferFacts DEF Size
  <1> QED BY <1>3, <1>4, <1>5, <1>6

LEMMA RoomDef ==
  ASSUME NEW V, NEW b, IsBuffer(b, V)
  PROVE  /\ Room(b) \in [0..Len(b.chain) -> Nat] /\ Room(b)[0] = 0
         /\ \A k \in 1..Len(b.chain) : Room(b)[k] = Room(b)[k - 1] + Free(b.chain[k])
         /\ \A i \in 0..Len(b.chain) : \A j \in i..Len(b.chain) : Room(b)[i] <= Room(b)[j]
  <1> DEFINE s == [k \in Blocks(b) |-> Free(b.chain[k])]
  <1>1. s \in Seq(Nat) /\ Len(s) = Len(b.chain) /\ \A k \in 1..Len(b.chain) : s[k] = Free(b.chain[k])
    <2>1. s = [k \in 1..Len(b.chain) |-> Free(b.chain[k])]
      BY BufferFacts
    <2>2. \A k \in 1..Len(b.chain) : Free(b.chain[k]) \in Nat
      BY BufferFacts, BlockFacts
    <2> QED BY <2>1, <2>2, BufferFacts
  <1>2. Room(b) = Sums(s)
    BY DEF Room
  <1> HIDE DEF s
  <1>3. Room(b) \in [0..Len(b.chain) -> Nat] /\ Room(b)[0] = 0
    BY <1>1, <1>2, SumsDef
  <1>4. \A k \in 1..Len(b.chain) : Room(b)[k] = Room(b)[k - 1] + Free(b.chain[k])
    BY <1>1, <1>2, SumsDef
  <1>5. \A i \in 0..Len(b.chain) : \A j \in i..Len(b.chain) : Room(b)[i] <= Room(b)[j]
    BY <1>1, <1>2, SumsGrow
  <1> QED BY <1>3, <1>4, <1>5

\* What starts at 0 and grows with the blocks is what they hold.
LEMMA UsedUnique ==
  ASSUME NEW V, NEW b, IsBuffer(b, V), NEW f, f[0] = 0,
         \A k \in 1..Len(b.chain) : f[k] = f[k - 1] + Off(b.chain[k])
  PROVE  \A k \in 0..Len(b.chain) : Used(b)[k] = f[k]
  <1> DEFINE s == [k \in Blocks(b) |-> Off(b.chain[k])]
  <1>1. s \in Seq(Nat) /\ Len(s) = Len(b.chain) /\ \A k \in 1..Len(b.chain) : s[k] = Off(b.chain[k])
    <2>1. s = [k \in 1..Len(b.chain) |-> Off(b.chain[k])]
      BY BufferFacts
    <2>2. \A k \in 1..Len(b.chain) : Off(b.chain[k]) \in Nat
      BY BufferFacts, BlockFacts
    <2> QED BY <2>1, <2>2, BufferFacts
  <1>2. Used(b) = Sums(s)
    BY DEF Used
  <1>3. Len(s) \in 0..Len(s) /\ \A k \in 1..Len(s) : f[k] = f[k - 1] + s[k]
    <2> HIDE DEF s
    <2> QED BY <1>1, BufferFacts
  <1> HIDE DEF s
  <1> QED BY <1>1, <1>2, <1>3, SumsUnique

\* Each byte of a block is at its place in the contents, and each byte of the
\* contents in some block.
LEMMA ContentsPlaces ==
  ASSUME NEW V, NEW b, IsBuffer(b, V)
  PROVE  /\ Contents(b) \in Seq(V) /\ Len(Contents(b)) = Size(b)
         /\ \A k \in 1..Len(b.chain) : \A j \in 1..Off(b.chain[k]) :
               Contents(b)[Used(b)[k - 1] + j] = b.chain[k].data[j]
         /\ \A i \in 1..Size(b) : \E k \in 1..Len(b.chain), j \in Nat :
               j \in 1..Off(b.chain[k]) /\ i = Used(b)[k - 1] + j
  <1> DEFINE ss == [k \in Blocks(b) |-> b.chain[k].data]
  <1>1. /\ ss \in Seq(Seq(V)) /\ Len(ss) = Len(b.chain)
        /\ \A k \in 1..Len(b.chain) : ss[k] = b.chain[k].data /\ Len(ss[k]) = Off(b.chain[k])
    <2>1. ss = [k \in 1..Len(b.chain) |-> b.chain[k].data]
      BY BufferFacts
    <2>2. \A k \in 1..Len(b.chain) : b.chain[k].data \in Seq(V)
      BY BufferFacts, BlockFacts
    <2> QED BY <2>1, <2>2, BufferFacts DEF Off
  <1>2. Lengths(ss) = [k \in Blocks(b) |-> Off(b.chain[k])]
    BY DEF Lengths, Off
  <1>3. Used(b) = Sums(Lengths(ss)) /\ Contents(b) = FlattenSeq(ss)
    BY <1>2 DEF Used, Contents
  <1> HIDE DEF ss
  <1>4. Contents(b) \in Seq(V) /\ Len(Contents(b)) = Size(b)
    BY <1>1, <1>3, FlattenPlaces DEF Size
  <1>5. ASSUME NEW k \in 1..Len(b.chain), NEW j \in 1..Off(b.chain[k])
        PROVE  Contents(b)[Used(b)[k - 1] + j] = b.chain[k].data[j]
    BY <1>1, <1>3, FlattenPlaces
  <1>6. ASSUME NEW i \in 1..Size(b)
        PROVE  \E k \in 1..Len(b.chain), j \in Nat :
                  j \in 1..Off(b.chain[k]) /\ i = Used(b)[k - 1] + j
    <2>1. /\ Lengths(ss) \in Seq(Nat) /\ Len(Lengths(ss)) = Len(b.chain)
          /\ \A k \in 1..Len(b.chain) : Lengths(ss)[k] = Off(b.chain[k])
      BY <1>1, LengthsType
    <2>2. i \in 1..Sums(Lengths(ss))[Len(Lengths(ss))]
      BY <1>3, <2>1 DEF Size
    <2>3. PICK k \in 1..Len(Lengths(ss)), j \in Nat :
             j \in 1..Lengths(ss)[k] /\ i = Sums(Lengths(ss))[k - 1] + j
      BY <2>1, <2>2, PlaceFound
    <2> QED BY <1>3, <2>1, <2>3
  <1> QED BY <1>4, <1>5, <1>6

Held(b) == UNION {Range(b.chain[k].data) : k \in 1..Len(b.chain)}

LEMMA ContentsRange ==
  ASSUME NEW V, NEW b, IsBuffer(b, V)
  PROVE  Range(Contents(b)) = Held(b)
  <1>1. /\ Contents(b) \in Seq(V) /\ DOMAIN Contents(b) = 1..Size(b)
        /\ \A k \in 1..Len(b.chain) : \A j \in 1..Off(b.chain[k]) :
              Contents(b)[Used(b)[k - 1] + j] = b.chain[k].data[j]
        /\ \A i \in 1..Size(b) : \E k \in 1..Len(b.chain), j \in Nat :
              j \in 1..Off(b.chain[k]) /\ i = Used(b)[k - 1] + j
    BY ContentsPlaces, LenProperties
  <1>2. \A k \in 1..Len(b.chain) : DOMAIN b.chain[k].data = 1..Off(b.chain[k])
    <2>1. \A k \in 1..Len(b.chain) : b.chain[k].data \in Seq(V)
      BY BufferFacts, BlockFacts
    <2> QED BY <2>1, LenProperties DEF Off
  <1>3. ASSUME NEW x \in Range(Contents(b)) PROVE x \in Held(b)
    <2>1. PICK i \in 1..Size(b) : x = Contents(b)[i]
      BY <1>1 DEF Range
    <2>2. PICK k \in 1..Len(b.chain), j \in Nat :
             j \in 1..Off(b.chain[k]) /\ i = Used(b)[k - 1] + j
      BY <1>1
    <2>3. x = b.chain[k].data[j] /\ j \in DOMAIN b.chain[k].data
      BY <1>1, <1>2, <2>1, <2>2
    <2> QED BY <2>3 DEF Held, Range
  <1>4. ASSUME NEW x \in Held(b) PROVE x \in Range(Contents(b))
    <2>1. PICK k \in 1..Len(b.chain) : x \in Range(b.chain[k].data)
      BY DEF Held
    <2>2. PICK j \in 1..Off(b.chain[k]) : x = b.chain[k].data[j]
      BY <1>2, <2>1 DEF Range
    <2>3. x = Contents(b)[Used(b)[k - 1] + j]
      BY <1>1, <2>2
    <2>4. Used(b)[k - 1] + j \in 1..Size(b)
      <3>1. k - 1 \in 0..Len(b.chain) /\ k \in 0..Len(b.chain) /\ Len(b.chain) \in k..Len(b.chain)
        BY BufferFacts
      <3>2. Used(b)[k - 1] \in Nat /\ Used(b)[k] = Used(b)[k - 1] + Off(b.chain[k])
        BY <3>1, UsedDef
      <3>3. Used(b)[k] <= Size(b) /\ Size(b) \in Nat
        BY <3>1, UsedDef DEF Size
      <3>4. Off(b.chain[k]) \in Nat
        BY BufferFacts, BlockFacts
      <3> QED BY <3>2, <3>3, <3>4
    <2> QED BY <1>1, <2>3, <2>4 DEF Range
  <1> QED BY <1>3, <1>4

\* The default size is doubled until it is enough.
LEMMA AllocFits ==
  ASSUME NEW n \in Nat
  PROVE  AllocSize(n) \in Nat /\ AllocSize(n) > 0 /\ AllocSize(n) >= n
  <1> DEFINE P(h) == h = [k \in 0..n |-> IF k = 0 THEN kDefaultAllocSize ELSE 2 * h[k - 1]]
             f == CHOOSE h : P(h)
             Positive == Nat \ {0}
             step == [k \in 1..n |-> [v \in Positive |-> 2 * v]]
  <1>1. step \in [1..n -> [Positive -> Positive]] /\ kDefaultAllocSize \in Positive
    BY AllocAssumption
  <1>2. PICK g : Recursion(g, Positive, kDefaultAllocSize, n, step)
    <2> HIDE DEF step, Positive
    <2> QED BY <1>1, RecursionExists
  <1>3. ASSUME NEW k \in 1..n PROVE g[k] = 2 * g[k - 1]
    <2>1. k - 1 \in 0..n
      OBVIOUS
    <2>2. g[k] = step[k][g[k - 1]] /\ g[k - 1] \in Positive
      <3> HIDE DEF step, Positive
      <3> QED BY <1>2, <2>1 DEF Recursion
    <2> QED BY <2>2
  <1>4. P(g)
    BY <1>2, <1>3 DEF Recursion
  <1>5. P(f)
    <2> HIDE DEF P
    <2> QED BY <1>4
  <1>6. AllocSize(n) = Min({s \in {f[k] : k \in 0..n} : s >= n})
    BY DEF AllocSize
  <1> HIDE DEF f
  <1>7. f[0] = kDefaultAllocSize /\ \A k \in 1..n : f[k] = 2 * f[k - 1]
    BY <1>5
  <1> DEFINE T == {k \in Nat : k <= n => f[k] \in Nat /\ f[k] >= k + 1}
  <1>8. 0 \in T
    BY <1>7, AllocAssumption
  <1>9. ASSUME NEW k \in Nat, k \in T PROVE k + 1 \in T
    <2> SUFFICES ASSUME k + 1 <= n PROVE f[k + 1] \in Nat /\ f[k + 1] >= (k + 1) + 1
      OBVIOUS
    <2>1. k + 1 \in 1..n /\ (k + 1) - 1 = k
      OBVIOUS
    <2>2. f[k] \in Nat /\ f[k] >= k + 1
      BY <1>9, <2>1
    <2>3. f[k + 1] = 2 * f[k]
      BY <1>7, <2>1
    <2> QED BY <2>2, <2>3
  <1>10. \A k \in 0..n : f[k] \in Nat /\ f[k] >= k + 1
    <2>1. Nat \subseteq T
      <3> HIDE DEF T
      <3> QED BY <1>8, <1>9, Induction
    <2> QED BY <2>1
  <1> DEFINE U == {s \in {f[k] : k \in 0..n} : s >= n}
  <1>11. U \subseteq Nat /\ \A s \in U : s > 0 /\ s >= n
    BY <1>10
  <1>12. f[n] \in U
    BY <1>10
  <1>13. Min(U) \in U
    <2> HIDE DEF U
    <2> QED BY <1>11, <1>12, LeastExists
  <1> QED BY <1>6, <1>11, <1>13

\* A new block has room for what it was asked for.
LEMMA NewBlockFits ==
  ASSUME NEW V, NEW n \in Nat, NEW data \in Seq(V), Len(data) <= n
  PROVE  /\ NewBlock(n, data) \in Block(V)
         /\ NewBlock(n, data).data = data /\ NewBlock(n, data).size >= n
         /\ NewBlock(n, data).misalign = 0
         /\ Off(NewBlock(n, data)) = Len(data)
         /\ Off(NewBlock(n, data)) + Free(NewBlock(n, data)) >= n
  <1>1. AllocSize(n) \in Nat /\ AllocSize(n) > 0 /\ AllocSize(n) >= n /\ Len(data) \in Nat
    BY AllocFits
  <1> HIDE DEF AllocSize
  <1> QED BY <1>1 DEF NewBlock, Block, Off, Free

-----------------------------------------------------------------------------
(* bufferAdd.                                                              *)

LEMMA RangeEmpty ==
  ASSUME NEW V, NEW s \in Seq(V), Len(s) = 0
  PROVE  Range(s) = {}
  <1>1. DOMAIN s = 1..0
    BY LenProperties
  <1> QED BY <1>1 DEF Range

\* blk is block i of b with more behind its data
Extends(b, i, blk, more, V) ==
    /\ i \in 1..Len(b.chain) /\ i <= b.lwd
    /\ blk \in Block(V) /\ more \in Seq(V) /\ blk.data = b.chain[i].data \o more

\* c holds more besides what b holds, and its total is n more
Gains(b, c, more, n, V) ==
    /\ IsBuffer(c, V) /\ c.lwd = b.lwd /\ c.total = b.total + n
    /\ Size(c) = Size(b) + Len(more) /\ Held(c) = Held(b) \cup Range(more)

\* One block is extended, and those before the block of lastWithData_ have data.
LEMMA GrowKeeps ==
  ASSUME NEW V, NEW b, NEW i, NEW blk, NEW more, NEW n \in Nat,
         IsBuffer(b, V), Extends(b, i, blk, more, V)
  PROVE  Gains(b, Grow(b, i, blk, n), more, n, V)
  <1> DEFINE chain == [b.chain EXCEPT ![i] = blk]
             R == [chain : Seq(Block(V)), lwd : Nat, total : Nat]
             c == Grow(b, i, blk, n)
  <1> USE DEF Extends
  <1>1. /\ b.chain \in Seq(Block(V)) /\ Len(b.chain) \in Nat
        /\ \A k \in 1..Len(b.chain) : Off(b.chain[k]) \in Nat /\ b.chain[k].data \in Seq(V)
    BY BufferFacts, BlockFacts
  <1>2. /\ chain \in Seq(Block(V)) /\ Len(chain) = Len(b.chain) /\ chain[i] = blk
        /\ \A k \in 1..Len(b.chain) : k # i => chain[k] = b.chain[k]
    BY <1>1, ExceptSeq
  <1>3. c = [b EXCEPT !.chain = chain, !.total = b.total + n]
    BY DEF Grow
  <1> HIDE DEF chain, c
  <1>9. c.chain = chain /\ c.lwd = b.lwd /\ c.total = b.total + n /\ c \in R
    <2>1. b.total + n \in Nat /\ b \in R
      BY BufferFacts DEF IsBuffer
    <2> QED BY <1>2, <1>3, <2>1
  <1>4. Off(blk) = Off(b.chain[i]) + Len(more) /\ Len(more) \in Nat
    BY <1>1, ConcatProperties DEF Off
  <1>5. ASSUME NEW k \in 1..Len(chain)
        PROVE  /\ \A j \in 1..k : Off(chain[k]) > 0 => Off(chain[j]) > 0
               /\ k < b.lwd => Off(chain[k]) > 0
    <2>1. /\ \A j \in 1..k : Off(b.chain[k]) > 0 => Off(b.chain[j]) > 0
          /\ k < b.lwd => Off(b.chain[k]) > 0
      BY <1>2 DEF IsBuffer
    <2>2. \A j \in 1..i : j # i => Off(b.chain[j]) > 0
      <3>1. \A j \in 1..i : j # i => j \in 1..Len(b.chain) /\ j < b.lwd
        BY <1>1, BufferFacts, SMTT(30)
      <3> QED BY <3>1 DEF IsBuffer
    <2>3. \A j \in 1..Len(b.chain) : Off(b.chain[j]) > 0 => Off(chain[j]) > 0
      BY <1>1, <1>2, <1>4
    <2>4. ASSUME NEW j \in 1..k, Off(chain[k]) > 0 PROVE Off(chain[j]) > 0
      <3>1. CASE k = i
        BY <1>1, <1>2, <2>2, <2>3, <2>4, <3>1
      <3>2. CASE k # i
        <4>1. k \in 1..Len(b.chain) /\ j \in 1..Len(b.chain)
          BY <1>1, <1>2
        <4>2. Off(b.chain[k]) > 0
          BY <1>2, <2>4, <3>2, <4>1
        <4> QED BY <2>1, <2>3, <4>1, <4>2
      <3> QED BY <3>1, <3>2
    <2> QED BY <1>2, <2>1, <2>3, <2>4
  <1>6. IsBuffer(c, V)
    <2>1. b.lwd \in 1..(Len(chain) + 1)
      BY <1>1, <1>2, BufferFacts
    <2> QED BY <1>9, <1>5, <2>1 DEF IsBuffer
  <1>7. Size(c) = Size(b) + Len(more)
    <2> DEFINE f == [k \in 0..Len(b.chain) |-> Used(b)[k] + IF k < i THEN 0 ELSE Len(more)]
    <2>1. f[0] = 0
      BY <1>1, UsedDef
    <2>2. ASSUME NEW k \in 1..Len(b.chain) PROVE f[k] = f[k - 1] + Off(chain[k])
      <3>1. /\ Used(b)[k] = Used(b)[k - 1] + Off(b.chain[k]) /\ k - 1 \in 0..Len(b.chain)
            /\ Used(b)[k - 1] \in Nat /\ Off(b.chain[k]) \in Nat
        <4>1. k - 1 \in 0..Len(b.chain)
          BY <1>1
        <4> QED BY <1>1, <4>1, UsedDef
      <3>2. CASE k = i
        BY <1>2, <1>4, <3>1, <3>2
      <3>3. CASE k # i
        <4>1. k < i <=> k - 1 < i
          BY <3>3
        <4> QED BY <1>1, <1>2, <1>4, <3>1, <3>3, <4>1
      <3> QED BY <3>2, <3>3
    <2>3. Len(b.chain) \in 0..Len(b.chain) /\ ~(Len(b.chain) < i)
      BY <1>1
    <2>4. f[Len(b.chain)] = Size(b) + Len(more)
      BY <2>3 DEF Size
    <2> HIDE DEF f
    <2>5. Used(c)[Len(b.chain)] = f[Len(b.chain)]
      <3>1. Len(c.chain) = Len(b.chain) /\ \A k \in 1..Len(c.chain) : f[k] = f[k - 1] + Off(c.chain[k])
        BY <1>2, <1>9, <2>2
      <3>2. \A k \in 0..Len(c.chain) : Used(c)[k] = f[k]
        <4> DEFINE d == c
        <4>1. IsBuffer(d, V) /\ \A k \in 1..Len(d.chain) : f[k] = f[k - 1] + Off(d.chain[k])
          BY <1>6, <3>1
        <4> HIDE DEF d
        <4>2. \A k \in 0..Len(d.chain) : Used(d)[k] = f[k]
          BY <2>1, <4>1, UsedUnique, SMTT(30)
        <4> QED BY <4>2 DEF d
      <3> QED BY <2>3, <3>1, <3>2
    <2> QED BY <1>2, <1>9, <2>4, <2>5 DEF Size
  <1>8. Held(c) = Held(b) \cup Range(more)
    <2>1. Range(blk.data) = Range(b.chain[i].data) \cup Range(more)
      BY <1>1, RangeConcatenation
    <2> QED BY <1>2, <1>9, <2>1 DEF Held
  <1> QED BY <1>6, <1>7, <1>8, <1>9 DEF c, Gains

\* A block is inserted behind all that have data.
LEMMA Inserted ==
  ASSUME NEW V, NEW b, IsBuffer(b, V), NEW blk \in Block(V)
  PROVE  LET c == InsertChain(b, blk) IN
         /\ IsBuffer(c, V) /\ c.lwd = b.lwd /\ c.total = b.total /\ Len(c.chain) > 0
         /\ Size(c) = Size(b) + Off(blk) /\ Held(c) = Held(b) \cup Range(blk.data)
  <1> DEFINE N == Len(b.chain)
             full == {k \in Blocks(b) : k < b.lwd \/ \A j \in b.lwd..k : Off(b.chain[j]) > 0}
             m == Max(full \cup {0})
             kept == SubSeq(b.chain, 1, m)
             chain == Append(kept, blk)
             c == InsertChain(b, blk)
  <1>1. /\ b.chain \in Seq(Block(V)) /\ N \in Nat /\ Blocks(b) = 1..N
        /\ \A k \in 1..N : Off(b.chain[k]) \in Nat /\ b.chain[k].data \in Seq(V)
        /\ b.lwd \in Nat /\ b.lwd >= 1 /\ b.lwd <= N + 1 /\ b.total \in Nat
    BY BufferFacts, BlockFacts
  <1>2. /\ \A k \in 1..N : \A j \in 1..k : Off(b.chain[k]) > 0 => Off(b.chain[j]) > 0
        /\ \A k \in 1..N : k < b.lwd => Off(b.chain[k]) > 0
    BY DEF IsBuffer
  <1>3. m \in full \cup {0} /\ \A y \in full \cup {0} : m >= y
    <2>1. full \cup {0} \subseteq 0..N /\ full \cup {0} # {}
      BY <1>1
    <2> HIDE DEF full
    <2> QED BY <1>1, <2>1, GreatestExists
  <1>4. c = [chain |-> chain, lwd |-> b.lwd, total |-> b.total]
    <2>1. c = [b EXCEPT !.chain = chain]
      BY DEF InsertChain
    <2> HIDE DEF chain
    <2> QED BY <2>1, BufferFacts
  <1> HIDE DEF m, c
  <1>5. m \in 0..N /\ \A k \in 1..m : Off(b.chain[k]) > 0
    <2>1. m \in 0..N
      BY <1>1, <1>3
    <2>2. ASSUME NEW k \in 1..m PROVE Off(b.chain[k]) > 0
      <3>1. m \in full /\ k \in 1..N /\ m \in 1..N
        BY <1>1, <1>3, <2>1
      <3>2. CASE m < b.lwd
        BY <1>1, <1>2, <3>1, <3>2
      <3>3. CASE ~(m < b.lwd)
        <4>1. Off(b.chain[m]) > 0
          BY <1>1, <3>1, <3>3
        <4> QED BY <1>2, <3>1, <4>1
      <3> QED BY <3>2, <3>3
    <2> QED BY <2>1, <2>2
  <1>6. b.lwd <= m + 1
    <2>1. CASE b.lwd = 1
      BY <1>5, <2>1
    <2>2. CASE b.lwd # 1
      <3>1. b.lwd - 1 \in 1..N /\ b.lwd - 1 < b.lwd
        BY <1>1, <2>2
      <3>2. b.lwd - 1 \in full
        BY <1>1, <3>1
      <3>3. m >= b.lwd - 1
        BY <1>3, <3>2
      <3> QED BY <1>1, <1>5, <3>3
    <2> QED BY <2>1, <2>2
  <1>7. \A k \in (m + 1)..N : Off(b.chain[k]) = 0
    <2> SUFFICES ASSUME NEW k \in (m + 1)..N PROVE Off(b.chain[k]) = 0
      OBVIOUS
    <2>1. m + 1 \in 1..N /\ m + 1 \in 1..k /\ k \in 1..N /\ m + 1 \notin full
      BY <1>1, <1>3, <1>5
    <2>2. PICK j \in b.lwd..(m + 1) : ~(Off(b.chain[j]) > 0)
      BY <1>1, <2>1
    <2>3. j \in 1..(m + 1)
      BY <1>1, <1>5, <2>2
    <2>4. ~(Off(b.chain[m + 1]) > 0)
      BY <1>2, <2>1, <2>2, <2>3
    <2>5. ~(Off(b.chain[k]) > 0)
      BY <1>2, <2>1, <2>4
    <2> QED BY <1>1, <2>1, <2>5
  <1> HIDE DEF full
  <1>8. kept \in Seq(Block(V)) /\ Len(kept) = m /\ \A k \in 1..m : kept[k] = b.chain[k]
    <2>1. \A k \in 1..m : b.chain[k] \in Block(V)
      BY <1>1, <1>5
    <2>2. m \in Int /\ 1 \in Int
      BY <1>5
    <2>3. /\ SubSeq(b.chain, 1, m) \in Seq(Block(V))
          /\ Len(SubSeq(b.chain, 1, m)) = IF 1 <= m THEN m - 1 + 1 ELSE 0
          /\ \A k \in 1..(m - 1 + 1) : SubSeq(b.chain, 1, m)[k] = b.chain[1 + k - 1]
      BY <2>1, <2>2, SubSeqProperties
    <2> QED BY <1>5, <2>3
  <1> HIDE DEF kept
  <1>9. /\ chain \in Seq(Block(V)) /\ Len(chain) = m + 1 /\ chain[m + 1] = blk
        /\ \A k \in 1..m : chain[k] = b.chain[k]
    BY <1>5, <1>8, AppendProperties
  <1> HIDE DEF chain
  <1>10. ASSUME NEW k \in 1..Len(chain)
         PROVE  /\ \A j \in 1..k : Off(chain[k]) > 0 => Off(chain[j]) > 0
                /\ k < b.lwd => Off(chain[k]) > 0
    <2>1. \A j \in 1..m : Off(chain[j]) > 0
      BY <1>5, <1>9
    <2>2. \A j \in 1..k : j \in 1..m \/ j = k
      BY <1>5, <1>9
    <2>3. k < b.lwd => k \in 1..m
      BY <1>1, <1>5, <1>6, <1>9
    <2> QED BY <2>1, <2>2, <2>3
  <1>11. IsBuffer(c, V)
    <2>1. b.lwd \in 1..(Len(chain) + 1)
      BY <1>1, <1>5, <1>6, <1>9
    <2> QED BY <1>1, <1>4, <1>9, <1>10, <2>1, BufferMade
  <1>12. c.chain = chain
    BY <1>4
  <1>13. Size(c) = Size(b) + Off(blk)
    <2>1. \A k \in 0..N : Used(b)[k] \in Nat
      BY UsedDef
    <2>2. Size(b) = Used(b)[m]
      <3> DEFINE f == [k \in 0..N |-> IF k <= m THEN Used(b)[k] ELSE Used(b)[m]]
      <3>1. f[0] = 0
        BY <1>1, <1>5, UsedDef
      <3>2. ASSUME NEW k \in 1..N PROVE f[k] = f[k - 1] + Off(b.chain[k])
        <4>1. Used(b)[k] = Used(b)[k - 1] + Off(b.chain[k]) /\ k - 1 \in 0..N
          BY <1>1, UsedDef
        <4>2. CASE k <= m
          BY <1>5, <4>1, <4>2
        <4>3. CASE ~(k <= m)
          <5>1. Off(b.chain[k]) = 0 /\ m <= k - 1
            BY <1>1, <1>5, <1>7, <4>3
          <5>2. f[k] = Used(b)[m] /\ f[k - 1] = Used(b)[m]
            BY <1>5, <4>1, <4>3, <5>1
          <5> QED BY <1>5, <2>1, <5>1, <5>2
        <4> QED BY <4>2, <4>3
      <3>3. f[N] = Used(b)[m] /\ N \in 0..N
        BY <1>1, <1>5
      <3> HIDE DEF f
      <3> QED BY <3>1, <3>2, <3>3, UsedUnique DEF Size
    <2>3. Used(c)[m] = Used(b)[m]
      <3>1. \A k \in 0..m : Used(c)[k] = Used(b)[k]
        <4> DEFINE T == {k \in Nat : k <= m => Used(c)[k] = Used(b)[k]}
        <4>1. 0 \in T
          BY <1>11, UsedDef
        <4>2. ASSUME NEW k \in Nat, k \in T PROVE k + 1 \in T
          <5> SUFFICES ASSUME k + 1 <= m PROVE Used(c)[k + 1] = Used(b)[k + 1]
            OBVIOUS
          <5>1. /\ k + 1 \in 1..N /\ k + 1 \in 1..Len(c.chain) /\ (k + 1) - 1 = k /\ k + 1 \in 1..m
            BY <1>1, <1>5, <1>9, <1>12
          <5>2. Used(c)[k] = Used(b)[k]
            BY <1>5, <4>2, <5>1
          <5>3. Used(c)[k + 1] = Used(c)[k] + Off(c.chain[k + 1])
            BY <1>11, <5>1, UsedDef
          <5>4. Used(b)[k + 1] = Used(b)[k] + Off(b.chain[k + 1])
            BY <5>1, UsedDef
          <5> QED BY <1>9, <1>12, <5>1, <5>2, <5>3, <5>4
        <4>3. Nat \subseteq T
          <5> HIDE DEF T
          <5> QED BY <4>1, <4>2, Induction
        <4> QED BY <1>5, <4>3
      <3> QED BY <1>5, <3>1
    <2>4. Used(c)[m + 1] = Used(c)[m] + Off(blk)
      <3>1. m + 1 \in 1..Len(c.chain) /\ (m + 1) - 1 = m
        BY <1>5, <1>9, <1>12
      <3>2. Used(c)[m + 1] = Used(c)[(m + 1) - 1] + Off(c.chain[m + 1])
        BY <1>11, <3>1, UsedDef
      <3> QED BY <1>9, <1>12, <3>1, <3>2
    <2> QED BY <1>9, <1>12, <2>2, <2>3, <2>4 DEF Size
  <1>14. Held(c) = Held(b) \cup Range(blk.data)
    <2>1. \A k \in 1..N : k \notin 1..m => Range(b.chain[k].data) = {}
      <3> SUFFICES ASSUME NEW k \in 1..N, k \notin 1..m PROVE Range(b.chain[k].data) = {}
        OBVIOUS
      <3>1. Off(b.chain[k]) = 0
        BY <1>1, <1>5, <1>7
      <3>2. Len(b.chain[k].data) = 0 /\ b.chain[k].data \in Seq(V)
        BY <1>1, <3>1 DEF Off
      <3> QED BY <3>2, RangeEmpty
    <2>2. Held(c) = UNION {Range(chain[k].data) : k \in 1..(m + 1)}
      BY <1>9, <1>12 DEF Held
    <2>3. \A k \in 1..m : k \in 1..N /\ k \in 1..(m + 1)
      BY <1>1, <1>5
    <2>4. \A k \in 1..(m + 1) : k \in 1..m \/ k = m + 1
      BY <1>5
    <2>5. m + 1 \in 1..(m + 1)
      BY <1>5
    <2>6. ASSUME NEW x \in Held(c) PROVE x \in Held(b) \cup Range(blk.data)
      <3>1. PICK k \in 1..(m + 1) : x \in Range(chain[k].data)
        BY <2>2
      <3> QED BY <1>9, <2>3, <2>4, <3>1 DEF Held
    <2>7. ASSUME NEW x \in Held(b) PROVE x \in Held(c)
      <3>1. PICK k \in 1..N : x \in Range(b.chain[k].data)
        BY DEF Held
      <3>2. k \in 1..m
        BY <2>1, <3>1
      <3> QED BY <1>9, <2>2, <2>3, <3>1, <3>2
    <2>8. Range(blk.data) \subseteq Held(c)
      BY <1>9, <2>2, <2>5
    <2> QED BY <2>6, <2>7, <2>8
  <1> QED BY <1>4, <1>5, <1>9, <1>11, <1>12, <1>13, <1>14 DEF c

LEMMA SplitInTwo ==
  ASSUME NEW V, NEW s \in Seq(V), NEW m \in Nat, m <= Len(s)
  PROVE  LET a == SubSeq(s, 1, m)
             z == SubSeq(s, m + 1, Len(s)) IN
         /\ a \in Seq(V) /\ Len(a) = m /\ z \in Seq(V) /\ Len(z) = Len(s) - m
         /\ \A j \in 1..m : a[j] = s[j]
         /\ \A j \in 1..(Len(s) - m) : z[j] = s[m + j]
         /\ Range(a) \cup Range(z) = Range(s)
  <1> DEFINE a == SubSeq(s, 1, m)
             z == SubSeq(s, m + 1, Len(s))
  <1>1. Len(s) \in Nat /\ \A j \in 1..Len(s) : s[j] \in V
    OBVIOUS
  <1>2. /\ a \in Seq(V) /\ Len(a) = IF 1 <= m THEN m - 1 + 1 ELSE 0
        /\ \A j \in 1..(m - 1 + 1) : a[j] = s[1 + j - 1]
    <2>1. \A j \in 1..m : s[j] \in V
      BY <1>1
    <2> QED BY <2>1, SubSeqProperties
  <1>3. /\ z \in Seq(V) /\ Len(z) = IF m + 1 <= Len(s) THEN Len(s) - (m + 1) + 1 ELSE 0
        /\ \A j \in 1..(Len(s) - (m + 1) + 1) : z[j] = s[m + 1 + j - 1]
    <2>1. (\A j \in (m + 1)..Len(s) : s[j] \in V) /\ m + 1 \in Int /\ Len(s) \in Int
      BY <1>1
    <2> QED BY <2>1, SubSeqProperties
  <1> HIDE DEF a, z
  <1>4. Len(a) = m /\ \A j \in 1..m : a[j] = s[j]
    BY <1>1, <1>2
  <1>5. Len(z) = Len(s) - m /\ \A j \in 1..(Len(s) - m) : z[j] = s[m + j]
    BY <1>1, <1>3
  <1>6. DOMAIN a = 1..m /\ DOMAIN z = 1..(Len(s) - m) /\ DOMAIN s = 1..Len(s)
    BY <1>2, <1>3, <1>4, <1>5
  <1>7. Range(a) \subseteq Range(s)
    BY <1>1, <1>4, <1>6 DEF Range
  <1>8. Range(z) \subseteq Range(s)
    <2>1. \A j \in 1..(Len(s) - m) : m + j \in 1..Len(s)
      BY <1>1
    <2> QED BY <1>5, <1>6, <2>1 DEF Range
  <1>9. ASSUME NEW x \in Range(s) PROVE x \in Range(a) \cup Range(z)
    <2>1. PICK j \in 1..Len(s) : x = s[j]
      BY <1>6 DEF Range
    <2>2. CASE j <= m
      BY <1>4, <1>6, <2>1, <2>2 DEF Range
    <2>3. CASE ~(j <= m)
      <3>1. j - m \in 1..(Len(s) - m) /\ m + (j - m) = j
        BY <1>1, <2>3
      <3>2. z[j - m] = s[j]
        BY <1>5, <3>1
      <3> QED BY <1>6, <2>1, <3>1, <3>2 DEF Range
    <2> QED BY <2>2, <2>3
  <1> QED BY <1>2, <1>3, <1>4, <1>5, <1>7, <1>8, <1>9 DEF a, z

\* Where the bytes go, realigned, filled or in a new block, all are held once more.
LEMMA AddKeeps ==
  ASSUME NEW V, NEW b, IsBuffer(b, V), NEW data \in Seq(V)
  PROVE  LET c == BufferAdd(b, data) IN
         /\ IsBuffer(c, V) /\ c.lwd = b.lwd /\ c.total = b.total + Len(data)
         /\ Size(c) = Size(b) + Len(data) /\ Held(c) = Held(b) \cup Range(data)
  <1> DEFINE n == Len(data)
             fresh == NewBlock(n, <<>>)
             e == IF b.chain = <<>> THEN InsertChain(b, fresh) ELSE b
             i == Minimum(e.lwd, Len(e.chain))
             blk == e.chain[i]
             room == Free(blk)
             Grown(new) == Grow(e, i, new, n)
             part == SubSeq(data, 1, room)
             left == SubSeq(data, room + 1, n)
             appended == [blk EXCEPT !.data = @ \o data]
             realigned == [blk EXCEPT !.data = @ \o data, !.misalign = 0]
             filled == [blk EXCEPT !.data = @ \o part]
             rest == NewBlock(n - room, left)
             c == BufferAdd(b, data)
  <1>1. c = IF room > n THEN Grown(appended)
            ELSE IF blk.size - Off(blk) > n THEN Grown(realigned)
            ELSE InsertChain(Grown(filled), rest)
    BY DEF BufferAdd
  <1>2. n \in Nat /\ b.total \in Nat /\ Size(b) \in Nat
    BY BufferFacts, UsedDef
  <1> HIDE DEF c
  <1>3. /\ IsBuffer(e, V) /\ e.lwd = b.lwd /\ e.total = b.total /\ Len(e.chain) > 0
        /\ Size(e) = Size(b) /\ Held(e) = Held(b)
    <2>1. CASE b.chain = <<>>
      <3>1. <<>> \in Seq(V) /\ Len(<<>>) = 0
        OBVIOUS
      <3>2. fresh \in Block(V) /\ fresh.data = <<>> /\ Off(fresh) = 0
        <4>1. Len(<<>>) <= n
          BY <1>2, <3>1
        <4> HIDE DEF n
        <4>2. <<>> \in Seq(V) /\ n \in Nat
          BY <1>2, <3>1
        <4>3. fresh \in Block(V) /\ fresh.data = <<>> /\ Off(fresh) = Len(<<>>)
          BY <4>1, <4>2, NewBlockFits, Zenon
        <4> QED BY <3>1, <4>3
      <3>3. Range(fresh.data) = {}
        BY <3>1, <3>2, RangeEmpty
      <3>4. e = InsertChain(b, fresh)
        BY <2>1
      <3> HIDE DEF fresh, e
      <3>5. /\ IsBuffer(e, V) /\ e.lwd = b.lwd /\ e.total = b.total /\ Len(e.chain) > 0
            /\ Size(e) = Size(b) + Off(fresh) /\ Held(e) = Held(b) \cup Range(fresh.data)
        BY <3>2, <3>4, Inserted
      <3> QED BY <1>2, <3>2, <3>3, <3>5
    <2>2. CASE b.chain # <<>>
      <3>1. e = b
        BY <2>2
      <3>2. Len(b.chain) > 0
        BY <2>2, BufferFacts, EmptySeq
      <3> HIDE DEF e
      <3> QED BY <3>1, <3>2
    <2> QED BY <2>1, <2>2
  <1> HIDE DEF e
  <1>4. e.chain \in Seq(Block(V)) /\ Len(e.chain) \in Nat /\ e.lwd \in Nat /\ e.lwd >= 1
    BY <1>3, BufferFacts
  <1>5. i \in 1..Len(e.chain) /\ i <= e.lwd
    BY <1>3, <1>4 DEF Minimum
  <1> HIDE DEF i
  <1>6. blk \in Block(V)
    BY <1>4, <1>5
  <1>7. /\ blk.size \in Nat /\ blk.misalign \in Nat /\ blk.data \in Seq(V) /\ blk.misalign < blk.size
        /\ Off(blk) \in Nat /\ Off(blk) = Len(blk.data) /\ room \in Nat
        /\ Off(blk) + room = blk.size - blk.misalign
        /\ blk = [size |-> blk.size, misalign |-> blk.misalign, data |-> blk.data]
    BY <1>6, BlockFacts DEF Block
  <1>8. ASSUME NEW more \in Seq(V), NEW new \in Block(V), new.data = blk.data \o more
        PROVE  /\ IsBuffer(Grown(new), V) /\ Grown(new).lwd = b.lwd
               /\ Grown(new).total = b.total + n
               /\ Size(Grown(new)) = Size(b) + Len(more)
               /\ Held(Grown(new)) = Held(b) \cup Range(more)
    <2>1. new.data = e.chain[i].data \o more
      BY <1>8
    <2> HIDE DEF n, blk
    <2> DEFINE g == Grown(new)
    <2>2. /\ IsBuffer(g, V) /\ g.lwd = e.lwd /\ g.total = e.total + n
          /\ Size(g) = Size(e) + Len(more) /\ Held(g) = Held(e) \cup Range(more)
      <3>1. Extends(e, i, new, more, V)
        BY <1>5, <2>1 DEF Extends
      <3> HIDE DEF blk
      <3>2. Gains(e, g, more, n, V)
        BY <1>2, <1>3, <3>1, GrowKeeps
      <3> QED BY <3>2 DEF Gains
    <2> HIDE DEF g
    <2>3. Size(g) = Size(b) + Len(more) /\ Held(g) = Held(b) \cup Range(more)
      BY <1>3, <2>2
    <2> QED BY <1>3, <2>2, <2>3 DEF g
  <1> HIDE DEF Grown
  <1>9. CASE room > n
    <2>1. blk.data \o data \in Seq(V) /\ Len(blk.data \o data) = Off(blk) + n
      BY <1>7, ConcatProperties
    <2>3. blk.misalign + Len(blk.data \o data) <= blk.size
      <3> HIDE DEF room, n, blk
      <3> QED BY <1>2, <1>7, <1>9, <2>1
    <2>4. appended \in Block(V) /\ appended.data = blk.data \o data
      <3> DEFINE more == blk.data \o data
      <3>1. appended = [blk EXCEPT !.data = more]
        OBVIOUS
      <3> HIDE DEF blk, appended, more
      <3>2. more \in Seq(V) /\ blk.misalign + Len(more) <= blk.size
        BY <2>1, <2>3 DEF more
      <3>3. appended \in Block(V) /\ appended.data = more
        BY <1>6, <3>1, <3>2, BlockWith
      <3> QED BY <3>3 DEF more
    <2>5. c = Grown(appended)
      BY <1>1, <1>9
    <2> HIDE DEF blk, appended
    <2> QED BY <1>8, <2>4, <2>5 DEF c
  <1>10. CASE ~(room > n) /\ blk.size - Off(blk) > n
    <2>1. blk.data \o data \in Seq(V) /\ Len(blk.data \o data) = Off(blk) + n
      BY <1>7, ConcatProperties
    <2>3. 0 + Len(blk.data \o data) <= blk.size /\ 0 < blk.size
      <3> HIDE DEF room, n, blk
      <3> QED BY <1>2, <1>7, <1>10, <2>1
    <2>4. realigned \in Block(V) /\ realigned.data = blk.data \o data
      <3> DEFINE more == blk.data \o data
             m == 0
      <3>1. realigned = [blk EXCEPT !.data = more, !.misalign = m]
        OBVIOUS
      <3>2. m \in Nat /\ m < blk.size /\ m + Len(more) <= blk.size /\ more \in Seq(V)
        <4> HIDE DEF blk
        <4> QED BY <2>1, <2>3
      <3> HIDE DEF blk, realigned, more, m
      <3>3. blk \in [size : Nat, misalign : Nat, data : Seq(V)]
        BY <1>6 DEF Block
      <3>4. /\ realigned \in [size : Nat, misalign : Nat, data : Seq(V)]
            /\ realigned.size = blk.size /\ realigned.misalign = m /\ realigned.data = more
        BY <3>1, <3>2, <3>3
      <3>5. realigned \in Block(V)
        BY <3>2, <3>4 DEF Block, Off
      <3> QED BY <3>4, <3>5 DEF more
    <2>5. c = Grown(realigned)
      BY <1>1, <1>10
    <2> HIDE DEF blk, realigned
    <2> QED BY <1>8, <2>4, <2>5 DEF c
  <1>11. CASE ~(room > n) /\ ~(blk.size - Off(blk) > n)
    <2>1. room \in 0..n
      <3> HIDE DEF room, n
      <3> QED BY <1>2, <1>7, <1>11
    <2>2. /\ part \in Seq(V) /\ Len(part) = room /\ left \in Seq(V) /\ Len(left) = n - room
          /\ Range(part) \cup Range(left) = Range(data)
      <3>1. room \in Nat /\ room <= n
        BY <1>2, <2>1
      <3> HIDE DEF room
      <3> QED BY <3>1, SplitInTwo
    <2>3. blk.data \o part \in Seq(V) /\ Len(blk.data \o part) = Off(blk) + room
      <3> HIDE DEF part, blk, room
      <3>1. part \in Seq(V) /\ blk.data \in Seq(V)
        BY <1>7, <2>2
      <3>2. blk.data \o part \in Seq(V) /\ Len(blk.data \o part) = Len(blk.data) + Len(part)
        BY <3>1, ConcatProperties
      <3> QED BY <1>7, <2>2, <3>2
    <2>5. blk.misalign + Len(blk.data \o part) <= blk.size
      <3> HIDE DEF room, part, blk
      <3> QED BY <1>7, <2>3
    <2>6. filled \in Block(V) /\ filled.data = blk.data \o part
      <3> DEFINE more == blk.data \o part
      <3>1. filled = [blk EXCEPT !.data = more]
        OBVIOUS
      <3> HIDE DEF blk, filled, more, part
      <3>2. more \in Seq(V) /\ blk.misalign + Len(more) <= blk.size
        BY <2>3, <2>5 DEF more
      <3>3. filled \in Block(V) /\ filled.data = more
        BY <1>6, <3>1, <3>2, BlockWith
      <3> QED BY <3>3 DEF more
    <2> DEFINE d == Grown(filled)
    <2>7. /\ IsBuffer(d, V) /\ d.lwd = b.lwd /\ d.total = b.total + n
          /\ Size(d) = Size(b) + room /\ Held(d) = Held(b) \cup Range(part)
      <3> HIDE DEF blk, filled, part, room
      <3> QED BY <1>8, <2>2, <2>6
    <2>8. rest \in Block(V) /\ rest.data = left /\ Off(rest) = n - room
      <3>1. n - room \in Nat
        BY <1>2, <2>1
      <3> HIDE DEF left, room, n
      <3> QED BY <2>2, <3>1, NewBlockFits
    <2>9. c = InsertChain(d, rest)
      BY <1>1, <1>11
    <2> HIDE DEF d, rest
    <2>10. /\ IsBuffer(c, V) /\ c.lwd = d.lwd /\ c.total = d.total
           /\ Size(c) = Size(d) + Off(rest) /\ Held(c) = Held(d) \cup Range(rest.data)
      <3> HIDE DEF c
      <3>1. IsBuffer(d, V) /\ rest \in Block(V)
        BY <2>7, <2>8
      <3> QED BY <2>9, <3>1, Inserted, Zenon
    <2>11. Size(c) = Size(b) + n
      <3> HIDE DEF room, n
      <3> QED BY <1>2, <2>1, <2>7, <2>8, <2>10
    <2>12. Held(c) = Held(b) \cup Range(data)
      <3> HIDE DEF part, left
      <3> QED BY <2>2, <2>7, <2>8, <2>10
    <2> QED BY <2>7, <2>10, <2>11, <2>12 DEF c
  <1> QED BY <1>9, <1>10, <1>11

-----------------------------------------------------------------------------
(* bufferDrain.                                                            *)

Behind(b, n) == {Contents(b)[i] : i \in (n + 1)..Size(b)}

\* d is what is left of b without the first n bytes of its total
Drained(b, n, d, V) ==
    /\ IsBuffer(d, V) /\ d.total = b.total - n
    /\ d.lwd <= b.lwd
    /\ Size(d) = Size(b) - n /\ Held(d) = Behind(b, n)
    /\ \A i \in 1..Size(d) : Contents(d)[i] = Contents(b)[n + i]
    /\ Tight(b) => Tight(d)

LEMMA DrainKeeps ==
  ASSUME NEW V, NEW b, NEW n \in Nat, IsBuffer(b, V), b.total <= Size(b), n < b.total
  PROVE  Drained(b, n, Drain(b, n), V)
  <1> DEFINE N == Len(b.chain)
             gone == Max({k \in 0..N : Used(b)[k] <= n})
             rest == n - Used(b)[gone]
             first == b.chain[gone + 1]
             new == [first EXCEPT !.misalign = @ + rest, !.data = SubSeq(@, rest + 1, Len(@))]
             others == SubSeq(b.chain, gone + 2, N)
             chain == <<new>> \o others
             lwd == IF b.lwd <= gone + 1 THEN 1 ELSE b.lwd - gone
             d == Drain(b, n)
  <1>1. /\ b.chain \in Seq(Block(V)) /\ N \in Nat /\ b.total \in Nat
        /\ \A k \in 1..N : b.chain[k] \in Block(V) /\ Off(b.chain[k]) \in Nat
        /\ b.lwd \in Nat /\ b.lwd >= 1 /\ b.lwd <= N + 1
    BY BufferFacts, BlockFacts
  <1>2. /\ Used(b)[0] = 0 /\ Size(b) \in Nat /\ Used(b)[N] = Size(b)
        /\ \A k \in 0..N : Used(b)[k] \in Nat
        /\ \A k \in 1..N : Used(b)[k] = Used(b)[k - 1] + Off(b.chain[k])
        /\ \A i \in 0..N : \A j \in i..N : Used(b)[i] <= Used(b)[j]
    BY UsedDef DEF Size
  <1>3. d = [chain |-> chain, lwd |-> lwd, total |-> b.total - n]
    <2>1. ~(n >= b.total)
      BY <1>1
    <2> QED BY <2>1 DEF Drain
  <1>4. /\ gone \in 0..N /\ Used(b)[gone] <= n
        /\ \A k \in 0..N : Used(b)[k] <= n => k <= gone
    <2> DEFINE U == {k \in 0..N : Used(b)[k] <= n}
    <2>1. U \subseteq 0..N /\ 0 \in U
      BY <1>1, <1>2
    <2> HIDE DEF U
    <2>2. Max(U) \in U /\ \A y \in U : Max(U) >= y
      BY <1>1, <2>1, GreatestExists
    <2> QED BY <1>1, <2>1, <2>2 DEF U
  <1> HIDE DEF gone, d
  <1>5. gone + 1 \in 1..N /\ gone \in Nat /\ gone < N
    <2>1. ~(Used(b)[N] <= n)
      BY <1>1, <1>2
    <2>2. gone # N
      BY <1>4, <2>1
    <2> QED BY <1>1, <1>4, <2>2
  <1>6. /\ Used(b)[gone] \in Nat /\ Used(b)[gone + 1] = Used(b)[gone] + Off(first)
        /\ Used(b)[gone + 1] > n /\ Used(b)[gone + 1] \in Nat /\ first \in Block(V)
    <2>1. gone + 1 \in 0..N /\ (gone + 1) - 1 = gone /\ ~(gone + 1 <= gone)
      BY <1>5
    <2>2. ~(Used(b)[gone + 1] <= n)
      BY <1>4, <2>1
    <2> QED BY <1>1, <1>2, <1>4, <1>5, <2>1, <2>2, SMTT(30)
  <1>7. /\ first.size \in Nat /\ first.misalign \in Nat /\ first.data \in Seq(V)
        /\ Off(first) \in Nat /\ Off(first) = Len(first.data)
        /\ first.misalign + Off(first) <= first.size
        /\ first \in [size : Nat, misalign : Nat, data : Seq(V)]
    BY <1>6, BlockFacts DEF Block
  <1>8. rest \in Nat /\ rest < Off(first) /\ Used(b)[gone] + rest = n
    <2> HIDE DEF first
    <2> QED BY <1>4, <1>6, <1>7, SMTT(30)
  <1> DEFINE left == SubSeq(first.data, rest + 1, Len(first.data))
  <1>9. /\ left \in Seq(V) /\ Len(left) = Off(first) - rest
        /\ \A j \in 1..(Off(first) - rest) : left[j] = first.data[rest + j]
    <2> HIDE DEF first, rest
    <2> QED BY <1>7, <1>8, SplitInTwo
  <1>10. new \in Block(V) /\ new.data = left /\ Off(new) = Off(first) - rest
    <2>1. new = [first EXCEPT !.misalign = first.misalign + rest, !.data = left]
      OBVIOUS
    <2> HIDE DEF first, rest, left, new
    <2>2. first.misalign + rest \in Nat
      BY <1>7, <1>8
    <2>3. /\ new \in [size : Nat, misalign : Nat, data : Seq(V)]
          /\ new.size = first.size /\ new.misalign = first.misalign + rest /\ new.data = left
      BY <1>7, <1>9, <2>1, <2>2
    <2> QED BY <1>7, <1>8, <1>9, <2>3 DEF Block, Off
  <1> HIDE DEF first, rest, left, new
  <1>11. /\ chain \in Seq(Block(V)) /\ Len(chain) = N - gone /\ chain[1] = new
         /\ \A k \in 2..(N - gone) : chain[k] = b.chain[gone + k]
    <2>1. /\ others \in Seq(Block(V)) /\ Len(others) = N - (gone + 1)
          /\ \A k \in 1..(N - (gone + 1)) : others[k] = b.chain[(gone + 1) + k]
      <3> DEFINE m == gone + 1
      <3>1. m \in Nat /\ m <= N /\ gone + 2 = m + 1
        BY <1>5
      <3>2. others = SubSeq(b.chain, m + 1, N)
        BY <3>1
      <3> HIDE DEF m, others
      <3>3. /\ others \in Seq(Block(V)) /\ Len(others) = N - m
            /\ \A k \in 1..(N - m) : others[k] = b.chain[m + k]
        BY <1>1, <3>1, <3>2, SplitInTwo
      <3> QED BY <3>3 DEF m
    <2> HIDE DEF others
    <2>2. <<new>> \in Seq(Block(V)) /\ Len(<<new>>) = 1 /\ <<new>>[1] = new
      BY <1>10
    <2>3. /\ chain \in Seq(Block(V)) /\ Len(chain) = 1 + (N - (gone + 1))
          /\ \A k \in 1..(1 + (N - (gone + 1))) :
                chain[k] = IF k <= 1 THEN <<new>>[k] ELSE others[k - 1]
      <3>1. /\ chain \in Seq(Block(V)) /\ Len(chain) = Len(<<new>>) + Len(others)
            /\ \A k \in 1..(Len(<<new>>) + Len(others)) :
                  chain[k] = IF k <= Len(<<new>>) THEN <<new>>[k] ELSE others[k - Len(<<new>>)]
        BY <2>1, <2>2, ConcatProperties
      <3> HIDE DEF chain
      <3> QED BY <2>1, <2>2, <3>1
    <2> HIDE DEF chain
    <2>4. Len(chain) = N - gone /\ 1 \in 1..(1 + (N - (gone + 1)))
      BY <1>1, <1>5, <2>3
    <2>5. ASSUME NEW k \in 2..(N - gone) PROVE chain[k] = b.chain[gone + k]
      <3>1. k \in 1..(1 + (N - (gone + 1))) /\ ~(k <= 1) /\ k - 1 \in 1..(N - (gone + 1))
        BY <1>1, <1>5
      <3>2. (gone + 1) + (k - 1) = gone + k
        BY <1>5
      <3> QED BY <2>1, <2>3, <3>1, <3>2
    <2> QED BY <2>2, <2>3, <2>4, <2>5
  <1> HIDE DEF chain
  <1>12. \A k \in 2..(N - gone) : gone + k \in 1..N /\ gone + k \in 0..N /\ (gone + k) - 1 = gone + (k - 1)
    BY <1>1, <1>5
  <1>13. IsBuffer(d, V)
    <2>1. lwd \in 1..(Len(chain) + 1)
      BY <1>1, <1>5, <1>11, SMTT(30)
    <2>2. b.total - n \in Nat
      BY <1>1
    <2>3. ASSUME NEW k \in 1..Len(chain)
          PROVE  /\ \A j \in 1..k : Off(chain[k]) > 0 => Off(chain[j]) > 0
                 /\ k < lwd => Off(chain[k]) > 0
      <3>1. Off(chain[1]) > 0
        BY <1>7, <1>8, <1>10, <1>11
      <3>2. ASSUME NEW j \in 1..k, Off(chain[k]) > 0 PROVE Off(chain[j]) > 0
        <4>1. CASE j = 1
          BY <3>1, <4>1
        <4>2. CASE j # 1
          <5>1. j \in 2..(N - gone) /\ k \in 2..(N - gone) /\ gone + j \in 1..(gone + k)
            BY <1>1, <1>5, <1>11, <4>2
          <5>2. Off(b.chain[gone + k]) > 0
            BY <1>11, <3>2, <5>1
          <5>3. Off(b.chain[gone + j]) > 0
            BY <1>12, <5>1, <5>2 DEF IsBuffer
          <5> QED BY <1>11, <5>1, <5>3
        <4> QED BY <4>1, <4>2
      <3>3. ASSUME k < lwd PROVE Off(chain[k]) > 0
        <4>1. CASE k = 1
          BY <3>1, <4>1
        <4>2. CASE k # 1
          <5>1. k \in 2..(N - gone) /\ gone + k < b.lwd
            BY <1>1, <1>5, <1>11, <3>3, <4>2
          <5>2. Off(b.chain[gone + k]) > 0
            BY <1>12, <5>1 DEF IsBuffer
          <5> QED BY <1>11, <5>1, <5>2
        <4> QED BY <4>1, <4>2
      <3> QED BY <3>2, <3>3
    <2> HIDE DEF lwd
    <2>4. IsBuffer([chain |-> chain, lwd |-> lwd, total |-> b.total - n], V)
      BY <1>11, <2>1, <2>2, <2>3, BufferMade
    <2> QED BY <1>3, <2>4
  <1>14. d.chain = chain /\ d.lwd = lwd /\ d.total = b.total - n
    BY <1>3
  <1>15. lwd <= b.lwd
    BY <1>1, <1>5
  <1>16. /\ Size(d) = Size(b) - n
         /\ \A k \in 1..(N - gone) : Used(d)[k] = Used(b)[gone + k] - n
    <2> DEFINE f == [k \in 0..(N - gone) |-> IF k = 0 THEN 0 ELSE Used(b)[gone + k] - n]
    <2>1. f[0] = 0
      BY <1>1, <1>5
    <2>2. ASSUME NEW k \in 1..(N - gone) PROVE f[k] = f[k - 1] + Off(chain[k])
      <3>1. CASE k = 1
        <4>1. f[k] = Used(b)[gone + 1] - n /\ f[k - 1] = 0
          BY <1>1, <1>5, <3>1
        <4>2. Off(chain[k]) = Off(first) - rest
          BY <1>10, <1>11, <3>1
        <4> DEFINE u == Used(b)[gone]
                   o == Off(first)
        <4>3. /\ f[k] = (u + o) - n /\ f[k - 1] = 0 /\ Off(chain[k]) = o - rest
              /\ u \in Nat /\ o \in Nat /\ rest \in Nat /\ u + rest = n
          <5> HIDE DEF f
          <5> QED BY <1>6, <1>7, <1>8, <4>1, <4>2
        <4> HIDE DEF f, u, o
        <4> QED BY <4>3
      <3>2. CASE k # 1
        <4>1. k \in 2..(N - gone) /\ k - 1 \in 1..(N - gone) /\ gone + (k - 1) \in 0..N
          BY <1>1, <1>5, <3>2
        <4>2. Used(b)[gone + k] = Used(b)[gone + (k - 1)] + Off(b.chain[gone + k])
          BY <1>2, <1>12, <4>1
        <4>3. Used(b)[gone + (k - 1)] \in Nat /\ Off(b.chain[gone + k]) \in Nat
          BY <1>1, <1>2, <1>12, <4>1
        <4>4. f[k] = Used(b)[gone + k] - n /\ f[k - 1] = Used(b)[gone + (k - 1)] - n
          BY <4>1
        <4>5. chain[k] = b.chain[gone + k]
          BY <1>11, <4>1
        <4> DEFINE u == Used(b)[gone + (k - 1)]
                   o == Off(b.chain[gone + k])
        <4>6. /\ f[k] = (u + o) - n /\ f[k - 1] = u - n /\ Off(chain[k]) = o
              /\ u \in Nat /\ o \in Nat
          <5> HIDE DEF f
          <5> QED BY <4>2, <4>3, <4>4, <4>5
        <4> HIDE DEF f, u, o
        <4> QED BY <4>6
      <3> QED BY <3>1, <3>2
    <2>3. f[N - gone] = Size(b) - n /\ N - gone \in 0..(N - gone)
      <3>1. gone + (N - gone) = N /\ N - gone \in 0..(N - gone) /\ N - gone # 0
        BY <1>1, <1>5
      <3> QED BY <1>2, <3>1
    <2>6. \A k \in 1..(N - gone) : f[k] = Used(b)[gone + k] - n
      BY <1>1, <1>5
    <2> HIDE DEF f
    <2>4. Len(d.chain) = N - gone /\ \A k \in 1..Len(d.chain) : f[k] = f[k - 1] + Off(d.chain[k])
      BY <1>11, <1>14, <2>2
    <2>5. \A k \in 0..Len(d.chain) : Used(d)[k] = f[k]
      BY <1>13, <2>1, <2>4, UsedUnique
    <2>7. \A k \in 1..(N - gone) : k \in 0..Len(d.chain)
      BY <1>1, <1>5, <2>4
    <2> QED BY <2>3, <2>4, <2>5, <2>6, <2>7 DEF Size
  <1>17. /\ \A k \in 1..N : \A j \in 1..Off(b.chain[k]) :
               Contents(b)[Used(b)[k - 1] + j] = b.chain[k].data[j]
         /\ Contents(d) \in Seq(V) /\ Len(Contents(d)) = Size(d)
         /\ \A k \in 1..(N - gone) : \A j \in 1..Off(chain[k]) :
               Contents(d)[Used(d)[k - 1] + j] = chain[k].data[j]
         /\ \A i \in 1..Size(d) : \E k \in 1..(N - gone), j \in Nat :
               j \in 1..Off(chain[k]) /\ i = Used(d)[k - 1] + j
    <2>1. d.chain = chain /\ Len(d.chain) = N - gone
      BY <1>11, <1>14
    <2>2. /\ \A k \in 1..N : \A j \in 1..Off(b.chain[k]) :
                Contents(b)[Used(b)[k - 1] + j] = b.chain[k].data[j]
          /\ \A i \in 1..Size(b) : \E k \in 1..N, j \in Nat :
                j \in 1..Off(b.chain[k]) /\ i = Used(b)[k - 1] + j
      BY ContentsPlaces
    <2>3. Contents(d) \in Seq(V) /\ Len(Contents(d)) = Size(d)
      BY <1>13, ContentsPlaces
    <2>4. /\ \A k \in 1..Len(d.chain) : \A j \in 1..Off(d.chain[k]) :
                Contents(d)[Used(d)[k - 1] + j] = d.chain[k].data[j]
          /\ \A i \in 1..Size(d) : \E k \in 1..Len(d.chain), j \in Nat :
                j \in 1..Off(d.chain[k]) /\ i = Used(d)[k - 1] + j
      BY <1>13, ContentsPlaces
    <2> HIDE DEF N
    <2> QED BY <2>1, <2>2, <2>3, <2>4
  <1>18. ASSUME NEW i \in 1..Size(d) PROVE Contents(d)[i] = Contents(b)[n + i]
    <2>1. PICK k \in 1..(N - gone), j \in Nat : j \in 1..Off(chain[k]) /\ i = Used(d)[k - 1] + j
      BY <1>17
    <2>2. Contents(d)[i] = chain[k].data[j]
      BY <1>17, <2>1
    <2>3. CASE k = 1
      <3>1. i = j
        <4>1. Used(d)[0] = 0
          BY <1>13, UsedDef
        <4> QED BY <2>1, <2>3, <4>1
      <3>2. j \in 1..(Off(first) - rest) /\ chain[k].data[j] = left[j]
        BY <1>10, <1>11, <2>1, <2>3
      <3>3. rest + j \in 1..Off(first) /\ Used(b)[gone] + (rest + j) = n + j
        <4> DEFINE u == Used(b)[gone]
                   o == Off(first)
        <4>1. /\ o \in Nat /\ u \in Nat /\ rest \in Nat /\ u + rest = n /\ j \in 1..(o - rest)
          BY <1>6, <1>7, <1>8, <3>2
        <4> HIDE DEF u, o
        <4>2. rest + j \in 1..o /\ u + (rest + j) = n + j
          BY <4>1
        <4> QED BY <4>2 DEF u, o
      <3>4. Contents(b)[Used(b)[gone] + (rest + j)] = first.data[rest + j]
        <4>1. (gone + 1) - 1 = gone /\ gone + 1 \in 1..N
          BY <1>5
        <4>2. Contents(b)[Used(b)[(gone + 1) - 1] + (rest + j)] = first.data[rest + j]
          BY <1>17, <3>3, <4>1, Zenon DEF first
        <4> QED BY <4>1, <4>2, Zenon
      <3>5. left[j] = first.data[rest + j]
        BY <1>9, <3>2, Zenon
      <3>6. Contents(d)[i] = Contents(b)[n + j]
        BY <2>2, <3>2, <3>3, <3>4, <3>5, Zenon
      <3> QED BY <3>1, <3>6, Zenon
    <2>4. CASE k # 1
      <3>1. /\ k \in 2..(N - gone) /\ gone + k \in 1..N /\ k - 1 \in 1..(N - gone)
            /\ (gone + k) - 1 = gone + (k - 1) /\ gone + (k - 1) \in 0..N
        BY <1>1, <1>5, <1>12, <2>4
      <3>2. chain[k] = b.chain[gone + k]
        BY <1>11, <3>1
      <3>3. Contents(b)[Used(b)[gone + (k - 1)] + j] = chain[k].data[j]
        <4> DEFINE m == gone + k
        <4>1. m \in 1..N /\ m - 1 = gone + (k - 1) /\ chain[k] = b.chain[m] /\ j \in 1..Off(b.chain[m])
          BY <2>1, <3>1, <3>2
        <4> HIDE DEF m, N
        <4>2. Contents(b)[Used(b)[m - 1] + j] = b.chain[m].data[j]
          BY <1>17, <4>1, Zenon
        <4> QED BY <4>1, <4>2
      <3> DEFINE u == Used(b)[gone + (k - 1)]
      <3>4. u \in Nat /\ i = (u - n) + j
        BY <1>2, <1>16, <2>1, <3>1
      <3> HIDE DEF u
      <3>5. u + j = n + i
        BY <2>1, <3>4
      <3> QED BY <2>2, <3>3, <3>5 DEF u
    <2> QED BY <2>3, <2>4
  <1>19. Held(d) = Behind(b, n)
    <2>1. Held(d) = {Contents(d)[i] : i \in 1..Size(d)}
      <3>1. DOMAIN Contents(d) = 1..Size(d)
        BY <1>17, LenProperties
      <3>2. Range(Contents(d)) = Held(d)
        BY <1>13, ContentsRange
      <3> QED BY <3>1, <3>2 DEF Range
    <2>2. Size(d) \in Nat
      BY <1>13, UsedDef
    <2>3. \A i \in 1..Size(d) : n + i \in (n + 1)..Size(b)
      BY <1>2, <1>16, <2>2
    <2>4. \A i \in (n + 1)..Size(b) : i - n \in 1..Size(d) /\ n + (i - n) = i
      BY <1>2, <1>16, <2>2
    <2>5. ASSUME NEW x \in Held(d) PROVE x \in Behind(b, n)
      BY <1>18, <2>1, <2>3 DEF Behind
    <2>6. ASSUME NEW x \in Behind(b, n) PROVE x \in Held(d)
      <3>1. PICK i \in (n + 1)..Size(b) : x = Contents(b)[i]
        BY DEF Behind
      <3>2. x = Contents(d)[i - n] /\ i - n \in 1..Size(d)
        BY <1>18, <2>4, <3>1
      <3> QED BY <2>1, <3>2
    <2> QED BY <2>5, <2>6
  <1>20. ASSUME Tight(b) PROVE Tight(d)
    <2>1. (\A k \in 1..N : Free(b.chain[k]) = 0) /\ (N > 0 => b.lwd = N)
      BY <1>20 DEF Tight
    <2>2. Free(new) = Free(first)
      <3>1. new.size = first.size /\ new.misalign = first.misalign + rest
        BY <1>7, <1>10 DEF new
      <3> DEFINE o == Off(first)
                 m == first.misalign
                 z == first.size
      <3>2. /\ Off(new) = o - rest /\ Free(first) = z - m - o
            /\ Free(new) = z - (m + rest) - (o - rest)
            /\ o \in Nat /\ m \in Nat /\ z \in Nat /\ rest \in Nat
        BY <1>7, <1>8, <1>10, <3>1 DEF Free
      <3> HIDE DEF o, m, z
      <3>3. z - (m + rest) - (o - rest) = z - m - o
        BY <3>2
      <3> QED BY <3>2, <3>3
    <2>3. ASSUME NEW k \in 1..(N - gone) PROVE Free(chain[k]) = 0
      <3>1. CASE k = 1
        BY <1>5, <1>11, <2>1, <2>2, <3>1 DEF first
      <3>2. CASE k # 1
        <4>1. k \in 2..(N - gone)
          BY <1>1, <1>5, <3>2
        <4> QED BY <1>11, <1>12, <2>1, <4>1
      <3> QED BY <3>1, <3>2
    <2>4. lwd = N - gone
      BY <1>1, <1>5, <2>1
    <2>5. d.total # 0
      BY <1>1, <1>14
    <2> QED BY <1>11, <1>14, <2>3, <2>4, <2>5 DEF Tight
  <1> QED BY <1>13, <1>14, <1>15, <1>16, <1>18, <1>19, <1>20 DEF Drained, d

-----------------------------------------------------------------------------
(* bufferRead from the socket.                                             *)

LEMMA ExpandKeeps ==
  ASSUME NEW V, NEW b, IsBuffer(b, V), NEW n \in Nat, n > 0
  PROVE  /\ IsBuffer(Expand(b, n), V) /\ Expand(b, n).lwd = b.lwd /\ Expand(b, n).total = b.total
         /\ Size(Expand(b, n)) = Size(b) /\ b.lwd <= Len(Expand(b, n).chain)
  <1> DEFINE N == Len(b.chain)
             avail == Room(b)[N] - Room(b)[b.lwd - 1]
             e == Expand(b, n)
  <1>1. /\ b.chain \in Seq(Block(V)) /\ N \in Nat /\ b.total \in Nat
        /\ b.lwd \in Nat /\ b.lwd >= 1 /\ b.lwd <= N + 1 /\ Size(b) \in Nat
    BY BufferFacts, UsedDef
  <1>2. <<>> \in Seq(V) /\ Len(<<>>) = 0
    OBVIOUS
  <1>3. CASE b.chain = <<>>
    <2> DEFINE new == NewBlock(n, <<>>)
    <2>1. new \in Block(V) /\ new.data = <<>> /\ Off(new) = 0
      <3>1. Len(<<>>) <= n
        BY <1>2
      <3> QED BY <1>2, <3>1, NewBlockFits
    <2>2. e = InsertChain(b, new)
      BY <1>3 DEF Expand
    <2> HIDE DEF e, new
    <2>3. /\ IsBuffer(e, V) /\ e.lwd = b.lwd /\ e.total = b.total /\ Len(e.chain) > 0
          /\ Size(e) = Size(b) + Off(new)
      BY <2>1, <2>2, Inserted
    <2>4. b.lwd = 1
      BY <1>1, <1>3
    <2>5. Len(e.chain) \in Nat
      BY <2>3, BufferFacts
    <2> QED BY <1>1, <2>1, <2>3, <2>4, <2>5 DEF e
  <1>4. CASE b.chain # <<>> /\ avail >= n
    <2>1. e = b
      BY <1>4 DEF Expand
    <2>2. b.lwd <= N
      <3> SUFFICES ASSUME ~(b.lwd <= N) PROVE FALSE
        OBVIOUS
      <3>1. b.lwd - 1 = N
        BY <1>1
      <3>2. Room(b)[N] \in Nat
        BY <1>1, RoomDef
      <3> QED BY <1>4, <3>1, <3>2
    <2> HIDE DEF e
    <2> QED BY <2>1, <2>2 DEF e
  <1>5. CASE b.chain # <<>> /\ ~(avail >= n)
    <2> DEFINE new == NewBlock(n - avail, <<>>)
               chain == Append(b.chain, new)
    <2>1. avail \in Nat
      <3>1. b.lwd - 1 \in 0..N /\ N \in (b.lwd - 1)..N /\ N \in 0..N
        BY <1>1
      <3>2. Room(b)[N] \in Nat /\ Room(b)[b.lwd - 1] \in Nat /\ Room(b)[b.lwd - 1] <= Room(b)[N]
        BY <3>1, RoomDef
      <3> QED BY <3>2
    <2>2. new \in Block(V) /\ Off(new) = 0
      <3> DEFINE m == n - avail
      <3>1. m \in Nat /\ Len(<<>>) <= m
        BY <1>2, <1>5, <2>1
      <3> HIDE DEF m
      <3>2. NewBlock(m, <<>>) \in Block(V) /\ Off(NewBlock(m, <<>>)) = 0
        BY <1>2, <3>1, NewBlockFits
      <3> QED BY <3>2 DEF m
    <2>3. e = [b EXCEPT !.chain = chain]
      BY <1>5 DEF Expand
    <2> HIDE DEF new, e
    <2>4. /\ chain \in Seq(Block(V)) /\ Len(chain) = N + 1 /\ chain[N + 1] = new
          /\ \A k \in 1..N : chain[k] = b.chain[k]
      BY <1>1, <2>2, AppendProperties
    <2> HIDE DEF chain
    <2>5. /\ e \in [chain : Seq(Block(V)), lwd : Nat, total : Nat]
          /\ e.chain = chain /\ e.lwd = b.lwd /\ e.total = b.total
      <3>1. b \in [chain : Seq(Block(V)), lwd : Nat, total : Nat]
        BY DEF IsBuffer
      <3> QED BY <2>3, <2>4, <3>1
    <2>6. ASSUME NEW k \in 1..Len(chain)
          PROVE  /\ \A j \in 1..k : Off(chain[k]) > 0 => Off(chain[j]) > 0
                 /\ k < b.lwd => Off(chain[k]) > 0
      <3>1. CASE k = N + 1
        <4>1. ~(Off(chain[k]) > 0) /\ ~(k < b.lwd)
          BY <1>1, <2>2, <2>4, <3>1
        <4> QED BY <4>1
      <3>2. CASE k # N + 1
        <4>1. k \in 1..N /\ \A j \in 1..k : j \in 1..N
          BY <1>1, <2>4, <3>2
        <4> QED BY <2>4, <4>1 DEF IsBuffer
      <3> QED BY <3>1, <3>2
    <2>7. IsBuffer(e, V)
      <3>1. e.lwd \in 1..(Len(e.chain) + 1)
        BY <1>1, <2>4, <2>5
      <3> QED BY <2>5, <2>6, <3>1 DEF IsBuffer
    <2>8. Size(e) = Size(b)
      <3> DEFINE f == [k \in 0..(N + 1) |-> IF k <= N THEN Used(b)[k] ELSE Size(b)]
      <3>1. f[0] = 0
        BY <1>1, UsedDef
      <3>2. ASSUME NEW k \in 1..(N + 1) PROVE f[k] = f[k - 1] + Off(chain[k])
        <4>1. CASE k = N + 1
          <5>1. f[k] = Size(b) /\ f[k - 1] = Size(b)
            BY <1>1, <4>1 DEF Size
          <5> QED BY <1>1, <2>2, <2>4, <4>1, <5>1
        <4>2. CASE k # N + 1
          <5>1. k \in 1..N /\ k <= N /\ k - 1 <= N /\ k - 1 \in 0..(N + 1)
            BY <1>1, <4>2
          <5>2. Used(b)[k] = Used(b)[k - 1] + Off(b.chain[k])
            BY <5>1, UsedDef
          <5> QED BY <2>4, <5>1, <5>2
        <4> QED BY <4>1, <4>2
      <3>3. f[N + 1] = Size(b) /\ N + 1 \in 0..(N + 1)
        BY <1>1
      <3> HIDE DEF f
      <3>4. Len(e.chain) = N + 1 /\ \A k \in 1..Len(e.chain) : f[k] = f[k - 1] + Off(e.chain[k])
        BY <2>4, <2>5, <3>2
      <3>5. \A k \in 0..Len(e.chain) : Used(e)[k] = f[k]
        BY <2>7, <3>1, <3>4, UsedUnique
      <3> QED BY <3>3, <3>4, <3>5 DEF Size
    <2>9. b.lwd <= Len(e.chain)
      BY <1>1, <2>4, <2>5
    <2> QED BY <2>5, <2>7, <2>8, <2>9 DEF e
  <1> QED BY <1>3, <1>4, <1>5

\* What is read is in front, and all the free space counts as data.
LEMMA FillFits ==
  ASSUME NEW V, Junk \in V, NEW blk \in Block(V), NEW bytes \in Seq(V),
         Len(bytes) <= Off(blk) + Free(blk)
  PROVE  /\ Fill(blk, bytes) \in Block(V) /\ Off(Fill(blk, bytes)) = Off(blk) + Free(blk)
         /\ \A i \in 1..Len(bytes) : Fill(blk, bytes).data[i] = bytes[i]
  <1> DEFINE behind == SubSeq(blk.data, Len(bytes) + 1, Off(blk))
             u == Off(blk) + Free(blk) - Len(bytes) - Len(behind)
             unset == [i \in 1..u |-> Junk]
             data == bytes \o behind \o unset
             new == Fill(blk, bytes)
  <1>1. new = [blk EXCEPT !.data = data]
    BY DEF Fill
  <1>2. /\ blk \in Block(V) /\ blk.size \in Nat /\ blk.misalign \in Nat /\ blk.data \in Seq(V)
        /\ Off(blk) \in Nat /\ Off(blk) = Len(blk.data) /\ Free(blk) \in Nat
        /\ Off(blk) + Free(blk) = blk.size - blk.misalign
    BY BlockFacts
  <1>3. Len(bytes) \in Nat
    OBVIOUS
  <1>4. /\ behind \in Seq(V)
        /\ Len(behind) = IF Len(bytes) + 1 <= Off(blk) THEN Off(blk) - (Len(bytes) + 1) + 1 ELSE 0
    <2>1. \A i \in (Len(bytes) + 1)..Off(blk) : blk.data[i] \in V
      BY <1>2, <1>3
    <2>2. Len(bytes) + 1 \in Int /\ Off(blk) \in Int
      BY <1>2, <1>3
    <2> QED BY <2>1, <2>2, SubSeqProperties
  <1> HIDE DEF behind, new
  <1>5. u \in Nat /\ Len(bytes) + Len(behind) + u = Off(blk) + Free(blk)
    <2> DEFINE o == Off(blk)
               w == Free(blk)
               p == Len(bytes)
               q == Len(behind)
    <2>1. /\ o \in Nat /\ w \in Nat /\ p \in Nat /\ p <= o + w
          /\ q = IF p + 1 <= o THEN o - (p + 1) + 1 ELSE 0
      BY <1>2, <1>3, <1>4
    <2> HIDE DEF o, w, p, q
    <2>2. o + w - p - q \in Nat /\ p + q + (o + w - p - q) = o + w
      BY <2>1
    <2> QED BY <2>2 DEF o, w, p, q
  <1> HIDE DEF u
  <1>6. unset \in Seq(V) /\ Len(unset) = u
    BY <1>5
  <1> HIDE DEF unset
  <1>7. bytes \o behind \in Seq(V) /\ Len(bytes \o behind) = Len(bytes) + Len(behind)
    BY <1>4, ConcatProperties
  <1>11. \A i \in 1..Len(bytes) : data[i] = bytes[i]
    <2> SUFFICES ASSUME NEW i \in 1..Len(bytes) PROVE data[i] = bytes[i]
      OBVIOUS
    <2> DEFINE front == bytes \o behind
    <2>1. Len(behind) \in Nat /\ Len(unset) \in Nat
      BY <1>4, <1>5, <1>6, LenProperties
    <2>2. i \in 1..(Len(bytes) + Len(behind)) /\ i <= Len(bytes) /\ front[i] = bytes[i]
      <3>1. i \in 1..(Len(bytes) + Len(behind)) /\ i <= Len(bytes)
        BY <1>3, <2>1
      <3> QED BY <1>4, <3>1, ConcatProperties
    <2>3. front \in Seq(V) /\ Len(front) = Len(bytes) + Len(behind) /\ Len(front) \in Nat
      BY <1>3, <1>7, <2>1
    <2> HIDE DEF front
    <2>4. i \in 1..(Len(front) + Len(unset)) /\ i <= Len(front)
      BY <1>3, <2>1, <2>2, <2>3
    <2>5. data = front \o unset
      BY DEF front
    <2> QED BY <1>6, <2>2, <2>3, <2>4, <2>5, ConcatProperties
  <1>8. data \in Seq(V) /\ Len(data) = Len(bytes \o behind) + Len(unset)
    BY <1>6, <1>7, ConcatProperties
  <1> HIDE DEF data
  <1>9. Len(data) = Off(blk) + Free(blk) /\ blk.misalign + Len(data) <= blk.size
    BY <1>2, <1>5, <1>6, <1>7, <1>8, SMTT(30)
  <1>10. new \in Block(V) /\ new.data = data
    <2>1. data \in Seq(V) /\ blk.misalign + Len(data) <= blk.size
      BY <1>8, <1>9
    <2> QED BY <1>1, <1>2, <2>1, BlockWith, SMTT(30)
  <1> QED BY <1>9, <1>10, <1>11 DEF Off, new

\* What readv has taken is counted, and is no more than what the blocks hold.
LEMMA ReadKeeps ==
  ASSUME NEW V, Junk \in V, NEW b, IsBuffer(b, V), b.total <= Size(b),
         NEW bytes \in Seq(V), Len(bytes) > 0
  PROVE  LET r == ReadFd(b, bytes) IN
         /\ IsBuffer(r, V) /\ r.total <= Size(r)
         /\ r.total - b.total \in 0..Len(bytes)
  <1> DEFINE e == Expand(b, Len(bytes))
             N == Len(e.chain)
             R == Room(e)
             Space(k) == R[k] - R[e.lwd - 1]
             vecs == e.lwd..Minimum(N, e.lwd + NUM_READ_IOVEC - 1)
             n == Minimum(Len(bytes), Space(Max(vecs)))
             last == Min({k \in vecs : Space(k) >= n})
             Part(k) == SubSeq(bytes, Space(k - 1) + 1, Minimum(n, Space(k)))
             chain == [k \in Blocks(e) |->
                         IF k \in e.lwd..last THEN Fill(e.chain[k], Part(k)) ELSE e.chain[k]]
             r == ReadFd(b, bytes)
  <1>1. r = [e EXCEPT !.chain = chain, !.total = e.total + n, !.lwd = last]
    BY DEF ReadFd
  <1> HIDE DEF r
  <1>2. Len(bytes) \in Nat
    OBVIOUS
  <1>3. /\ IsBuffer(e, V) /\ e.lwd = b.lwd /\ e.total = b.total /\ Size(e) = Size(b)
        /\ e.lwd <= N
    BY <1>2, ExpandKeeps
  <1> HIDE DEF e
  <1>4. /\ e.chain \in Seq(Block(V)) /\ N \in Nat /\ Blocks(e) = 1..N
        /\ e.lwd \in Nat /\ e.lwd >= 1 /\ e.total \in Nat /\ Size(e) \in Nat
        /\ \A k \in 1..N : /\ e.chain[k] \in Block(V)
                           /\ Off(e.chain[k]) \in Nat /\ Free(e.chain[k]) \in Nat
                           /\ Off(e.chain[k]) + Free(e.chain[k]) > 0
    BY <1>3, BufferFacts, BlockFacts, UsedDef
  <1>5. /\ \A k \in 0..N : R[k] \in Nat
        /\ \A k \in 1..N : R[k] = R[k - 1] + Free(e.chain[k])
        /\ \A i \in 0..N : \A j \in i..N : R[i] <= R[j]
    BY <1>3, RoomDef
  <1> HIDE DEF R
  <1>6. e.lwd - 1 \in 0..N
    BY <1>3, <1>4
  <1>7. \A k \in (e.lwd - 1)..N : Space(k) \in Nat
    <2> SUFFICES ASSUME NEW k \in (e.lwd - 1)..N PROVE Space(k) \in Nat
      OBVIOUS
    <2>1. k \in 0..N
      BY <1>4, <1>6
    <2>2. R[e.lwd - 1] <= R[k] /\ R[e.lwd - 1] \in Nat /\ R[k] \in Nat
      BY <1>5, <1>6, <2>1
    <2> QED BY <2>2
  <1>8. vecs \subseteq e.lwd..N /\ e.lwd \in vecs
    <2>1. NUM_READ_IOVEC \in Nat /\ NUM_READ_IOVEC >= 1
      BY IovecAssumption
    <2> QED BY <1>3, <1>4, <2>1 DEF Minimum
  <1> HIDE DEF vecs
  <1>9. Max(vecs) \in vecs
    <2>1. vecs \subseteq 0..N /\ vecs # {}
      BY <1>4, <1>8
    <2> QED BY <1>4, <2>1, GreatestExists
  <1>20. Max(vecs) \in (e.lwd - 1)..N
    <2> DEFINE x == Max(vecs)
               i == e.lwd
    <2>1. x \in i..N /\ i \in Nat
      BY <1>4, <1>8, <1>9
    <2> HIDE DEF x, i
    <2>2. x \in (i - 1)..N
      BY <1>4, <2>1
    <2> QED BY <2>2 DEF x, i
  <1>10. n \in 0..Len(bytes) /\ n <= Space(Max(vecs))
    <2> DEFINE w == Space(Max(vecs))
    <2>1. w \in Nat
      <3> HIDE DEF Space
      <3> QED BY <1>7, <1>20
    <2> HIDE DEF w
    <2>2. Minimum(Len(bytes), w) \in 0..Len(bytes) /\ Minimum(Len(bytes), w) <= w
      BY <1>2, <2>1 DEF Minimum
    <2> QED BY <2>2 DEF w
  <1> HIDE DEF n
  <1>11. last \in vecs /\ Space(last) >= n
    <2> DEFINE U == {k \in vecs : Space(k) >= n}
    <2>1. U \subseteq Nat
      <3>1. \A k \in e.lwd..N : k \in Nat
        BY <1>4
      <3>2. U \subseteq vecs
        OBVIOUS
      <3> HIDE DEF U
      <3> QED BY <1>8, <3>1, <3>2
    <2>2. Max(vecs) \in U
      <3> DEFINE w == Space(Max(vecs))
      <3>1. w \in Nat
        <4> HIDE DEF Space
        <4> QED BY <1>7, <1>20
      <3>2. n \in Nat /\ n <= w
        BY <1>2, <1>10
      <3> HIDE DEF w
      <3>3. w >= n
        BY <3>1, <3>2
      <3> QED BY <1>9, <3>3 DEF w
    <2> HIDE DEF U
    <2>3. Min(U) \in U
      BY <2>1, <2>2, LeastExists
    <2> QED BY <2>3 DEF U
  <1> HIDE DEF last
  <1>12. last \in e.lwd..N /\ last \in Nat
    BY <1>4, <1>8, <1>11
  <1>13. ASSUME NEW k \in e.lwd..last
         PROVE  /\ Fill(e.chain[k], Part(k)) \in Block(V)
                /\ Off(Fill(e.chain[k], Part(k))) = Off(e.chain[k]) + Free(e.chain[k])
    <2>1. /\ k \in 1..N /\ k \in 0..N /\ k - 1 \in 0..N /\ k \in (e.lwd - 1)..N
          /\ k - 1 \in (e.lwd - 1)..N
      BY <1>4, <1>12
    <2> DEFINE u == Space(k - 1)
               w == Space(k)
               room == Free(e.chain[k])
               m == Minimum(n, w)
    <2>2. u \in Nat /\ w \in Nat /\ room \in Nat
      BY <1>4, <1>7, <2>1
    <2>3. w = u + room
      <3>1. R[k] = R[k - 1] + room /\ R[k] \in Nat /\ R[k - 1] \in Nat /\ R[e.lwd - 1] \in Nat
        BY <1>5, <1>6, <2>1
      <3> HIDE DEF room
      <3> QED BY <2>2, <3>1
    <2>4. m \in Nat /\ m <= Len(bytes) /\ m <= w
      <3> HIDE DEF w
      <3> QED BY <1>2, <1>10, <2>2 DEF Minimum
    <2>5. Part(k) \in Seq(V) /\ Len(Part(k)) <= room
      <3>1. Part(k) = SubSeq(bytes, u + 1, m)
        OBVIOUS
      <3> HIDE DEF u, w, room, m, Part, Space
      <3>2. \A i \in (u + 1)..m : bytes[i] \in V
        BY <1>2, <2>2, <2>4
      <3>3. u + 1 \in Int /\ m \in Int
        BY <2>2, <2>4
      <3>4. /\ SubSeq(bytes, u + 1, m) \in Seq(V)
            /\ Len(SubSeq(bytes, u + 1, m)) = IF u + 1 <= m THEN m - (u + 1) + 1 ELSE 0
        BY <3>2, <3>3, SubSeqProperties
      <3> QED BY <2>2, <2>3, <2>4, <3>1, <3>4
    <2> HIDE DEF Part
    <2>6. e.chain[k] \in Block(V) /\ Off(e.chain[k]) \in Nat /\ room \in Nat
      BY <1>4, <2>1
    <2>7. Len(Part(k)) <= Off(e.chain[k]) + Free(e.chain[k])
      <3>1. Len(Part(k)) \in Nat
        BY <2>5
      <3> QED BY <2>5, <2>6, <3>1
    <2> QED BY <2>5, <2>6, <2>7, FillFits
  <1> HIDE DEF Part
  <1>14. /\ chain \in Seq(Block(V)) /\ Len(chain) = N
         /\ \A k \in 1..N : Off(chain[k]) = IF k \in e.lwd..last
                                            THEN Off(e.chain[k]) + Free(e.chain[k])
                                            ELSE Off(e.chain[k])
    <2>1. chain = [k \in 1..N |-> IF k \in e.lwd..last THEN Fill(e.chain[k], Part(k)) ELSE e.chain[k]]
      BY <1>4
    <2> HIDE DEF chain
    <2>2. \A k \in 1..N : chain[k] \in Block(V)
      BY <1>4, <1>13, <2>1
    <2>3. chain \in [1..N -> Block(V)]
      BY <2>1, <2>2
    <2>4. \A k \in 1..N : Off(chain[k]) = IF k \in e.lwd..last
                                          THEN Off(e.chain[k]) + Free(e.chain[k])
                                          ELSE Off(e.chain[k])
      BY <1>13, <2>1
    <2>6. chain \in Seq(Block(V)) /\ Len(chain) = N
      BY <1>4, <2>3, SequenceMade
    <2> QED BY <2>4, <2>6
  <1> HIDE DEF chain
  <1>15. /\ r \in [chain : Seq(Block(V)), lwd : Nat, total : Nat]
         /\ r.chain = chain /\ r.lwd = last /\ r.total = e.total + n
    <2>1. e \in [chain : Seq(Block(V)), lwd : Nat, total : Nat]
      BY <1>3 DEF IsBuffer
    <2>2. e.total + n \in Nat
      BY <1>2, <1>4, <1>10
    <2> QED BY <1>1, <1>12, <1>14, <2>1, <2>2
  <1>16. IsBuffer(r, V)
    <2>1. \A k \in 1..N : k <= last => Off(chain[k]) > 0
      <3> SUFFICES ASSUME NEW k \in 1..N, k <= last PROVE Off(chain[k]) > 0
        OBVIOUS
      <3>1. CASE k < e.lwd
        <4>1. Off(e.chain[k]) > 0
          BY <1>3, <3>1 DEF IsBuffer
        <4> QED BY <1>4, <1>12, <1>14, <3>1, <4>1
      <3>2. CASE ~(k < e.lwd)
        <4>1. k \in e.lwd..last
          BY <1>4, <1>12, <3>2
        <4> QED BY <1>4, <1>14, <4>1
      <3> QED BY <3>1, <3>2
    <2>2. ASSUME NEW k \in 1..N, NEW j \in 1..k, Off(chain[k]) > 0 PROVE Off(chain[j]) > 0
      <3>1. j \in 1..N
        BY <1>4
      <3>2. CASE j <= last
        BY <2>1, <3>1, <3>2
      <3>3. CASE ~(j <= last)
        <4>1. k \notin e.lwd..last /\ j \notin e.lwd..last
          BY <1>4, <1>12, <3>1, <3>3
        <4>2. Off(e.chain[k]) > 0
          BY <1>14, <2>2, <4>1
        <4>3. Off(e.chain[j]) > 0
          BY <1>3, <4>2 DEF IsBuffer
        <4> QED BY <1>14, <3>1, <4>1, <4>3
      <3> QED BY <3>2, <3>3
    <2>3. last \in 1..(N + 1)
      BY <1>4, <1>12
    <2>4. \A k \in 1..N : k < last => Off(chain[k]) > 0
      BY <1>12, <2>1
    <2> QED BY <1>14, <1>15, <2>2, <2>3, <2>4 DEF IsBuffer
  <1>17. Size(r) = Size(e) + Space(last)
    <2> DEFINE Gain(k) == IF k < e.lwd THEN 0 ELSE IF k <= last THEN Space(k) ELSE Space(last)
               f == [k \in 0..N |-> Used(e)[k] + Gain(k)]
    <2>1. f[0] = 0
      <3>1. 0 < e.lwd /\ 0 \in 0..N /\ Used(e)[0] = 0
        BY <1>3, <1>4, UsedDef
      <3> QED BY <3>1
    <2>2. ASSUME NEW k \in 1..N PROVE f[k] = f[k - 1] + Off(chain[k])
      <3>1. k \in 0..N /\ k - 1 \in 0..N
        BY <1>4
      <3>2. /\ Used(e)[k] = Used(e)[k - 1] + Off(e.chain[k]) /\ Used(e)[k - 1] \in Nat
            /\ Off(e.chain[k]) \in Nat
        BY <1>3, <1>4, <3>1, UsedDef
      <3>3. CASE k < e.lwd
        <4>1. Gain(k) = 0 /\ Gain(k - 1) = 0 /\ k \notin e.lwd..last
          BY <1>4, <1>12, <3>3
        <4> HIDE DEF Gain
        <4> QED BY <1>14, <3>1, <3>2, <4>1
      <3>4. CASE ~(k < e.lwd) /\ k <= last
        <4> DEFINE room == Free(e.chain[k])
        <4>1. Gain(k) = Gain(k - 1) + room /\ Gain(k) \in Nat /\ Gain(k - 1) \in Nat /\ room \in Nat
          <5>1. /\ R[k] = R[k - 1] + room /\ R[k] \in Nat /\ R[k - 1] \in Nat
                /\ R[e.lwd - 1] \in Nat /\ room \in Nat
            BY <1>4, <1>5, <1>6, <3>1
          <5>2. Gain(k) = Space(k)
            BY <3>4
          <5>3. Space(k) \in Nat
            <6>1. k \in (e.lwd - 1)..N
              BY <1>4, <3>4
            <6> QED BY <1>7, <6>1
          <5>4. CASE k = e.lwd
            <6>1. Gain(k - 1) = 0 /\ k - 1 = e.lwd - 1
              BY <1>4, <5>4
            <6>2. Space(k) = room
              <7> HIDE DEF room
              <7> QED BY <5>1, <6>1
            <6> QED BY <5>1, <5>2, <5>3, <6>1, <6>2
          <5>5. CASE k # e.lwd
            <6>1. ~(k - 1 < e.lwd) /\ k - 1 <= last /\ k - 1 \in (e.lwd - 1)..N
              <7>1. e.lwd \in Nat /\ N \in Nat /\ last \in Nat
                BY <1>4, <1>12
              <7>2. k \in Nat /\ k <= N
                BY <1>4
              <7> HIDE DEF N, room
              <7> QED BY <3>4, <5>5, <7>1, <7>2
            <6>2. Gain(k - 1) = Space(k - 1) /\ Space(k - 1) \in Nat
              BY <1>7, <6>1
            <6>3. Space(k) = Space(k - 1) + room
              <7> HIDE DEF room
              <7> QED BY <5>1
            <6> HIDE DEF Space, Gain, room
            <6> QED BY <5>1, <5>2, <5>3, <6>2, <6>3
          <5> QED BY <5>4, <5>5
        <4>2. Off(chain[k]) = Off(e.chain[k]) + room
          BY <1>4, <1>12, <1>14, <3>4
        <4> HIDE DEF Gain, room
        <4>3. f[k] = Used(e)[k] + Gain(k) /\ f[k - 1] = Used(e)[k - 1] + Gain(k - 1)
          BY <3>1
        <4> HIDE DEF f
        <4> QED BY <3>2, <4>1, <4>2, <4>3
      <3>5. CASE ~(k < e.lwd) /\ ~(k <= last)
        <4>1. Gain(k) = Gain(k - 1) /\ k \notin e.lwd..last
          <5>1. Gain(k) = Space(last)
            BY <3>5
          <5>2. ~(k - 1 < e.lwd)
            BY <1>4, <1>12, <3>5
          <5>3. k - 1 <= last => k - 1 = last
            BY <1>4, <1>12, <3>5
          <5>4. Gain(k - 1) = Space(last)
            <6> HIDE DEF Space
            <6> QED BY <5>2, <5>3
          <5>5. k \notin e.lwd..last
            BY <1>4, <1>12, <3>5
          <5> QED BY <5>1, <5>4, <5>5
        <4>2. Gain(k) \in Nat
          <5>1. last \in (e.lwd - 1)..N
            BY <1>4, <1>12
          <5>2. Space(last) \in Nat
            BY <1>7, <5>1
          <5> QED BY <3>5, <5>2
        <4>3. Off(chain[k]) = Off(e.chain[k])
          BY <1>14, <4>1
        <4> HIDE DEF Gain
        <4>4. f[k] = Used(e)[k] + Gain(k) /\ f[k - 1] = Used(e)[k - 1] + Gain(k - 1)
          BY <3>1
        <4> HIDE DEF f
        <4> QED BY <3>2, <4>1, <4>2, <4>3, <4>4
      <3> QED BY <3>3, <3>4, <3>5
    <2>3. f[N] = Size(e) + Space(last) /\ N \in 0..N
      <3>1. ~(N < e.lwd) /\ N \in 0..N /\ (N <= last => N = last)
        BY <1>3, <1>4, <1>12
      <3>2. Gain(N) = Space(last)
        <4> HIDE DEF Space
        <4> QED BY <3>1
      <3> HIDE DEF Gain, Space
      <3> QED BY <3>1, <3>2 DEF Size
    <2> HIDE DEF f
    <2>4. \A k \in 1..Len(r.chain) : f[k] = f[k - 1] + Off(r.chain[k])
      BY <1>14, <1>15, <2>2
    <2>5. \A k \in 0..Len(r.chain) : Used(r)[k] = f[k]
      BY <1>16, <2>1, <2>4, UsedUnique
    <2>6. Len(r.chain) = N
      BY <1>14, <1>15
    <2> QED BY <2>3, <2>5, <2>6 DEF Size
  <1>18. r.total <= Size(r)
    <2>1. Space(last) \in Nat
      <3>1. last \in (e.lwd - 1)..N
        BY <1>4, <1>12
      <3> QED BY <1>7, <3>1
    <2>2. n \in Nat
      BY <1>2, <1>10
    <2> HIDE DEF Space
    <2> QED BY <1>3, <1>4, <1>11, <1>15, <1>17, <2>1, <2>2
  <1>19. r.total - b.total \in 0..Len(bytes)
    <2>1. n \in Nat
      BY <1>2, <1>10
    <2>2. r.total - b.total = n
      BY <1>3, <1>4, <1>15, <2>1
    <2> QED BY <1>10, <2>2
  <1> QED BY <1>16, <1>18, <1>19 DEF r

-----------------------------------------------------------------------------
(* What is sent.                                                           *)

LEMMA IntervalCount ==
  ASSUME NEW n \in Nat
  PROVE  IsFiniteSet(1..n) /\ Cardinality(1..n) = n
  BY FS_Interval

\* A sequence with as many members as places has each of them once.
LEMMA OnceEach ==
  ASSUME NEW V, NEW s \in Seq(V), NEW S, S = Range(s),
         IsFiniteSet(S), Cardinality(S) = Len(s)
  PROVE  \A i, j \in 1..Len(s) : s[i] = s[j] => i = j
  <1>1. Len(s) \in Nat /\ DOMAIN s = 1..Len(s) /\ s \in [1..Len(s) -> V]
    BY LenProperties
  <1>2. IsFiniteSet(1..Len(s)) /\ Cardinality(1..Len(s)) = Len(s)
    <2> DEFINE n == Len(s)
    <2>1. n \in Nat
      BY <1>1
    <2> HIDE DEF n
    <2>2. IsFiniteSet(1..n) /\ Cardinality(1..n) = n
      BY <2>1, IntervalCount
    <2> QED BY <2>2 DEF n
  <1>3. s \in Surjection(1..Len(s), S)
    <2>1. s \in [1..Len(s) -> S]
      BY <1>1 DEF Range
    <2>2. \A t \in S : \E i \in 1..Len(s) : s[i] = t
      BY <1>1 DEF Range
    <2> QED BY <2>1, <2>2 DEF Surjection
  <1>4. s \in Injection(1..Len(s), S)
    BY <1>2, <1>3, FS_Surjection
  <1> QED BY <1>1, <1>4 DEF Injection, IsInjective

Distinct(s) == \A i, j \in 1..Len(s) : s[i] = s[j] => i = j

Firsts(s, n) == {s[i] : i \in 1..n}

\* n different members are n.
LEMMA CountOnce ==
  ASSUME NEW V, NEW s \in Seq(V), NEW n \in 0..Len(s), Distinct(s)
  PROVE  IsFiniteSet(Firsts(s, n)) /\ Cardinality(Firsts(s, n)) = n
  <1> DEFINE T == Firsts(s, n)
             f == [i \in 1..n |-> s[i]]
  <1>1. n \in Nat /\ 1..n \subseteq 1..Len(s)
    BY LenProperties
  <1>2. IsFiniteSet(1..n) /\ Cardinality(1..n) = n
    BY <1>1, FS_Interval
  <1>3. f \in Surjection(1..n, T)
    BY DEF Surjection, Firsts
  <1>4. f \in Injection(1..n, T)
    <2>1. f \in [1..n -> T] /\ DOMAIN f = 1..n
      BY DEF Firsts
    <2>2. \A i, j \in 1..n : f[i] = f[j] => i = j
      BY <1>1 DEF Distinct
    <2> HIDE DEF f, T
    <2> QED BY <2>1, <2>2 DEF Injection, IsInjective
  <1> HIDE DEF f, T
  <1>5. IsFiniteSet(T) /\ Cardinality(T) = Cardinality(1..n)
    BY <1>2, <1>3, <1>4, FS_Surjection
  <1> QED BY <1>2, <1>5 DEF T

LEMMA BytesNumbered ==
  ASSUME NEW from \in Nat, NEW n \in Nat
  PROVE  /\ Bytes(from, n) \in Seq((from + 1)..(from + n)) /\ Len(Bytes(from, n)) = n
         /\ \A i \in 1..n : Bytes(from, n)[i] = from + i
         /\ Range(Bytes(from, n)) = (from + 1)..(from + n)
  <1> DEFINE s == Bytes(from, n)
  <1>1. s \in [1..n -> (from + 1)..(from + n)] /\ \A i \in 1..n : s[i] = from + i
    BY DEF Bytes
  <1> HIDE DEF s
  <1>2. s \in Seq((from + 1)..(from + n)) /\ Len(s) = n
    BY <1>1, SequenceMade
  <1>3. Range(s) = (from + 1)..(from + n)
    <2>1. DOMAIN s = 1..n
      BY <1>1
    <2>2. ASSUME NEW x \in (from + 1)..(from + n) PROVE x \in Range(s)
      <3>1. x - from \in 1..n /\ from + (x - from) = x
        OBVIOUS
      <3>2. s[x - from] = x
        BY <1>1, <3>1
      <3> QED BY <2>1, <3>1, <3>2 DEF Range
    <2>3. Range(s) \subseteq (from + 1)..(from + n)
      BY <1>1, <2>1 DEF Range
    <2> QED BY <2>2, <2>3
  <1> QED BY <1>1, <1>2, <1>3 DEF s

\* b holds, once each, the bytes of 1..s that are not gone.
Accounted(b, gone, s) ==
    /\ IsBuffer(b, 1..s) /\ b.lwd = 1 /\ b.total = Size(b)
    /\ gone \subseteq 1..s /\ Held(b) = (1..s) \ gone
    /\ Size(b) + Cardinality(gone) = s

LEMMA EmptyAccounted == Accounted(EmptyBuffer, {}, 0)
  <1> DEFINE b == EmptyBuffer
  <1>1. IsBuffer(b, 1..0) /\ b.lwd = 1 /\ b.total = 0 /\ Len(b.chain) = 0
    BY EmptyIsBuffer DEF EmptyBuffer
  <1> HIDE DEF b
  <1>2. Size(b) = 0
    BY <1>1, UsedDef DEF Size
  <1>3. Held(b) = {}
    BY <1>1 DEF Held
  <1> QED BY <1>1, <1>2, <1>3, FS_EmptySet DEF Accounted, b

LEMMA AccountedFacts ==
  ASSUME NEW s \in Nat, NEW gone, NEW b, Accounted(b, gone, s)
  PROVE  /\ IsFiniteSet(gone) /\ Cardinality(gone) \in Nat /\ Size(b) \in Nat
         /\ Contents(b) \in Seq(1..s) /\ Len(Contents(b)) = Size(b)
         /\ Range(Contents(b)) = (1..s) \ gone
         /\ \A i, j \in 1..Size(b) : Contents(b)[i] = Contents(b)[j] => i = j
  <1>1. IsBuffer(b, 1..s) /\ gone \subseteq 1..s /\ Held(b) = (1..s) \ gone
    BY DEF Accounted
  <1>2. Size(b) \in Nat
    BY <1>1, UsedDef
  <1>3. IsFiniteSet(1..s) /\ Cardinality(1..s) = s
    BY FS_Interval
  <1>4. IsFiniteSet(gone) /\ Cardinality(gone) \in Nat
    BY <1>1, <1>3, FS_Subset, FS_CardinalityType
  <1>5. IsFiniteSet(Held(b)) /\ Cardinality(Held(b)) = Size(b)
    <2>1. gone = (1..s) \cap gone
      BY <1>1
    <2>2. IsFiniteSet((1..s) \ gone) /\ Cardinality((1..s) \ gone) = s - Cardinality(gone)
      <3> DEFINE I == 1..s
      <3>1. IsFiniteSet(I) /\ Cardinality(I) = s /\ gone = I \cap gone
        BY <1>3, <2>1
      <3> HIDE DEF I
      <3>2. IsFiniteSet(I \ gone) /\ Cardinality(I \ gone) = Cardinality(I) - Cardinality(I \cap gone)
        BY <3>1, FS_Difference
      <3> QED BY <3>1, <3>2 DEF I
    <2>3. Size(b) = s - Cardinality(gone)
      BY <1>2, <1>4 DEF Accounted
    <2> QED BY <1>1, <2>2, <2>3
  <1>6. Contents(b) \in Seq(1..s) /\ Len(Contents(b)) = Size(b) /\ Range(Contents(b)) = Held(b)
    BY <1>1, ContentsPlaces, ContentsRange
  <1>7. \A i, j \in 1..Size(b) : Contents(b)[i] = Contents(b)[j] => i = j
    BY <1>5, <1>6, OnceEach
  <1> QED BY <1>1, <1>2, <1>4, <1>6, <1>7

\* The next bytes are added to those that are held.
LEMMA AddAccounted ==
  ASSUME NEW s \in Nat, NEW gone, NEW b, Accounted(b, gone, s), NEW m \in Nat
  PROVE  LET c == BufferAdd(b, Bytes(s, m)) IN
         Accounted(c, gone, s + m) /\ c.total = b.total + m
  <1> DEFINE data == Bytes(s, m)
             W == 1..(s + m)
             c == BufferAdd(b, data)
  <1>1. /\ IsBuffer(b, 1..s) /\ b.lwd = 1 /\ b.total = Size(b)
        /\ gone \subseteq 1..s /\ Held(b) = (1..s) \ gone
        /\ Size(b) + Cardinality(gone) = s
    BY DEF Accounted
  <1>2. Size(b) \in Nat /\ Cardinality(gone) \in Nat
    BY AccountedFacts
  <1>3. 1..s \subseteq W /\ (s + 1)..(s + m) \subseteq W /\ W = (1..s) \cup ((s + 1)..(s + m))
    OBVIOUS
  <1>4. data \in Seq(W) /\ Len(data) = m /\ Range(data) = (s + 1)..(s + m)
    <2>1. data \in Seq((s + 1)..(s + m)) /\ Len(data) = m /\ Range(data) = (s + 1)..(s + m)
      BY BytesNumbered
    <2> HIDE DEF data
    <2> QED BY <1>3, <2>1, SeqMonotonic
  <1> HIDE DEF W, data
  <1>5. IsBuffer(b, W)
    BY <1>1, <1>3, BufferGrows
  <1>6. /\ IsBuffer(c, W) /\ c.lwd = b.lwd /\ c.total = b.total + Len(data)
        /\ Size(c) = Size(b) + Len(data) /\ Held(c) = Held(b) \cup Range(data)
    BY <1>4, <1>5, AddKeeps
  <1> HIDE DEF c
  <1>7. Held(c) = W \ gone
    <2>1. \A x \in gone : x \notin (s + 1)..(s + m)
      BY <1>1
    <2> QED BY <1>1, <1>3, <1>4, <1>6, <2>1
  <1>8. Size(c) + Cardinality(gone) = s + m
    <2>1. Size(b) + Cardinality(gone) = s
      BY <1>1
    <2>2. Size(c) = Size(b) + m
      BY <1>4, <1>6
    <2> QED BY <1>2, <2>1, <2>2
  <1>9. Accounted(c, gone, s + m)
    BY <1>1, <1>3, <1>4, <1>6, <1>7, <1>8 DEF Accounted, W
  <1> QED BY <1>4, <1>6, <1>9 DEF c, data

\* The first n bytes held, or all, are gone.
LEMMA TakeAccounted ==
  ASSUME NEW s \in Nat, NEW gone, NEW b, Accounted(b, gone, s), NEW n \in Nat, n > 0
  PROVE  /\ Accounted(Drain(b, n), gone \cup Taken(b, n), s)
         /\ n < b.total => Drain(b, n).total = b.total - n
  <1> DEFINE C == Contents(b)
             K == Size(b)
             k == Minimum(n, Len(C))
             T == Taken(b, n)
             d == Drain(b, n)
  <1>1. /\ IsBuffer(b, 1..s) /\ b.lwd = 1 /\ b.total = K
        /\ gone \subseteq 1..s /\ K + Cardinality(gone) = s
    BY DEF Accounted
  <1>2. /\ IsFiniteSet(gone) /\ Cardinality(gone) \in Nat /\ K \in Nat
        /\ C \in Seq(1..s) /\ Len(C) = K /\ Range(C) = (1..s) \ gone
        /\ \A i, j \in 1..K : C[i] = C[j] => i = j
    BY AccountedFacts
  <1>3. DOMAIN C = 1..K
    BY <1>2, LenProperties
  <1>4. T = {C[i] : i \in 1..k}
    BY DEF Taken
  <1> HIDE DEF C, K, T, d
  <1>5. k \in 0..K /\ k <= n /\ (k = n \/ k = K) /\ (n < K => k = n) /\ (~(n < K) => k = K)
    BY <1>2 DEF Minimum
  <1> HIDE DEF k
  <1>6. IsFiniteSet(T) /\ Cardinality(T) = k
    <2>1. k \in 0..Len(C) /\ Distinct(C)
      BY <1>2, <1>5 DEF Distinct
    <2>2. T = Firsts(C, k)
      BY <1>4 DEF Firsts
    <2> QED BY <1>2, <2>1, <2>2, CountOnce
  <1>7. T \subseteq (1..s) \ gone
    <2>1. \A i \in 1..k : i \in 1..K
      BY <1>2, <1>5
    <2>2. \A i \in 1..K : C[i] \in Range(C)
      BY <1>3 DEF Range
    <2> QED BY <1>2, <1>4, <2>1, <2>2
  <1>8. gone \cup T \subseteq 1..s /\ Cardinality(gone \cup T) = Cardinality(gone) + k
    <2>1. gone \cap T = {}
      BY <1>7
    <2>2. Cardinality({}) = 0
      BY FS_EmptySet
    <2>3. Cardinality(gone \cup T) = Cardinality(gone) + Cardinality(T) - Cardinality(gone \cap T)
      BY <1>2, <1>6, FS_Union
    <2>4. k \in Nat
      BY <1>5
    <2>5. Cardinality(gone \cup T) = Cardinality(gone) + k
      <3>1. Cardinality(gone \cup T) = Cardinality(gone) + k - 0
        BY <1>6, <2>1, <2>2, <2>3
      <3> QED BY <1>2, <2>4, <3>1
    <2> QED BY <1>1, <1>7, <2>5
  <1>9. CASE n < b.total
    <2>1. k = n /\ n < K
      BY <1>1, <1>5, <1>9
    <2>2. Drained(b, n, d, 1..s)
      <3>1. b.total <= Size(b)
        BY <1>1, <1>2 DEF K
      <3> QED BY <1>1, <1>9, <3>1, DrainKeeps DEF d
    <2>3. /\ IsBuffer(d, 1..s) /\ d.total = b.total - n /\ d.lwd <= b.lwd
          /\ Size(d) = K - n /\ Held(d) = {C[i] : i \in (n + 1)..K}
      BY <2>2 DEF Drained, Behind, C, K
    <2>4. d.lwd = 1
      <3>1. d.lwd \in Nat /\ d.lwd >= 1
        BY <2>3, BufferFacts
      <3> QED BY <1>1, <2>3, <3>1
    <2>5. Held(d) = (1..s) \ (gone \cup T)
      <3>1. ASSUME NEW x \in Held(d) PROVE x \in (1..s) \ (gone \cup T)
        <4>1. PICK i \in (n + 1)..K : x = C[i]
          BY <2>3, <3>1
        <4>2. i \in 1..K /\ x \in Range(C)
          BY <1>2, <1>3, <4>1 DEF Range
        <4>3. x \notin T
          <5> SUFFICES ASSUME x \in T PROVE FALSE
            OBVIOUS
          <5>1. PICK j \in 1..n : x = C[j]
            BY <1>4, <2>1
          <5>2. j \in 1..K /\ j # i
            BY <1>2, <2>1
          <5> QED BY <1>2, <4>1, <4>2, <5>1, <5>2
        <4> QED BY <1>2, <4>2, <4>3
      <3>2. ASSUME NEW x \in (1..s) \ (gone \cup T) PROVE x \in Held(d)
        <4>1. PICK i \in 1..K : x = C[i]
          BY <1>2, <1>3, <3>2 DEF Range
        <4>2. i \notin 1..n
          BY <1>4, <2>1, <3>2, <4>1
        <4>3. i \in (n + 1)..K
          BY <1>2, <4>2
        <4> QED BY <2>3, <4>1, <4>3
      <3> QED BY <3>1, <3>2
    <2>6. Size(d) + Cardinality(gone \cup T) = s
      BY <1>1, <1>2, <1>8, <2>1, <2>3
    <2>7. d.total = Size(d)
      BY <1>1, <2>3
    <2>8. Accounted(d, gone \cup T, s)
      BY <1>8, <2>3, <2>4, <2>5, <2>6, <2>7 DEF Accounted
    <2> QED BY <2>3, <2>8 DEF d, T
  <1>10. CASE ~(n < b.total)
    <2>1. k = K
      BY <1>1, <1>5, <1>10
    <2>2. d = EmptyBuffer
      <3>1. n >= b.total
        BY <1>1, <1>2, <1>10
      <3> QED BY <3>1 DEF d, Drain
    <2>3. T = (1..s) \ gone
      BY <1>2, <1>3, <1>4, <2>1 DEF Range
    <2>4. gone \cup T = 1..s
      BY <1>1, <2>3
    <2>5. /\ IsBuffer(d, 1..s) /\ d.lwd = 1 /\ d.total = Size(d)
          /\ Held(d) = {} /\ Size(d) = 0
      <3>1. /\ EmptyBuffer.lwd = 1 /\ EmptyBuffer.total = Size(EmptyBuffer)
            /\ Held(EmptyBuffer) = (1..0) \ {} /\ Size(EmptyBuffer) + Cardinality({}) = 0
        BY EmptyAccounted DEF Accounted
      <3>2. Size(EmptyBuffer) \in Nat
        <4>1. IsBuffer(EmptyBuffer, {})
          BY EmptyIsBuffer
        <4> QED BY <4>1, UsedDef
      <3>3. Size(EmptyBuffer) = 0
        BY <3>1, <3>2, FS_EmptySet
      <3> QED BY <2>2, <3>1, <3>3, EmptyIsBuffer
    <2>6. Size(d) + Cardinality(gone \cup T) = s
      <3>1. Cardinality(1..s) = s
        BY IntervalCount
      <3>2. Cardinality(gone \cup T) = s
        BY <2>4, <3>1, Zenon
      <3> QED BY <2>5, <3>2
    <2>7. Held(d) = (1..s) \ (gone \cup T)
      BY <2>4, <2>5
    <2>8. Accounted(d, gone \cup T, s)
      BY <1>8, <2>5, <2>6, <2>7 DEF Accounted
    <2> QED BY <1>10, <2>8 DEF d, T
  <1> QED BY <1>9, <1>10

LEMMA TakenNone ==
  ASSUME NEW s \in Nat, NEW gone, NEW b, Accounted(b, gone, s), NEW n \in Int, n <= 0
  PROVE  Taken(b, n) = {}
  <1>1. Len(Contents(b)) \in Nat
    BY AccountedFacts
  <1>2. 1..Minimum(n, Len(Contents(b))) = {}
    <2> DEFINE k == Len(Contents(b))
    <2>1. k \in Nat
      BY <1>1
    <2> HIDE DEF k
    <2>2. 1..Minimum(n, k) = {}
      BY <2>1 DEF Minimum
    <2> QED BY <2>2 DEF k
  <1> QED BY <1>2 DEF Taken

\* writev is offered no more than what the buffer holds.
LEMMA ResultsBounded ==
  ASSUME NEW V, NEW b, IsBuffer(b, V), NEW n \in Nat, NEW result \in Results(b, n)
  PROVE  result \in -1..n
  <1> DEFINE i == Minimum(Len(b.chain), NUM_WRITE_IOVEC)
             w == Room(b)[i]
  <1>1. Len(b.chain) \in Nat /\ NUM_WRITE_IOVEC \in Nat
    BY BufferFacts, IovecAssumption
  <1>2. i \in 0..Len(b.chain)
    BY <1>1 DEF Minimum
  <1> HIDE DEF i
  <1>3. w \in Nat
    BY <1>2, RoomDef
  <1>4. Offered(b, n) = Minimum(n, w)
    BY DEF Offered, i
  <1> HIDE DEF w
  <1>5. Offered(b, n) \in 0..n
    BY <1>3, <1>4 DEF Minimum
  <1> QED BY <1>5 DEF Results

-----------------------------------------------------------------------------
(* What is read goes behind what the buffer holds.                         *)

LEMMA SubSeqWhole ==
  ASSUME NEW V, NEW s \in Seq(V)
  PROVE  SubSeq(s, 1, Len(s)) = s
  <1> DEFINE n == Len(s)
             t == SubSeq(s, 1, n)
  <1>1. n \in Nat /\ \A i \in 1..n : s[i] \in V
    BY LenProperties
  <1> HIDE DEF n
  <1>2. t \in Seq(V) /\ Len(t) = n /\ \A i \in 1..n : t[i] = s[i]
    BY <1>1, SubSeqProperties
  <1> HIDE DEF t
  <1>3. Len(t) = Len(s) /\ \A i \in 1..Len(t) : t[i] = s[i]
    BY <1>2 DEF n
  <1>4. t = s
    BY <1>2, <1>3, SeqEqual
  <1> QED BY <1>4 DEF t, n

\* r has the blocks of b and one behind them
OneMore(b, r, new) == r.chain = Append(b.chain, new)

\* That block leaves what the others hold at its place.
LEMMA AppendedContents ==
  ASSUME NEW V, NEW b, IsBuffer(b, V), NEW r, IsBuffer(r, V), NEW new \in Block(V),
         OneMore(b, r, new)
  PROVE  /\ Size(r) = Size(b) + Off(new)
         /\ \A i \in 1..Size(b) : Contents(r)[i] = Contents(b)[i]
         /\ \A i \in 1..Off(new) : Contents(r)[Size(b) + i] = new.data[i]
  <1>0. /\ \A k \in 1..Len(b.chain) : \A j \in 1..Off(b.chain[k]) :
              Contents(b)[Used(b)[k - 1] + j] = b.chain[k].data[j]
        /\ \A i \in 1..Size(b) : \E k \in 1..Len(b.chain), j \in Nat :
              j \in 1..Off(b.chain[k]) /\ i = Used(b)[k - 1] + j
    BY ContentsPlaces
  <1> DEFINE L == Len(b.chain)
             f == [k \in 0..(L + 1) |-> IF k <= L THEN Used(b)[k] ELSE Size(b) + Off(new)]
  <1>1. /\ b.chain \in Seq(Block(V)) /\ L \in Nat /\ Size(b) \in Nat /\ Size(b) = Used(b)[L]
        /\ Used(b)[0] = 0 /\ \A k \in 1..L : Used(b)[k] = Used(b)[k - 1] + Off(b.chain[k])
    BY BufferFacts, UsedDef DEF Size
  <1>2. /\ Len(r.chain) = L + 1 /\ r.chain[L + 1] = new /\ \A k \in 1..L : r.chain[k] = b.chain[k]
    BY <1>1, AppendProperties DEF OneMore
  <1> HIDE DEF L
  <1>3. ASSUME NEW k \in 1..Len(r.chain) PROVE f[k] = f[k - 1] + Off(r.chain[k])
    <2>1. CASE k = L + 1
      <3>1. f[k] = Size(b) + Off(new) /\ f[k - 1] = Size(b)
        BY <1>1, <2>1
      <3> QED BY <1>2, <2>1, <3>1
    <2>2. CASE k # L + 1
      <3>1. k \in 1..L /\ k <= L /\ k - 1 <= L /\ k \in 0..(L + 1) /\ k - 1 \in 0..(L + 1)
        BY <1>1, <1>2, <2>2
      <3> QED BY <1>1, <1>2, <3>1
    <2> QED BY <2>1, <2>2
  <1>4. f[0] = 0 /\ f[L + 1] = Size(b) + Off(new) /\ \A k \in 0..L : f[k] = Used(b)[k]
    BY <1>1
  <1> HIDE DEF f
  <1>5. \A k \in 0..Len(r.chain) : Used(r)[k] = f[k]
    <2>1. f[0] = 0 /\ \A k \in 1..Len(r.chain) : f[k] = f[k - 1] + Off(r.chain[k])
      BY <1>3, <1>4
    <2> QED BY <2>1, UsedUnique
  <1>6. Size(r) = Size(b) + Off(new) /\ \A k \in 0..L : Used(r)[k] = Used(b)[k]
    <2>1. L + 1 \in 0..Len(r.chain) /\ \A k \in 0..L : k \in 0..Len(r.chain)
      BY <1>1, <1>2
    <2> QED BY <1>2, <1>4, <1>5, <2>1 DEF Size
  <1>7. \A k \in 1..(L + 1) : \A j \in 1..Off(r.chain[k]) :
           Contents(r)[Used(r)[k - 1] + j] = r.chain[k].data[j]
    <2>1. /\ \A k \in 1..Len(r.chain) : \A j \in 1..Off(r.chain[k]) :
                Contents(r)[Used(r)[k - 1] + j] = r.chain[k].data[j]
          /\ \A i \in 1..Size(r) : \E k \in 1..Len(r.chain), j \in Nat :
                j \in 1..Off(r.chain[k]) /\ i = Used(r)[k - 1] + j
      BY ContentsPlaces
    <2> QED BY <1>2, <2>1
  <1>8. ASSUME NEW i \in 1..Size(b) PROVE Contents(r)[i] = Contents(b)[i]
    <2>1. PICK k \in 1..Len(b.chain), j \in Nat :
             j \in 1..Off(b.chain[k]) /\ i = Used(b)[k - 1] + j
      BY <1>0, Zenon
    <2>2. Contents(b)[i] = b.chain[k].data[j]
      BY <1>0, <2>1
    <2>3. k \in 1..L
      BY DEF L
    <2>4. k \in 1..(L + 1) /\ k - 1 \in 0..L
      BY <1>1, <2>3
    <2>5. Contents(r)[Used(r)[k - 1] + j] = r.chain[k].data[j]
      <3>1. j \in 1..Off(r.chain[k])
        BY <1>2, <2>1, <2>3, Zenon
      <3> QED BY <1>7, <2>4, <3>1, Zenon
    <2> QED BY <1>2, <1>6, <2>1, <2>2, <2>3, <2>4, <2>5
  <1>9. ASSUME NEW i \in 1..Off(new) PROVE Contents(r)[Size(b) + i] = new.data[i]
    <2>1. L + 1 \in 1..(L + 1) /\ (L + 1) - 1 = L /\ L \in 0..L
      BY <1>1
    <2> QED BY <1>1, <1>2, <1>6, <1>7, <2>1
  <1> QED BY <1>6, <1>8, <1>9

\* Without free space, all that comes goes into one new block.
LEMMA ExpandTight ==
  ASSUME NEW V, NEW b, IsBuffer(b, V), Tight(b), NEW n \in Nat, n > 0
  PROVE  LET e == Expand(b, n) IN
         /\ e.chain = Append(b.chain, NewBlock(n, <<>>))
         /\ e.lwd = b.lwd /\ e.total = b.total
  <1> DEFINE blk == NewBlock(n, <<>>)
             L == Len(b.chain)
             e == Expand(b, n)
  <1>1. /\ b.chain \in Seq(Block(V)) /\ L \in Nat /\ b.lwd \in Nat /\ b.lwd >= 1 /\ b.lwd <= L + 1
        /\ b = [chain |-> b.chain, lwd |-> b.lwd, total |-> b.total]
    BY BufferFacts
  <1>2. ASSUME e = [b EXCEPT !.chain = Append(b.chain, blk)]
        PROVE  e.chain = Append(b.chain, blk) /\ e.lwd = b.lwd /\ e.total = b.total
    <2> DEFINE c == Append(b.chain, blk)
    <2> HIDE DEF c, e
    <2>1. e = [chain |-> c, lwd |-> b.lwd, total |-> b.total]
      BY <1>1, <1>2 DEF c
    <2> QED BY <2>1 DEF c
  <1>3. CASE b.chain = <<>>
    <2> DEFINE full == {k \in Blocks(b) : k < b.lwd \/ \A j \in b.lwd..k : Off(b.chain[j]) > 0}
    <2>1. e = InsertChain(b, blk)
      BY <1>3 DEF Expand
    <2>2. full = {}
      <3>1. Blocks(b) = {}
        BY <1>3 DEF Blocks
      <3> QED BY <3>1
    <2> HIDE DEF full
    <2>3. Max(full \cup {0}) = 0
      <3>1. full \cup {0} = {0} /\ {0} # {} /\ {0} \subseteq 0..0
        BY <2>2
      <3>2. Max({0}) \in {0}
        BY <3>1, GreatestExists
      <3> QED BY <3>1, <3>2
    <2>4. SubSeq(b.chain, 1, 0) = b.chain
      BY <1>3, SubSeqEmpty
    <2>5. InsertChain(b, blk) = [b EXCEPT !.chain = Append(b.chain, blk)]
      BY <2>3, <2>4 DEF InsertChain, full
    <2> QED BY <1>2, <2>1, <2>5
  <1>4. CASE b.chain # <<>>
    <2>1. L \in 1..L /\ b.lwd = L
      <3>1. L # 0
        BY <1>1, <1>4, EmptySeq
      <3> QED BY <1>1, <3>1 DEF Tight
    <2> DEFINE avail == Room(b)[L] - Room(b)[b.lwd - 1]
    <2>2. avail = 0
      <3>1. Room(b)[L] = Room(b)[L - 1] + Free(b.chain[L]) /\ Room(b)[L - 1] \in Nat
        <4>1. L - 1 \in 0..L
          BY <2>1
        <4> QED BY <2>1, <4>1, RoomDef
      <3>2. Free(b.chain[L]) = 0
        BY <2>1 DEF Tight
      <3> QED BY <2>1, <3>1, <3>2
    <2>3. e = [b EXCEPT !.chain = Append(b.chain, NewBlock(n - avail, <<>>))]
      <3>1. ~(avail >= n)
        BY <2>2
      <3> QED BY <1>4, <3>1 DEF Expand
    <2>4. n - avail = n
      BY <2>2
    <2> QED BY <1>2, <2>3, <2>4
  <1> QED BY <1>3, <1>4

\* Nothing is read into a block without space.
LEMMA FillNothing ==
  ASSUME NEW V, NEW blk \in Block(V), Free(blk) = 0
  PROVE  Fill(blk, <<>>) = blk
  <1> DEFINE o == Off(blk)
             behind == SubSeq(blk.data, Len(<<>>) + 1, o)
             unset == [i \in 1..(o + Free(blk) - Len(<<>>) - Len(behind)) |-> Junk]
  <1>1. /\ blk.data \in Seq(V) /\ o \in Nat /\ o = Len(blk.data)
        /\ blk = [size |-> blk.size, misalign |-> blk.misalign, data |-> blk.data]
    BY BlockFacts
  <1>2. behind = blk.data
    <2>1. Len(<<>>) + 1 = 1
      OBVIOUS
    <2> QED BY <1>1, <2>1, SubSeqWhole
  <1>3. unset = <<>>
    <2> DEFINE u == o + Free(blk) - Len(<<>>) - Len(behind)
    <2>1. Len(behind) = o /\ Len(<<>>) = 0 /\ Free(blk) = 0 /\ o \in Nat
      BY <1>1, <1>2
    <2>2. u = 0
      <3> DEFINE q == Len(behind)
                 z == Len(<<>>)
                 w == Free(blk)
      <3>1. q = o /\ z = 0 /\ w = 0 /\ o \in Nat
        BY <2>1
      <3> HIDE DEF q, z, w, o
      <3>2. o + w - z - q = 0
        BY <3>1
      <3> QED BY <3>2 DEF q, z, w, o
    <2>3. unset = [i \in 1..u |-> Junk]
      OBVIOUS
    <2> HIDE DEF u, unset
    <2>4. [i \in 1..0 |-> Junk] = <<>>
      OBVIOUS
    <2> QED BY <2>2, <2>3, <2>4
  <1>4. Fill(blk, <<>>) = [blk EXCEPT !.data = <<>> \o behind \o unset]
    BY DEF Fill
  <1> HIDE DEF behind, unset
  <1>5. <<>> \o behind \o unset = blk.data
    BY <1>1, <1>2, <1>3, ConcatEmptySeq
  <1> QED BY <1>1, <1>4, <1>5

\* What is read goes behind all the buffer holds, and fills one more block.
LEMMA ReadTight ==
  ASSUME NEW V, Junk \in V, NEW b, IsBuffer(b, V), b.total <= Size(b), Tight(b),
         NEW bytes \in Seq(V), Len(bytes) > 0
  PROVE  LET r == ReadFd(b, bytes) IN
         /\ Tight(r) /\ r.total = b.total + Len(bytes)
         /\ \A i \in 1..Size(b) : Contents(r)[i] = Contents(b)[i]
         /\ \A i \in 1..Len(bytes) : Contents(r)[Size(b) + i] = bytes[i]
  <1> DEFINE N == Len(bytes)
             L == Len(b.chain)
             blk == NewBlock(N, <<>>)
             new == Fill(blk, bytes)
             e == Expand(b, N)
             R == Room(e)
             Space(k) == R[k] - R[e.lwd - 1]
             vecs == e.lwd..Minimum(Len(e.chain), e.lwd + NUM_READ_IOVEC - 1)
             n == Minimum(N, Space(Max(vecs)))
             last == Min({k \in vecs : Space(k) >= n})
             Part(k) == SubSeq(bytes, Space(k - 1) + 1, Minimum(n, Space(k)))
             chain == [k \in Blocks(e) |->
                         IF k \in e.lwd..last THEN Fill(e.chain[k], Part(k)) ELSE e.chain[k]]
             r == ReadFd(b, bytes)
  <1>1. r = [e EXCEPT !.chain = chain, !.total = e.total + n, !.lwd = last]
    BY DEF ReadFd
  <1>2. IsBuffer(r, V)
    BY ReadKeeps
  <1> HIDE DEF r
  <1>3. N \in Nat /\ N > 0
    OBVIOUS
  <1>4. /\ b.chain \in Seq(Block(V)) /\ L \in Nat /\ b.lwd \in Nat /\ b.total \in Nat
        /\ b.lwd >= 1 /\ b.lwd <= L + 1
        /\ (L = 0 => b.lwd = 1) /\ (L > 0 => b.lwd = L)
        /\ \A k \in 1..L : b.chain[k] \in Block(V) /\ Free(b.chain[k]) = 0
    BY BufferFacts DEF Tight
  <1>5. blk \in Block(V) /\ Off(blk) = 0 /\ Free(blk) \in Nat /\ Free(blk) >= N
    <2>1. <<>> \in Seq(V) /\ Len(<<>>) = 0 /\ Len(<<>>) <= N
      BY <1>3
    <2>2. blk \in Block(V) /\ Off(blk) = 0 /\ Off(blk) + Free(blk) >= N
      <3> HIDE DEF N
      <3> QED BY <1>3, <2>1, NewBlockFits
    <2> HIDE DEF blk, N
    <2>3. Free(blk) \in Nat
      BY <2>2, BlockFacts
    <2> QED BY <2>2, <2>3
  <1>6. /\ e.chain = Append(b.chain, blk) /\ e.lwd = b.lwd /\ e.total = b.total /\ IsBuffer(e, V)
    <2> HIDE DEF N
    <2> QED BY <1>3, ExpandTight, ExpandKeeps
  <1> HIDE DEF blk, e
  <1>7. /\ Len(e.chain) = L + 1 /\ Blocks(e) = 1..(L + 1) /\ e.chain[L + 1] = blk
        /\ \A k \in 1..L : e.chain[k] = b.chain[k]
    <2>1. /\ Len(e.chain) = L + 1 /\ e.chain[L + 1] = blk /\ \A k \in 1..L : e.chain[k] = b.chain[k]
      BY <1>4, <1>5, <1>6, AppendProperties
    <2> QED BY <1>6, <2>1, BufferFacts
  <1> HIDE DEF L
  <1>8. Space(L) = 0 /\ Space(L + 1) = Free(blk) /\ (L > 0 => Space(L - 1) = 0)
    <2>1. /\ \A k \in 0..(L + 1) : R[k] \in Nat
          /\ \A k \in 1..(L + 1) : R[k] = R[k - 1] + Free(e.chain[k])
      BY <1>6, <1>7, RoomDef
    <2> HIDE DEF R
    <2>2. R[L + 1] = R[L] + Free(blk) /\ R[L] \in Nat
      <3>1. L + 1 \in 1..(L + 1) /\ (L + 1) - 1 = L /\ L \in 0..(L + 1)
        BY <1>4
      <3> QED BY <1>7, <2>1, <3>1
    <2>3. CASE L = 0
      <3>1. e.lwd - 1 = L
        BY <1>4, <1>6, <2>3
      <3> QED BY <1>5, <2>2, <2>3, <3>1
    <2>4. CASE L # 0
      <3>1. L \in 1..L /\ L \in 1..(L + 1) /\ L - 1 \in 0..(L + 1) /\ e.lwd = L
        BY <1>4, <1>6, <2>4
      <3>2. R[L] = R[L - 1] + 0 /\ R[L - 1] \in Nat
        BY <1>4, <1>7, <2>1, <3>1
      <3> QED BY <1>5, <2>2, <3>1, <3>2
    <2> QED BY <2>3, <2>4
  <1> HIDE DEF R
  <1>9. vecs = b.lwd..(L + 1) /\ L + 1 \in vecs /\ vecs \subseteq {L, L + 1}
        /\ Max(vecs) = L + 1
    <2>1. Minimum(L + 1, b.lwd + NUM_READ_IOVEC - 1) = L + 1
      <3> DEFINE i == NUM_READ_IOVEC
                 j == b.lwd
      <3>1. i \in Nat /\ i >= 2
        BY IovecAssumption
      <3>2. j >= L /\ j \in Nat /\ L \in Nat
        BY <1>4
      <3> HIDE DEF i, j
      <3>3. ~(j + i - 1 < L + 1) /\ j + i - 1 \in Nat
        BY <3>1, <3>2
      <3>4. L + 1 < j + i - 1 \/ L + 1 = j + i - 1
        BY <3>2, <3>3
      <3> QED BY <3>4 DEF Minimum, i, j
    <2>2. vecs = b.lwd..(L + 1)
      BY <1>6, <1>7, <2>1
    <2> HIDE DEF vecs
    <2>3. L + 1 \in vecs /\ vecs \subseteq {L, L + 1} /\ vecs \subseteq 0..(L + 1)
      BY <1>4, <2>2
    <2>4. Max(vecs) \in vecs /\ Max(vecs) >= L + 1
      <3>1. L + 1 \in Nat /\ vecs # {}
        BY <1>4, <2>3
      <3> QED BY <2>3, <3>1, GreatestExists
    <2>5. Max(vecs) = L + 1
      <3> DEFINE m == Max(vecs)
      <3>1. m \in {L, L + 1} /\ m >= L + 1
        BY <2>3, <2>4
      <3> HIDE DEF m
      <3>2. m = L + 1
        BY <1>4, <3>1
      <3> QED BY <3>2 DEF m
    <2> QED BY <2>2, <2>3, <2>5
  <1> HIDE DEF vecs, Space
  <1>10. n = N
    BY <1>3, <1>5, <1>8, <1>9 DEF Minimum
  <1> HIDE DEF n
  <1>11. last = L + 1
    <2>1. {k \in vecs : Space(k) >= n} = {L + 1}
      <3> HIDE DEF N
      <3>1. Space(L + 1) >= n /\ ~(Space(L) >= n)
        BY <1>3, <1>5, <1>8, <1>10
      <3> QED BY <1>9, <3>1
    <2>2. Min({L + 1}) \in {L + 1}
      <3>1. {L + 1} \subseteq Nat /\ {L + 1} # {}
        BY <1>4
      <3> QED BY <3>1, LeastExists
    <2> QED BY <2>1, <2>2
  <1> HIDE DEF last
  <1>12. Part(L + 1) = bytes /\ (L > 0 => Part(L) = <<>>)
    <2>1. Part(L + 1) = bytes
      <3>1. (L + 1) - 1 = L /\ Space(L) + 1 = 1
        BY <1>4, <1>8
      <3>2. Minimum(n, Space(L + 1)) = N
        <4> HIDE DEF N
        <4> QED BY <1>3, <1>5, <1>8, <1>10 DEF Minimum
      <3> QED BY <3>1, <3>2, SubSeqWhole
    <2>2. ASSUME L > 0 PROVE Part(L) = <<>>
      <3>1. Space(L - 1) + 1 = 1
        BY <1>8, <2>2
      <3>2. Minimum(n, Space(L)) = 0
        <4> HIDE DEF N
        <4> QED BY <1>3, <1>8, <1>10 DEF Minimum
      <3> QED BY <3>1, <3>2, SubSeqEmpty
    <2> QED BY <2>1, <2>2
  <1> HIDE DEF Part
  <1>13. /\ \A i \in 1..N : new.data[i] = bytes[i]
         /\ new \in Block(V) /\ Off(new) = Free(blk)
    <2>1. N <= Off(blk) + Free(blk) /\ Off(blk) + Free(blk) = Free(blk)
      <3> HIDE DEF N
      <3> QED BY <1>3, <1>5
    <2> QED BY <1>5, <2>1, FillFits
  <1>14. Free(new) = 0
    <2>1. /\ new.size = blk.size /\ new.misalign = blk.misalign
      <3>1. blk \in [size : Nat, misalign : Nat, data : Seq(V)]
        BY <1>5 DEF Block
      <3> QED BY <3>1 DEF Fill
    <2>2. Free(blk) = blk.size - blk.misalign - Off(blk) /\ blk.size \in Nat /\ blk.misalign \in Nat
      BY <1>5, BlockFacts DEF Free
    <2>3. Free(new) = blk.size - blk.misalign - Off(new)
      BY <2>1 DEF Free
    <2> HIDE DEF new
    <2> QED BY <1>5, <1>13, <2>2, <2>3
  <1> HIDE DEF new
  <1>15. chain = Append(b.chain, new)
    <2> DEFINE t == Append(b.chain, new)
    <2>1. /\ t \in Seq(Block(V)) /\ Len(t) = L + 1 /\ t[L + 1] = new
          /\ \A k \in 1..L : t[k] = b.chain[k]
      BY <1>4, <1>13, AppendProperties DEF L
    <2> HIDE DEF t
    <2>2. chain = [k \in 1..(L + 1) |->
                      IF k \in b.lwd..(L + 1) THEN Fill(e.chain[k], Part(k)) ELSE e.chain[k]]
      BY <1>6, <1>7, <1>11
    <2> HIDE DEF chain
    <2>3. ASSUME NEW k \in 1..(L + 1) PROVE chain[k] = t[k]
      <3>1. CASE k = L + 1
        <4>1. k \in b.lwd..(L + 1)
          BY <1>4, <3>1
        <4>2. chain[k] = Fill(blk, bytes)
          BY <1>7, <1>12, <2>2, <3>1, <4>1
        <4> QED BY <2>1, <3>1, <4>2 DEF new
      <3>2. CASE k # L + 1
        <4>1. k \in 1..L /\ L > 0
          BY <1>4, <3>2
        <4>2. CASE k = L
          <5>1. k \in b.lwd..(L + 1)
            BY <1>4, <4>1, <4>2
          <5>2. chain[k] = Fill(b.chain[k], <<>>)
            BY <1>7, <1>12, <2>2, <4>1, <4>2, <5>1
          <5>3. Fill(b.chain[k], <<>>) = b.chain[k]
            BY <1>4, <4>1, FillNothing
          <5> QED BY <2>1, <4>1, <5>2, <5>3
        <4>3. CASE k # L
          <5>1. k \notin b.lwd..(L + 1)
            BY <1>4, <4>1, <4>3
          <5>2. chain[k] = e.chain[k]
            BY <2>2, <5>1
          <5> QED BY <1>7, <2>1, <4>1, <5>2
        <4> QED BY <4>2, <4>3
      <3> QED BY <3>1, <3>2
    <2>4. DOMAIN t = 1..(L + 1) /\ t = [k \in 1..(L + 1) |-> t[k]]
      BY <2>1, LenProperties
    <2>5. chain = t
      BY <2>2, <2>3, <2>4
    <2> QED BY <2>5 DEF t
  <1>16. r.chain = Append(b.chain, new) /\ r.total = b.total + N /\ r.lwd = L + 1
    <2> HIDE DEF chain, N
    <2>1. e = [chain |-> e.chain, lwd |-> e.lwd, total |-> e.total]
      BY <1>6, BufferFacts
    <2>2. r = [chain |-> chain, lwd |-> last, total |-> e.total + n]
      BY <1>1, <2>1
    <2> QED BY <1>6, <1>10, <1>11, <1>15, <2>2
  <1> HIDE DEF chain
  <1>17. Tight(r)
    <2>1. /\ Len(r.chain) = L + 1 /\ r.chain[L + 1] = new /\ \A k \in 1..L : r.chain[k] = b.chain[k]
      BY <1>4, <1>13, <1>16, AppendProperties DEF L
    <2>2. ASSUME NEW k \in 1..(L + 1) PROVE Free(r.chain[k]) = 0
      <3>1. CASE k = L + 1
        BY <1>14, <2>1, <3>1
      <3>2. CASE k # L + 1
        <4>1. k \in 1..L
          BY <1>4, <3>2
        <4> QED BY <1>4, <2>1, <4>1
      <3> QED BY <3>1, <3>2
    <2>3. r.total # 0
      <3> HIDE DEF N
      <3> QED BY <1>3, <1>4, <1>16
    <2> QED BY <1>16, <2>1, <2>2, <2>3 DEF Tight
  <1>18. /\ \A i \in 1..Size(b) : Contents(r)[i] = Contents(b)[i]
         /\ \A i \in 1..Off(new) : Contents(r)[Size(b) + i] = new.data[i]
    <2>1. OneMore(b, r, new)
      BY <1>16 DEF OneMore
    <2> QED BY <1>2, <1>13, <2>1, AppendedContents
  <1>19. ASSUME NEW i \in 1..N PROVE Contents(r)[Size(b) + i] = bytes[i]
    <2>1. i \in 1..Off(new)
      <3> HIDE DEF N
      <3> QED BY <1>3, <1>5, <1>13
    <2> QED BY <1>13, <1>18, <2>1
  <1> QED BY <1>16, <1>17, <1>18, <1>19 DEF r

-----------------------------------------------------------------------------
(* The invariant: any buffer the steps build is one, it is charged no more *)
(* than its blocks hold, and the output buffer accounts for what was sent. *)

\* What has been taken, what b has and what is still in the socket are the bytes up to a.
InOrder(taken, b, socket, a) ==
    /\ Len(taken) + b.total + Len(socket) = a
    /\ \A i \in 1..Len(taken) : taken[i] = i
    /\ \A i \in 1..b.total : Contents(b)[i] = Len(taken) + i
    /\ \A i \in 1..Len(socket) : socket[i] = Len(taken) + b.total + i

InputInv ==
    /\ arrived \in 0..MaxIn /\ incoming \in Seq(1..arrived)
    /\ received \in Seq(1..arrived \cup {Junk})
    /\ IsBuffer(inputBuffer, 1..arrived \cup {Junk})
    /\ inputBuffer.total <= Size(inputBuffer)
    /\ Tight(inputBuffer) /\ gap \in BOOLEAN
    /\ ~gap => InOrder(received, inputBuffer, incoming, arrived)

OutputInv ==
    /\ sent \in 0..MaxOut /\ writing \in BOOLEAN
    /\ Accounted(outputBuffer, drained, sent)
    /\ writing => outputBuffer.total > 0

IInv == InputInv /\ OutputInv

LEMMA InitInvariant == Init => IInv
  <1> SUFFICES ASSUME Init PROVE IInv
    OBVIOUS
  <1>1. InputInv
    <2>1. /\ arrived = 0 /\ incoming = <<>> /\ received = <<>> /\ inputBuffer = EmptyBuffer
          /\ gap = FALSE /\ MaxIn \in Nat
      BY BoundsAssumption DEF Init
    <2>2. \A V : <<>> \in Seq(V)
      OBVIOUS
    <2>3. EmptyBuffer.total <= Size(EmptyBuffer)
      <3>1. EmptyBuffer.total = Size(EmptyBuffer) /\ EmptyBuffer.total \in Nat
        BY EmptyAccounted DEF Accounted, EmptyBuffer
      <3> QED BY <3>1
    <2>4. Tight(EmptyBuffer) /\ InOrder(<<>>, EmptyBuffer, <<>>, 0)
      <3>1. EmptyBuffer.total = 0 /\ EmptyBuffer.chain = <<>> /\ Len(<<>>) = 0
        BY DEF EmptyBuffer
      <3>2. Tight(EmptyBuffer)
        BY <3>1 DEF Tight
      <3>3. InOrder(<<>>, EmptyBuffer, <<>>, 0)
        BY <3>1 DEF InOrder
      <3> QED BY <3>2, <3>3
    <2>5. IsBuffer(EmptyBuffer, 1..0 \cup {Junk})
      BY EmptyIsBuffer
    <2>6. /\ arrived \in 0..MaxIn /\ incoming \in Seq(1..arrived)
          /\ received \in Seq(1..arrived \cup {Junk})
          /\ IsBuffer(inputBuffer, 1..arrived \cup {Junk}) /\ inputBuffer.total <= Size(inputBuffer)
      BY <2>1, <2>2, <2>3, <2>5
    <2>7. Tight(inputBuffer) /\ gap \in BOOLEAN /\ InOrder(received, inputBuffer, incoming, arrived)
      BY <2>1, <2>4
    <2> QED BY <2>6, <2>7, Zenon DEF InputInv
  <1>2. OutputInv
    <2>1. sent = 0 /\ outputBuffer = EmptyBuffer /\ writing = FALSE /\ drained = {} /\ MaxOut \in Nat
      BY BoundsAssumption DEF Init
    <2>2. Accounted(outputBuffer, drained, sent)
      BY <2>1, EmptyAccounted
    <2>3. sent \in 0..MaxOut
      BY <2>1
    <2> QED BY <2>1, <2>2, <2>3, Zenon DEF OutputInv
  <1> QED BY <1>1, <1>2 DEF IInv

-----------------------------------------------------------------------------
(* The steps.                                                              *)

LEMMA PeerSendsKeeps ==
  ASSUME IInv, NEW n \in Nat, PeerSends(n)
  PROVE  InputInv'
  <1> DEFINE a == arrived
             V == 1..arrived \cup {Junk}
             W == 1..(arrived + n) \cup {Junk}
             more == Bytes(arrived, n)
  <1>1. /\ arrived \in Nat /\ incoming \in Seq(1..arrived) /\ received \in Seq(V)
        /\ IsBuffer(inputBuffer, V) /\ inputBuffer.total <= Size(inputBuffer)
        /\ Tight(inputBuffer) /\ gap \in BOOLEAN
        /\ ~gap => InOrder(received, inputBuffer, incoming, arrived)
    BY BoundsAssumption DEF IInv, InputInv
  <1>2. /\ arrived + n <= MaxIn /\ incoming' = incoming \o more /\ arrived' = arrived + n
        /\ inputBuffer' = inputBuffer /\ received' = received /\ gap' = gap
    BY DEF PeerSends
  <1>3. arrived' \in 0..MaxIn
    BY <1>1, <1>2, BoundsAssumption
  <1>4. V \subseteq W /\ 1..arrived \subseteq W /\ 1..(arrived + n) \subseteq W
    BY <1>1
  <1>5. more \in Seq(1..(arrived + n))
    <2> DEFINE S == (arrived + 1)..(arrived + n)
               T == 1..(arrived + n)
    <2>1. more \in Seq(S)
      BY <1>1, BytesNumbered
    <2>2. S \subseteq T
      BY <1>1
    <2> HIDE DEF more, S, T
    <2>3. more \in Seq(T)
      BY <2>1, <2>2, SeqMonotonic
    <2> QED BY <2>3 DEF T
  <1> HIDE DEF more
  <1>6. incoming' \in Seq(1..arrived')
    <2>1. 1..arrived \subseteq 1..(arrived + n)
      BY <1>1
    <2>2. incoming \in Seq(1..(arrived + n))
      BY <1>1, <2>1, SeqMonotonic
    <2> QED BY <1>2, <1>5, <2>2, ConcatProperties
  <1> HIDE DEF V, W
  <1>7. received' \in Seq(W)
    BY <1>1, <1>2, <1>4, SeqMonotonic
  <1>8. IsBuffer(inputBuffer', W) /\ inputBuffer'.total <= Size(inputBuffer')
    <2>1. IsBuffer(inputBuffer, W)
      BY <1>1, <1>4, BufferGrows
    <2> QED BY <1>1, <1>2, <2>1
  <1>9. ASSUME ~gap PROVE InOrder(received', inputBuffer', incoming', arrived')
    <2>1. /\ Len(received) + inputBuffer.total + Len(incoming) = a
          /\ \A i \in 1..Len(received) : received[i] = i
          /\ \A i \in 1..inputBuffer.total : Contents(inputBuffer)[i] = Len(received) + i
          /\ \A i \in 1..Len(incoming) : incoming[i] = Len(received) + inputBuffer.total + i
      BY <1>1, <1>9, Zenon DEF InOrder
    <2> DEFINE p == Len(received) + inputBuffer.total
               k == Len(incoming)
               c == incoming \o more
    <2>2. p \in Nat /\ k \in Nat
      <3>1. Len(received) \in Nat /\ Len(incoming) \in Nat /\ inputBuffer.total \in Nat
        BY <1>1, LenProperties, BufferFacts
      <3> QED BY <3>1
    <2>3. Len(more) = n /\ \A i \in 1..n : more[i] = a + i
      BY <1>1, BytesNumbered DEF more
    <2>4. Len(c) = k + n /\ \A i \in 1..(k + n) : c[i] = IF i <= k THEN incoming[i] ELSE more[i - k]
      <3>1. incoming \in Seq(W) /\ more \in Seq(W)
        BY <1>1, <1>4, <1>5, SeqMonotonic
      <3> QED BY <2>3, <3>1, ConcatProperties
    <2> HIDE DEF p, k, c
    <2>5. p + k = a
      BY <2>1 DEF p, k
    <2>6. ASSUME NEW i \in 1..(k + n) PROVE c[i] = p + i
      <3>1. CASE i <= k
        <4>1. i \in 1..k
          BY <2>2, <3>1
        <4> QED BY <2>1, <2>4, <3>1, <4>1 DEF p, k
      <3>2. CASE ~(i <= k)
        <4>1. i - k \in 1..n /\ a + (i - k) = p + i
          BY <2>2, <2>5, <3>2
        <4> QED BY <2>3, <2>4, <3>2, <4>1
      <3> QED BY <3>1, <3>2
    <2>7. p + (k + n) = a + n
      BY <2>2, <2>5
    <2>8. incoming' = c
      BY <1>2 DEF c
    <2> QED BY <1>2, <2>1, <2>4, <2>6, <2>7, <2>8 DEF InOrder, p
  <1>10. W = 1..arrived' \cup {Junk}
    BY <1>2 DEF W
  <1>11. Tight(inputBuffer') /\ gap' \in BOOLEAN /\ (~gap' => ~gap)
    BY <1>1, <1>2
  <1>12. received' \in Seq(1..arrived' \cup {Junk}) /\ IsBuffer(inputBuffer', 1..arrived' \cup {Junk})
    BY <1>7, <1>8, <1>10
  <1> QED BY <1>3, <1>6, <1>8, <1>9, <1>11, <1>12, Zenon DEF InputInv

LEMMA HandleReadKeeps ==
  ASSUME IInv, NEW len \in Nat, HandleRead(len)
  PROVE  InputInv'
  <1> DEFINE V == 1..arrived \cup {Junk}
             r == ReadFd(inputBuffer, incoming)
             n == r.total - inputBuffer.total
  <1>1. /\ arrived \in Nat /\ arrived \in 0..MaxIn /\ incoming \in Seq(1..arrived) /\ received \in Seq(V)
        /\ IsBuffer(inputBuffer, V) /\ inputBuffer.total <= Size(inputBuffer)
        /\ Tight(inputBuffer) /\ gap \in BOOLEAN
        /\ ~gap => InOrder(received, inputBuffer, incoming, arrived)
    BY BoundsAssumption DEF IInv, InputInv
  <1>2. /\ incoming # <<>> /\ len <= r.total
        /\ incoming' = SubSeq(incoming, n + 1, Len(incoming))
        /\ received' = received \o Copyout(r, len)
        /\ inputBuffer' = Drain(r, len) /\ arrived' = arrived
        /\ gap' = (gap \/ HasUnset(inputBuffer))
    BY DEF HandleRead
  <1>3. Junk \in V /\ 1..arrived \subseteq V
    OBVIOUS
  <1> HIDE DEF V
  <1>4. incoming \in Seq(V) /\ Len(incoming) \in Nat /\ Len(incoming) > 0
    <2>1. incoming \in Seq(V)
      BY <1>1, <1>3, SeqMonotonic
    <2>2. incoming # <<>> => Len(incoming) \in Nat \ {0}
      BY <2>1, EmptySeq
    <2>3. Len(incoming) \in Nat \ {0}
      BY <1>2, <2>2
    <2> QED BY <2>1, <2>3
  <1>5. IsBuffer(r, V) /\ r.total <= Size(r) /\ n \in 0..Len(incoming)
    BY <1>1, <1>3, <1>4, ReadKeeps
  <1>12. /\ Tight(r) /\ r.total = inputBuffer.total + Len(incoming)
         /\ \A i \in 1..Size(inputBuffer) : Contents(r)[i] = Contents(inputBuffer)[i]
         /\ \A i \in 1..Len(incoming) : Contents(r)[Size(inputBuffer) + i] = incoming[i]
    BY <1>1, <1>3, <1>4, ReadTight
  <1> HIDE DEF r
  <1>6. /\ r.total \in Nat /\ Size(r) \in Nat /\ inputBuffer.total \in Nat
        /\ Contents(r) \in Seq(V) /\ Len(Contents(r)) = Size(r)
    BY <1>1, <1>5, BufferFacts, UsedDef, ContentsPlaces
  <1>7. incoming' \in Seq(1..arrived)
    <2> DEFINE i == n + 1
               k == Len(incoming)
    <2>1. i \in Int /\ i >= 1 /\ k \in Int /\ k \in Nat
      BY <1>4, <1>5
    <2>2. \A j \in i..k : incoming[j] \in 1..arrived
      <3>1. \A j \in 1..k : incoming[j] \in 1..arrived
        BY <1>1, LenProperties
      <3> HIDE DEF i, k
      <3> QED BY <2>1, <3>1
    <2>3. incoming' = SubSeq(incoming, i, k)
      BY <1>2
    <2> HIDE DEF i, k
    <2> QED BY <2>1, <2>2, <2>3, SubSeqProperties
  <1>8. received' \in Seq(V)
    <2> DEFINE k == Minimum(len, r.total)
               C == Contents(r)
    <2>1. k \in Int /\ k <= Size(r)
      BY <1>5, <1>6 DEF Minimum
    <2>2. \A j \in 1..k : C[j] \in V
      <3>1. \A j \in 1..Len(C) : C[j] \in V
        BY <1>6, LenProperties
      <3> HIDE DEF k, C
      <3> QED BY <1>6, <2>1, <3>1 DEF C
    <2> HIDE DEF k, C
    <2>3. SubSeq(C, 1, k) \in Seq(V)
      BY <2>1, <2>2, SubSeqProperties
    <2>4. Copyout(r, len) \in Seq(V)
      BY <2>3 DEF Copyout, k, C
    <2> QED BY <1>1, <1>2, <2>4, ConcatProperties
  <1>9. /\ IsBuffer(inputBuffer', V) /\ inputBuffer'.total <= Size(inputBuffer')
        /\ Tight(inputBuffer')
    <2>1. CASE len < r.total
      <3> DEFINE d == Drain(r, len)
      <3>1. Drained(r, len, d, V)
        BY <1>5, <2>1, DrainKeeps
      <3> HIDE DEF d
      <3>2. IsBuffer(d, V) /\ d.total = r.total - len /\ Size(d) = Size(r) - len /\ Tight(d)
        BY <1>12, <3>1 DEF Drained
      <3>3. d.total <= Size(d)
        BY <1>5, <1>6, <3>2
      <3> QED BY <1>2, <3>2, <3>3 DEF d
    <2>2. CASE ~(len < r.total)
      <3>1. Drain(r, len) = EmptyBuffer
        <4>1. len >= r.total
          BY <1>6, <2>2
        <4> QED BY <4>1 DEF Drain
      <3>2. EmptyBuffer.total <= Size(EmptyBuffer)
        <4>1. EmptyBuffer.total = Size(EmptyBuffer) /\ EmptyBuffer.total \in Nat
          BY EmptyAccounted DEF Accounted, EmptyBuffer
        <4> QED BY <4>1
      <3>3. Tight(EmptyBuffer)
        <4>1. EmptyBuffer.chain = <<>> /\ Len(<<>>) = 0
          BY DEF EmptyBuffer
        <4> QED BY <4>1 DEF Tight
      <3> QED BY <1>2, <3>1, <3>2, <3>3, EmptyIsBuffer
    <2> QED BY <2>1, <2>2
  <1>10. ASSUME ~gap' PROVE InOrder(received', inputBuffer', incoming', arrived')
    <2> DEFINE p == Len(received)
               t == inputBuffer.total
               k == Len(incoming)
               B == Contents(inputBuffer)
               C == Contents(r)
               d == Drain(r, len)
    <2>1. ~gap /\ ~HasUnset(inputBuffer)
      BY <1>2, <1>10, Zenon
    <2>2. /\ p + t + k = arrived /\ \A i \in 1..p : received[i] = i
          /\ \A i \in 1..t : B[i] = p + i
          /\ \A i \in 1..k : incoming[i] = p + t + i
      BY <1>1, <2>1, Zenon DEF InOrder
    <2>3. Size(inputBuffer) = t
      <3>1. Len(Contents(inputBuffer)) = Size(inputBuffer) /\ Size(inputBuffer) \in Nat
        BY <1>1, ContentsPlaces, UsedDef
      <3> QED BY <1>1, <1>6, <2>1, <3>1 DEF HasUnset
    <2>4. p \in Nat /\ t \in Nat /\ k \in Nat
      BY <1>1, <1>4, <1>6, LenProperties
    <2>5. r.total = t + k /\ (\A i \in 1..t : C[i] = B[i]) /\ \A i \in 1..k : C[t + i] = incoming[i]
      BY <1>12, <2>3
    <2>6. len <= r.total /\ incoming' = SubSeq(incoming, n + 1, k) /\ n = r.total - t
          /\ received' = received \o Copyout(r, len)
      BY <1>2
    <2>7. Copyout(r, len) = SubSeq(C, 1, len)
      <3> DEFINE m == r.total
      <3>1. m \in Nat /\ len <= m
        BY <1>6, <2>6
      <3> HIDE DEF m
      <3>2. Minimum(len, m) = len
        BY <3>1 DEF Minimum
      <3> QED BY <3>2 DEF Copyout, m
    <2> HIDE DEF p, t, k, B, C, n, d
    <2>15. len <= t + k /\ n = k
      BY <2>4, <2>5, <2>6
    <2>8. ASSUME NEW i \in 1..(t + k) PROVE C[i] = p + i
      <3>1. CASE i <= t
        <4>1. i \in 1..t
          BY <2>4, <3>1
        <4> QED BY <2>2, <2>5, <4>1
      <3>2. CASE ~(i <= t)
        <4> DEFINE m == i - t
        <4>1. m \in 1..k /\ t + m = i /\ p + t + m = p + i
          BY <2>4, <3>2
        <4> HIDE DEF m
        <4>2. C[t + m] = incoming[m] /\ incoming[m] = p + t + m
          BY <2>2, <2>5, <4>1
        <4> QED BY <4>1, <4>2
      <3> QED BY <3>1, <3>2
    <2>9. incoming' = <<>>
      <3>1. n + 1 \in Int /\ k \in Int /\ k < n + 1
        BY <2>4, <2>15
      <3> QED BY <2>6, <3>1, SubSeqEmpty
    <2>10. Len(received') = p + len /\ \A i \in 1..(p + len) : received'[i] = i
      <3> DEFINE s == SubSeq(C, 1, len)
      <3>1. s \in Seq(V) /\ Len(s) = len /\ \A i \in 1..len : s[i] = C[i]
        <4>1. t + k <= Size(r)
          BY <1>5, <2>5
        <4>2. \A i \in 1..len : C[i] \in V
          <5>1. \A i \in 1..Len(C) : C[i] \in V
            BY <1>6, LenProperties DEF C
          <5>2. Len(C) = Size(r)
            BY <1>6 DEF C
          <5> QED BY <1>6, <2>4, <2>15, <4>1, <5>1, <5>2
        <4> QED BY <4>2, SubSeqProperties
      <3> HIDE DEF s
      <3> DEFINE c == received \o s
      <3>2. Len(c) = p + len /\ \A i \in 1..(p + len) : c[i] = IF i <= p THEN received[i] ELSE s[i - p]
        BY <1>1, <3>1, ConcatProperties DEF p
      <3> HIDE DEF c
      <3>3. ASSUME NEW i \in 1..(p + len) PROVE c[i] = i
        <4>1. CASE i <= p
          <5>1. i \in 1..p
            BY <2>4, <4>1
          <5> QED BY <2>2, <3>2, <4>1, <5>1
        <4>2. CASE ~(i <= p)
          <5>1. i - p \in 1..len /\ i - p \in 1..(t + k) /\ p + (i - p) = i
            BY <2>4, <2>15, <4>2
          <5>2. s[i - p] = p + (i - p)
            BY <2>8, <3>1, <5>1
          <5> QED BY <3>2, <4>2, <5>1, <5>2
        <4> QED BY <4>1, <4>2
      <3>4. received' = c
        BY <2>6, <2>7 DEF c, s
      <3> QED BY <3>2, <3>3, <3>4
    <2>11. /\ (p + len) + d.total = arrived
           /\ \A i \in 1..d.total : Contents(d)[i] = (p + len) + i
      <3>1. CASE len < r.total
        <4>1. Drained(r, len, d, V)
          BY <1>5, <3>1, DrainKeeps DEF d
        <4>2. /\ d.total = (t + k) - len /\ Size(d) = Size(r) - len
              /\ \A i \in 1..Size(d) : Contents(d)[i] = C[len + i]
          BY <2>5, <4>1 DEF Drained, C
        <4>3. ASSUME NEW i \in 1..d.total PROVE Contents(d)[i] = (p + len) + i
          <5>1. i \in 1..Size(d) /\ len + i \in 1..(t + k) /\ p + (len + i) = (p + len) + i
            BY <1>5, <1>6, <2>4, <2>5, <4>2
          <5> QED BY <2>8, <4>2, <5>1
        <4>4. (p + len) + ((t + k) - len) = arrived
          BY <2>2, <2>4
        <4> QED BY <4>2, <4>3, <4>4
      <3>2. CASE ~(len < r.total)
        <4>1. len = t + k
          BY <2>4, <2>5, <2>15, <3>2
        <4>2. d = EmptyBuffer
          <5>1. len >= r.total
            BY <2>4, <2>5, <4>1
          <5> QED BY <5>1 DEF Drain, d
        <4>3. d.total = 0
          BY <4>2 DEF EmptyBuffer
        <4>4. (p + (t + k)) + 0 = arrived
          BY <2>2, <2>4
        <4> QED BY <4>1, <4>3, <4>4
      <3> QED BY <3>1, <3>2
    <2>12. inputBuffer' = d /\ arrived' = arrived
      BY <1>2 DEF d
    <2>13. /\ Len(incoming') = 0 /\ d.total \in Nat /\ (p + len) + d.total + 0 = arrived
      <3>1. d.total \in Nat
        BY <1>9, <2>12, BufferFacts
      <3> QED BY <2>4, <2>9, <2>11, <3>1
    <2>14. \A i \in 1..Len(incoming') : FALSE
      BY <2>13
    <2> HIDE DEF d
    <2> QED BY <2>10, <2>11, <2>12, <2>13, <2>14 DEF InOrder
  <1>11. V = 1..arrived' \cup {Junk} /\ arrived' = arrived
    BY <1>2 DEF V
  <1>13. gap' \in BOOLEAN
    BY <1>1, <1>2
  <1> QED BY <1>1, <1>7, <1>8, <1>9, <1>10, <1>11, <1>13 DEF InputInv

LEMMA AfterWriteKeeps ==
  ASSUME NEW b, NEW s \in Nat, Accounted(b, drained, s), b.total > 0,
         NEW result \in Int, result >= -1, NEW complete \in BOOLEAN, NEW m \in Nat,
         ~complete => result < b.total,
         AfterWrite(b, s, result, complete, m)
  PROVE  OutputInv'
  <1> DEFINE c == IF m > 0 THEN BufferAdd(b, Bytes(s, m)) ELSE b
  <1>1. /\ m > 0 => complete
        /\ s + m <= MaxOut /\ sent' = s + m
        /\ outputBuffer' = IF result > 0 THEN Drain(c, result) ELSE c
        /\ drained' = drained \cup Taken(c, result)
        /\ writing' = ~complete
    BY DEF AfterWrite
  <1>2. Accounted(c, drained, s + m) /\ c.total = b.total + m
    <2>1. CASE m > 0
      BY <2>1, AddAccounted
    <2>2. CASE ~(m > 0)
      <3>1. m = 0 /\ c = b /\ s + m = s
        BY <2>2
      <3>2. b.total \in Nat
        BY BufferFacts DEF Accounted
      <3>3. b.total + m = b.total
        BY <3>1, <3>2
      <3> HIDE DEF c
      <3> QED BY <3>1, <3>3
    <2> QED BY <2>1, <2>2
  <1> HIDE DEF c
  <1>3. b.total \in Nat /\ c.total \in Nat /\ s + m \in Nat
    <2>1. IsBuffer(b, 1..s) /\ IsBuffer(c, 1..(s + m))
      BY <1>2 DEF Accounted
    <2> QED BY <2>1, BufferFacts
  <1>4. /\ Accounted(outputBuffer', drained', sent')
        /\ result < c.total => outputBuffer'.total > 0
    <2>1. CASE result > 0
      <3>1. result \in Nat
        BY <2>1
      <3>2. /\ Accounted(Drain(c, result), drained \cup Taken(c, result), s + m)
            /\ result < c.total => Drain(c, result).total = c.total - result
        BY <1>2, <1>3, <2>1, <3>1, TakeAccounted
      <3>3. outputBuffer' = Drain(c, result)
        BY <1>1, <2>1
      <3>4. result < c.total => outputBuffer'.total > 0
        BY <1>3, <3>2, <3>3
      <3> QED BY <1>1, <3>2, <3>3, <3>4
    <2>2. CASE ~(result > 0)
      <3>1. Taken(c, result) = {}
        <4>1. result <= 0
          BY <2>2
        <4> QED BY <1>2, <1>3, <4>1, TakenNone
      <3>2. outputBuffer' = c /\ drained' = drained
        BY <1>1, <2>2, <3>1
      <3>3. c.total > 0
        BY <1>2, <1>3
      <3> QED BY <1>1, <1>2, <3>2, <3>3
    <2> QED BY <2>1, <2>2
  <1>5. ASSUME writing' PROVE outputBuffer'.total > 0
    <2>1. ~complete
      BY <1>1, <1>5, Zenon
    <2>2. ~(m > 0) /\ result < b.total
      BY <1>1, <2>1, Zenon
    <2>3. result < c.total
      BY <1>2, <1>3, <2>2
    <2> QED BY <1>4, <2>3
  <1>6. sent' \in 0..MaxOut
    BY <1>1, <1>3, BoundsAssumption
  <1>7. writing' \in BOOLEAN
    BY <1>1
  <1> QED BY <1>4, <1>5, <1>6, <1>7, Zenon DEF OutputInv

LEMMA SendNowKeeps ==
  ASSUME IInv, NEW n \in Nat, n > 0, NEW result \in Int, NEW m \in Nat, SendNow(n, result, m)
  PROVE  OutputInv'
  <1> DEFINE b == BufferAdd(outputBuffer, Bytes(sent, n))
             complete == result \notin 0..(n - 1)
  <1>1. sent \in Nat /\ Accounted(outputBuffer, drained, sent)
    BY BoundsAssumption DEF IInv, OutputInv
  <1>2. outputBuffer.total = 0 /\ result \in Results(b, n) /\ AfterWrite(b, sent + n, result, complete, m)
    BY DEF SendNow
  <1>3. Accounted(b, drained, sent + n) /\ b.total = n
    <2>1. Accounted(b, drained, sent + n) /\ b.total = outputBuffer.total + n
      BY <1>1, AddAccounted
    <2> HIDE DEF b
    <2> QED BY <1>2, <2>1
  <1> HIDE DEF b
  <1>4. result \in -1..n
    <2>1. IsBuffer(b, 1..(sent + n))
      BY <1>3 DEF Accounted
    <2> QED BY <1>2, <2>1, ResultsBounded
  <1>5. complete \in BOOLEAN /\ (~complete => result < b.total)
    BY <1>3, <1>4
  <1>6. result >= -1 /\ b.total > 0 /\ sent + n \in Nat
    BY <1>1, <1>3, <1>4
  <1> HIDE DEF complete
  <1> QED BY <1>2, <1>3, <1>5, <1>6, AfterWriteKeeps

LEMMA HandleWriteKeeps ==
  ASSUME IInv, NEW result \in Int, NEW m \in Nat, HandleWrite(result, m)
  PROVE  OutputInv'
  <1> DEFINE b == outputBuffer
             complete == result = b.total
  <1>1. sent \in Nat /\ Accounted(b, drained, sent)
    BY BoundsAssumption DEF IInv, OutputInv
  <1>2. b.total > 0 /\ result \in Results(b, b.total) /\ AfterWrite(b, sent, result, complete, m)
    BY DEF HandleWrite
  <1>3. IsBuffer(b, 1..sent) /\ b.total \in Nat
    BY <1>1, BufferFacts DEF Accounted
  <1>4. result \in -1..b.total
    BY <1>2, <1>3, ResultsBounded
  <1>5. complete \in BOOLEAN /\ (~complete => result < b.total) /\ result >= -1
    BY <1>3, <1>4
  <1> HIDE DEF complete
  <1> QED BY <1>1, <1>2, <1>5, AfterWriteKeeps

LEMMA SendLaterKeeps ==
  ASSUME IInv, NEW n \in Nat, n > 0, SendLater(n)
  PROVE  OutputInv'
  <1> DEFINE c == BufferAdd(outputBuffer, Bytes(sent, n))
  <1>1. /\ sent \in Nat /\ Accounted(outputBuffer, drained, sent) /\ writing \in BOOLEAN
        /\ outputBuffer.total \in Nat
    <2>1. sent \in Nat /\ Accounted(outputBuffer, drained, sent) /\ writing \in BOOLEAN
      BY BoundsAssumption DEF IInv, OutputInv
    <2> QED BY <2>1, BufferFacts DEF Accounted
  <1>2. /\ sent + n <= MaxOut /\ sent' = sent + n /\ outputBuffer' = c
        /\ writing' = writing /\ drained' = drained
    BY DEF SendLater
  <1>3. Accounted(c, drained, sent + n) /\ c.total = outputBuffer.total + n
    BY <1>1, AddAccounted
  <1> HIDE DEF c
  <1>4. outputBuffer'.total > 0
    BY <1>1, <1>2, <1>3
  <1>5. sent' \in 0..MaxOut
    BY <1>1, <1>2, BoundsAssumption
  <1>6. Accounted(outputBuffer', drained', sent')
    BY <1>2, <1>3
  <1>7. writing' \in BOOLEAN
    BY <1>1, <1>2
  <1> QED BY <1>4, <1>5, <1>6, <1>7, Zenon DEF OutputInv

LEMMA NextInvariant == IInv /\ [Next]_vars => IInv'
  <1> SUFFICES ASSUME IInv, [Next]_vars PROVE IInv'
    OBVIOUS
  <1>1. ASSUME UNCHANGED inVars PROVE InputInv'
    <2>1. InputInv
      BY DEF IInv
    <2> QED BY <1>1, <2>1 DEF inVars, InputInv
  <1>2. ASSUME UNCHANGED outVars PROVE OutputInv'
    <2>1. OutputInv
      BY DEF IInv
    <2> QED BY <1>2, <2>1 DEF outVars, OutputInv
  <1>3. /\ \A n \in 1..MaxIn : n \in Nat
        /\ \A n \in 1..MaxSend : n \in Nat /\ n > 0
        /\ \A m \in 0..MaxSend : m \in Nat
        /\ \A len \in 0..MaxIn : len \in Nat
        /\ \A result \in -1..MaxOut : result \in Int
    BY BoundsAssumption
  <1>4. ASSUME NEW n \in 1..MaxIn, PeerSends(n) PROVE IInv'
    <2>1. UNCHANGED outVars
      BY <1>4 DEF PeerSends
    <2> QED BY <1>2, <1>3, <1>4, <2>1, PeerSendsKeeps DEF IInv
  <1>5. ASSUME NEW len \in 0..MaxIn, HandleRead(len) PROVE IInv'
    <2>1. UNCHANGED outVars
      BY <1>5 DEF HandleRead
    <2> QED BY <1>2, <1>3, <1>5, <2>1, HandleReadKeeps DEF IInv
  <1>6. ASSUME NEW n \in 1..MaxSend, SendLater(n) PROVE IInv'
    <2>1. UNCHANGED inVars
      BY <1>6 DEF SendLater
    <2> QED BY <1>1, <1>3, <1>6, <2>1, SendLaterKeeps DEF IInv
  <1>7. ASSUME NEW result \in -1..MaxOut, NEW m \in 0..MaxSend, HandleWrite(result, m) PROVE IInv'
    <2>1. UNCHANGED inVars
      BY <1>7 DEF HandleWrite
    <2> QED BY <1>1, <1>3, <1>7, <2>1, HandleWriteKeeps DEF IInv
  <1>8. ASSUME NEW result \in -1..MaxOut, NEW m \in 0..MaxSend, NEW n \in 1..MaxSend,
               SendNow(n, result, m)
        PROVE  IInv'
    <2>1. UNCHANGED inVars
      BY <1>8 DEF SendNow
    <2> QED BY <1>1, <1>3, <1>8, <2>1, SendNowKeeps DEF IInv
  <1>9. CASE UNCHANGED vars
    <2>1. UNCHANGED inVars /\ UNCHANGED outVars
      BY <1>9 DEF vars, inVars, outVars
    <2> QED BY <1>1, <1>2, <2>1 DEF IInv
  <1> QED BY <1>4, <1>5, <1>6, <1>7, <1>8, <1>9 DEF Next

LEMMA IInvHolds == Spec => []IInv
  BY InitInvariant, NextInvariant, PTL DEF Spec

LEMMA BufferWellFormed ==
  ASSUME NEW V, NEW b, IsBuffer(b, V)
  PROVE  WellFormed(b)
  <1>1. /\ Blocks(b) = 1..Len(b.chain) /\ Len(b.chain) \in Nat /\ b.total \in Nat
        /\ \A k \in 1..Len(b.chain) : b.chain[k] \in Block(V)
    BY BufferFacts
  <1>2. ASSUME NEW k \in 1..Len(b.chain)
        PROVE  /\ b.chain[k].misalign + Off(b.chain[k]) <= b.chain[k].size
               /\ \A j \in 1..k : Off(b.chain[k]) > 0 => Off(b.chain[j]) > 0
    BY <1>1 DEF Block, IsBuffer
  <1>3. b.lwd \in 1..(Len(b.chain) + 1)
    BY DEF IsBuffer
  <1> QED BY <1>1, <1>2, <1>3 DEF WellFormed

\* Whatever is sent, read, written and taken, both buffers stay as the assertions of
\* Buffer.cpp demand: no block holds more than its size, blocks without data come
\* last, and lastWithData_ refers to one of the chain.
THEOREM BuffersWellFormed == Spec => []TypeOK
  <1>1. IInv => TypeOK
    <2> SUFFICES ASSUME IInv PROVE TypeOK
      OBVIOUS
    <2>1. WellFormed(inputBuffer) /\ WellFormed(outputBuffer)
      BY BufferWellFormed DEF IInv, InputInv, OutputInv, Accounted
    <2>2. drained \subseteq 1..sent
      BY DEF IInv, OutputInv, Accounted
    <2> QED BY <2>1, <2>2 DEF IInv, InputInv, OutputInv, TypeOK
  <1> QED BY <1>1, IInvHolds, PTL

\* A message callback that takes any part of the buffer, at any time, receives byte for
\* byte and in order what the peer has sent, however it comes in and whatever blocks it
\* goes through and stays in, unless a read went behind a block filled in part
\* (handleRead, bufferRead, bufferExpandFast, bufferCopyout, bufferDrain).
THEOREM InputArrives == Spec => []InputIntact
  <1>1. IInv => InputIntact
    <2> SUFFICES ASSUME IInv, ~gap
                 PROVE  received \o SubSeq(Contents(inputBuffer), 1, inputBuffer.total) \o incoming
                            = Bytes(0, arrived)
      BY DEF InputIntact
    <2> DEFINE V == 1..arrived \cup {Junk}
               p == Len(received)
               t == inputBuffer.total
               k == Len(incoming)
               C == Contents(inputBuffer)
               s == SubSeq(C, 1, t)
               front == received \o s
               whole == front \o incoming
    <2>1. /\ arrived \in Nat /\ incoming \in Seq(1..arrived) /\ received \in Seq(V)
          /\ IsBuffer(inputBuffer, V) /\ t <= Size(inputBuffer)
          /\ InOrder(received, inputBuffer, incoming, arrived)
      BY BoundsAssumption DEF IInv, InputInv
    <2>2. /\ p + t + k = arrived /\ \A i \in 1..p : received[i] = i
          /\ \A i \in 1..t : C[i] = p + i
          /\ \A i \in 1..k : incoming[i] = p + t + i
      BY <2>1, Zenon DEF InOrder
    <2>3. 1..arrived \subseteq V
      OBVIOUS
    <2> HIDE DEF V
    <2>4. incoming \in Seq(V) /\ p \in Nat /\ k \in Nat /\ t \in Nat
      BY <2>1, <2>3, SeqMonotonic, LenProperties, BufferFacts
    <2>5. s \in Seq(V) /\ Len(s) = t /\ \A i \in 1..t : s[i] = C[i]
      <3>1. C \in Seq(V) /\ Len(C) = Size(inputBuffer) /\ Size(inputBuffer) \in Nat
        BY <2>1, ContentsPlaces, UsedDef
      <3> HIDE DEF C, t
      <3>2. \A i \in 1..t : C[i] \in V
        <4>1. \A i \in 1..Len(C) : C[i] \in V
          BY <3>1, LenProperties
        <4> QED BY <2>1, <2>4, <3>1, <4>1
      <3> QED BY <2>4, <3>2, SubSeqProperties
    <2>6. /\ front \in Seq(V) /\ Len(front) = p + t
          /\ \A i \in 1..(p + t) : front[i] = IF i <= p THEN received[i] ELSE s[i - p]
      <3> HIDE DEF s, t
      <3> QED BY <2>1, <2>5, ConcatProperties
    <2>7. /\ whole \in Seq(V) /\ Len(whole) = (p + t) + k
          /\ \A i \in 1..((p + t) + k) : whole[i] = IF i <= p + t THEN front[i] ELSE incoming[i - (p + t)]
      <3> DEFINE q == Len(front)
      <3>3. front \in Seq(V) /\ incoming \in Seq(V)
        BY <2>4, <2>6
      <3> HIDE DEF front, p, t
      <3>1. /\ whole \in Seq(V) /\ Len(whole) = q + k
            /\ \A i \in 1..(q + k) : whole[i] = IF i <= q THEN front[i] ELSE incoming[i - q]
        BY <3>3, ConcatProperties
      <3>2. q = p + t
        BY <2>6 DEF q
      <3> HIDE DEF q, whole, k
      <3> QED BY <3>1, <3>2
    <2> HIDE DEF p, t, k, C, s, front, whole
    <2>8. ASSUME NEW i \in 1..arrived PROVE whole[i] = i
      <3>1. CASE i <= p
        <4>1. i \in 1..p /\ i \in 1..(p + t) /\ i \in 1..((p + t) + k) /\ i <= p + t
          BY <2>2, <2>4, <3>1
        <4> QED BY <2>2, <2>6, <2>7, <3>1, <4>1
      <3>2. CASE ~(i <= p) /\ i <= p + t
        <4>1. /\ i - p \in 1..t /\ i \in 1..(p + t) /\ i \in 1..((p + t) + k)
              /\ p + (i - p) = i
          BY <2>2, <2>4, <3>2
        <4> QED BY <2>2, <2>5, <2>6, <2>7, <3>2, <4>1
      <3>3. CASE ~(i <= p + t)
        <4> DEFINE m == i - (p + t)
        <4>1. m \in 1..k /\ i \in 1..((p + t) + k) /\ p + t + m = i
          BY <2>2, <2>4, <3>3
        <4>2. whole[i] = incoming[m]
          BY <2>7, <3>3, <4>1
        <4> HIDE DEF m
        <4> QED BY <2>2, <4>1, <4>2
      <3> QED BY <2>4, <3>1, <3>2, <3>3
    <2> DEFINE u == Bytes(0, arrived)
    <2>9. u \in Seq(V) /\ Len(u) = arrived /\ \A i \in 1..arrived : u[i] = i
      <3>1. /\ u \in Seq((0 + 1)..(0 + arrived)) /\ Len(u) = arrived
            /\ \A i \in 1..arrived : u[i] = 0 + i
        BY <2>1, BytesNumbered
      <3> HIDE DEF u
      <3>2. (0 + 1)..(0 + arrived) = 1..arrived /\ \A i \in 1..arrived : 0 + i = i
        BY <2>1
      <3> QED BY <2>3, <3>1, <3>2, SeqMonotonic
    <2> HIDE DEF u
    <2>10. whole = u
      <3>1. Len(whole) = Len(u) /\ \A i \in 1..Len(whole) : whole[i] = u[i]
        BY <2>2, <2>4, <2>7, <2>8, <2>9
      <3> QED BY <2>7, <2>9, <3>1, SeqEqual
    <2> QED BY <2>10 DEF whole, front, s, t, C, u
  <1> QED BY <1>1, IInvHolds, PTL

\* Every byte handed to send is in outputBuffer_ once or has been drained from it, in
\* every order of sends, partial or failed writes and completion callbacks, for blocks
\* of any size (sendInLoop, handleWrite, bufferAdd, bufferDrain).
THEOREM BytesAccounted == Spec => []OutputAccounted
  <1>1. IInv => OutputAccounted
    <2> SUFFICES ASSUME IInv PROVE OutputAccounted
      OBVIOUS
    <2> DEFINE held == Contents(outputBuffer)
    <2>1. /\ sent \in Nat /\ Accounted(outputBuffer, drained, sent)
          /\ writing => outputBuffer.total > 0
      BY BoundsAssumption DEF IInv, OutputInv
    <2>2. /\ Len(held) = Size(outputBuffer) /\ held \in Seq(1..sent)
          /\ Range(held) = (1..sent) \ drained
      BY <2>1, AccountedFacts
    <2>3. outputBuffer.total = Size(outputBuffer)
          /\ Size(outputBuffer) + Cardinality(drained) = sent
      BY <2>1 DEF Accounted
    <2>4. {held[i] : i \in DOMAIN held} = (1..sent) \ drained
      BY <2>2 DEF Range
    <2> HIDE DEF held
    <2> QED BY <2>1, <2>2, <2>3, <2>4 DEF OutputAccounted, held
  <1> QED BY <1>1, IInvHolds, PTL
=============================================================================
