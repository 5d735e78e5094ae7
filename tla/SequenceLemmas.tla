--------------------------- MODULE SequenceLemmas ---------------------------
(***************************************************************************)
(* Facts about sequences and about functions on intervals of numbers, for  *)
(* the proofs about features and patterns.  Induction is by the least      *)
(* counterexample.                                                         *)
(***************************************************************************)
EXTENDS Integers, Sequences, SequencesExt, SequenceTheorems,
        WellFoundedInduction, TLAPS

\* A set of numbers that is not empty has a least element.
LEMMA NatMin ==
  ASSUME NEW T \in SUBSET Nat, T # {}
  PROVE  \E n \in T : \A m \in T : n <= m
<1> DEFINE R == OpToRel(<, Nat)
<1>1. IsWellFoundedOn(R, Nat)
  BY NatLessThanWellFounded, Zenon
<1>2. \A x, y \in Nat : x < y => <<x, y>> \in R
  BY DEF OpToRel
<1> HIDE DEF R
<1>3. PICK n \in T : \A m \in T : ~(<<m, n>> \in R)
  BY <1>1, WFMin
<1>4. \A m \in T : ~(m < n)
  BY <1>2, <1>3
<1>5. \A m \in T : n <= m
  BY <1>4
<1> QED
  BY <1>5

\* The function in the definition of FlattenSeq, for the first n sequences.
IsFlat(f, s, n) ==
  f = [i \in 1 .. n |-> IF i = 1 THEN s[i] ELSE f[i - 1] \o s[i]]

\* There is one.
LEMMA FlatExists ==
  ASSUME NEW s, NEW n \in Nat
  PROVE  \E f : IsFlat(f, s, n)
<1> DEFINE T == {k \in Nat : ~\E f : IsFlat(f, s, k)}
<1> SUFFICES ASSUME T # {} PROVE FALSE
  OBVIOUS
<1>1. T \in SUBSET Nat
  OBVIOUS
<1>2. PICK k \in T : \A m \in T : k <= m
  BY <1>1, NatMin
<1>3. k \in Nat /\ ~\E f : IsFlat(f, s, k)
  OBVIOUS
<1>4. CASE k = 0
  <2> DEFINE f == [i \in 1 .. 0 |-> s[i]]
  <2>1. IsFlat(f, s, 0)
    BY DEF IsFlat
  <2> QED
    BY <1>3, <1>4, <2>1
<1>5. CASE k # 0
  <2>1. k - 1 \in Nat /\ k - 1 \notin T
    BY <1>2, <1>3, <1>5
  <2>2. PICK g : IsFlat(g, s, k - 1)
    BY <2>1
  <2> DEFINE f == [i \in 1 .. k |-> IF i = k THEN IF k = 1 THEN s[k] ELSE g[k - 1] \o s[k]
                                              ELSE g[i]]
  <2>3. \A i \in 1 .. k - 1 : f[i] = g[i]
    BY <1>3
  <2>4. \A i \in 1 .. k - 1 : g[i] = IF i = 1 THEN s[i] ELSE g[i - 1] \o s[i]
    BY <2>2 DEF IsFlat
  <2>5. \A i \in 1 .. k : f[i] = IF i = 1 THEN s[i] ELSE f[i - 1] \o s[i]
    <3> SUFFICES ASSUME NEW i \in 1 .. k
                 PROVE  f[i] = IF i = 1 THEN s[i] ELSE f[i - 1] \o s[i]
      OBVIOUS
    <3>1. CASE i = k
      <4>1. CASE k = 1
        BY <3>1, <4>1
      <4>2. CASE k # 1
        <5>1. f[i] = g[k - 1] \o s[k]
          BY <3>1, <4>2
        <5>2. f[k - 1] = g[k - 1]
          BY <1>3, <1>5, <2>3, <4>2
        <5> HIDE DEF f
        <5> QED
          BY <3>1, <4>2, <5>1, <5>2
      <4> QED
        BY <4>1, <4>2
    <3>2. CASE i # k
      <4>1. i \in 1 .. k - 1 /\ (i # 1 => i - 1 \in 1 .. k - 1)
        BY <1>3, <3>2
      <4> HIDE DEF f
      <4> QED
        BY <2>3, <2>4, <4>1
    <3> QED
      BY <3>1, <3>2
  <2>6. IsFlat(f, s, k)
    <3>1. f = [i \in 1 .. k |-> f[i]]
      OBVIOUS
    <3> HIDE DEF f
    <3> QED
      BY <2>5, <3>1 DEF IsFlat
  <2> HIDE DEF f
  <2> QED
    BY <1>3, <2>6
<1> QED
  BY <1>4, <1>5

\* Two functions agree up to n.
Agree(f, g, n) == \A i \in 1 .. n : f[i] = g[i]

\* Where two lists of sequences agree, so do their functions.
LEMMA FlatAgree ==
  ASSUME NEW s, NEW t, NEW n \in Nat, NEW m \in Nat, n <= m, NEW f, NEW g,
         IsFlat(f, s, n), IsFlat(g, t, m), Agree(s, t, n)
  PROVE  Agree(f, g, n)
<1> DEFINE T == {i \in 1 .. n : f[i] # g[i]}
<1> SUFFICES ASSUME T # {} PROVE FALSE
  BY DEF Agree
<1>1. T \in SUBSET Nat
  OBVIOUS
<1>2. PICK i \in T : \A j \in T : i <= j
  BY <1>1, NatMin
<1>3. i \in 1 .. n /\ f[i] # g[i]
  OBVIOUS
<1>4. i \in 1 .. n /\ i \in 1 .. m
  BY <1>3
<1>5. f[i] = IF i = 1 THEN s[i] ELSE f[i - 1] \o s[i]
  BY <1>4, Zenon DEF IsFlat
<1>6. g[i] = IF i = 1 THEN t[i] ELSE g[i - 1] \o t[i]
  BY <1>4, Zenon DEF IsFlat
<1>7. s[i] = t[i]
  BY <1>3 DEF Agree
<1>8. CASE i = 1
  BY <1>3, <1>5, <1>6, <1>7, <1>8
<1>9. CASE i # 1
  <2>1. i - 1 \in 1 .. n /\ i - 1 \notin T
    BY <1>2, <1>3, <1>9
  <2>2. f[i - 1] = g[i - 1]
    BY <2>1
  <2> QED
    BY <1>3, <1>5, <1>6, <1>7, <1>9, <2>2
<1> QED
  BY <1>8, <1>9

\* FlattenSeq is the last value of that function.
LEMMA FlattenIs ==
  ASSUME NEW s, Len(s) \in Nat, Len(s) # 0
  PROVE  \E f : IsFlat(f, s, Len(s)) /\ FlattenSeq(s) = f[Len(s)]
<1> DEFINE f == CHOOSE g : g = [i \in 1 .. Len(s) |-> IF i = 1 THEN s[i] ELSE g[i - 1] \o s[i]]
<1>1. FlattenSeq(s) = f[Len(s)]
  BY Zenon DEF FlattenSeq
<1>2. \E g : g = [i \in 1 .. Len(s) |-> IF i = 1 THEN s[i] ELSE g[i - 1] \o s[i]]
  BY FlatExists DEF IsFlat
<1>3. f = [i \in 1 .. Len(s) |-> IF i = 1 THEN s[i] ELSE f[i - 1] \o s[i]]
  BY <1>2, Zenon
<1> HIDE DEF f
<1>4. IsFlat(f, s, Len(s))
  BY <1>3 DEF IsFlat
<1> QED
  BY <1>1, <1>4

\* Flattening one sequence more puts it at the end.
LEMMA FlattenAppend ==
  ASSUME NEW X, NEW s \in Seq(Seq(X)), NEW e \in Seq(X)
  PROVE  FlattenSeq(Append(s, e)) = FlattenSeq(s) \o e
<1> DEFINE t == Append(s, e)
           n == Len(s)
<1>1. n \in Nat /\ Len(t) = n + 1 /\ t[n + 1] = e /\ \A i \in 1 .. n : s[i] = t[i]
  OBVIOUS
<1> HIDE DEF t, n
<1>2. PICK f : IsFlat(f, t, n + 1) /\ FlattenSeq(t) = f[n + 1]
  BY <1>1, FlattenIs
<1>3. f[n + 1] = IF n + 1 = 1 THEN t[n + 1] ELSE f[(n + 1) - 1] \o t[n + 1]
  <2>1. n + 1 \in 1 .. n + 1
    BY <1>1
  <2> QED
    BY <1>2, <2>1, Zenon DEF IsFlat
<1>4. CASE n = 0
  <2>1. f[n + 1] = e
    BY <1>1, <1>3, <1>4
  <2>2. s = << >>
    BY <1>4 DEF n
  <2>3. FlattenSeq(s) = s
    BY <1>4, Zenon DEF FlattenSeq, n
  <2>4. << >> \o e = e
    OBVIOUS
  <2> QED
    BY <1>2, <2>1, <2>2, <2>3, <2>4 DEF t
<1>5. CASE n # 0
  <2>1. PICK g : IsFlat(g, s, n) /\ FlattenSeq(s) = g[n]
    BY <1>1, <1>5, FlattenIs DEF n
  <2>2. \A i \in 1 .. n : g[i] = f[i]
    <3> DEFINE o == n + 1
    <3>1. n <= o /\ n \in Nat /\ o \in Nat
      BY <1>1
    <3>2. IsFlat(g, s, n) /\ IsFlat(f, t, o)
      BY <1>2, <2>1
    <3>3. Agree(s, t, n)
      BY <1>1 DEF Agree
    <3> HIDE DEF o
    <3>4. Agree(g, f, n)
      BY <3>1, <3>2, <3>3, FlatAgree
    <3> QED
      BY <3>4 DEF Agree
  <2>3. g[n] = f[n]
    BY <1>1, <1>5, <2>2
  <2>4. f[n + 1] = f[n] \o e
    BY <1>1, <1>3, <1>5
  <2> QED
    BY <1>2, <2>1, <2>3, <2>4 DEF t
<1> QED
  BY <1>4, <1>5

\* Nothing flattened is nothing.
LEMMA FlattenNone == FlattenSeq(<< >>) = << >>
<1>1. Len(<< >>) = 0
  OBVIOUS
<1> QED
  BY <1>1, Zenon DEF FlattenSeq

\* The elements of the result are elements of the parts.
LEMMA FlattenType ==
  ASSUME NEW X, NEW s \in Seq(Seq(X))
  PROVE  FlattenSeq(s) \in Seq(X)
<1>1. Len(s) \in Nat
  OBVIOUS
<1>2. CASE Len(s) = 0
  <2>1. s = << >>
    BY <1>2
  <2>2. FlattenSeq(s) = << >>
    BY <2>1, FlattenNone, Zenon
  <2> QED
    BY <2>2
<1>3. CASE Len(s) # 0
  <2>1. PICK f : IsFlat(f, s, Len(s)) /\ FlattenSeq(s) = f[Len(s)]
    BY <1>1, <1>3, FlattenIs
  <2> DEFINE T == {i \in 1 .. Len(s) : f[i] \notin Seq(X)}
  <2>2. T = {}
    <3> SUFFICES ASSUME T # {} PROVE FALSE
      OBVIOUS
    <3>1. T \in SUBSET Nat
      OBVIOUS
    <3>2. PICK i \in T : \A j \in T : i <= j
      BY <3>1, NatMin
    <3>3. i \in 1 .. Len(s) /\ f[i] \notin Seq(X) /\ s[i] \in Seq(X)
      OBVIOUS
    <3>4. f[i] = IF i = 1 THEN s[i] ELSE f[i - 1] \o s[i]
      BY <2>1, <3>3, Zenon DEF IsFlat
    <3>5. CASE i = 1
      BY <3>3, <3>4, <3>5
    <3>6. CASE i # 1
      <4>1. i - 1 \in 1 .. Len(s) /\ i - 1 \notin T
        BY <3>2, <3>3, <3>6
      <4>2. f[i - 1] \in Seq(X)
        BY <4>1
      <4>3. f[i - 1] \o s[i] \in Seq(X)
        BY <3>3, <4>2
      <4> QED
        BY <3>3, <3>4, <3>6, <4>3
    <3> QED
      BY <3>5, <3>6
  <2> QED
    BY <1>1, <1>3, <2>1, <2>2
<1> QED
  BY <1>2, <1>3

\* Reversing a concatenation reverses the order of its parts.
LEMMA ReverseConcat ==
  ASSUME NEW X, NEW s \in Seq(X), NEW t \in Seq(X)
  PROVE  /\ Reverse(s) \in Seq(X)
         /\ Reverse(s \o t) = Reverse(t) \o Reverse(s)
<1>1. \A u \in Seq(X) : /\ Reverse(u) \in Seq(X) /\ Len(Reverse(u)) = Len(u)
                        /\ \A i \in 1 .. Len(u) : Reverse(u)[i] = u[(Len(u) - i) + 1]
  BY DEF Reverse
<1> DEFINE m == Len(s)
           n == Len(t)
           l == Reverse(s \o t)
           r == Reverse(t) \o Reverse(s)
<1>2. s \o t \in Seq(X) /\ Len(s \o t) = m + n /\ m \in Nat /\ n \in Nat
  OBVIOUS
<1>3. l \in Seq(X) /\ Len(l) = m + n
  BY <1>1, <1>2
<1>4. r \in Seq(X) /\ Len(r) = m + n
  <2>1. /\ Reverse(t) \in Seq(X) /\ Len(Reverse(t)) = n
        /\ Reverse(s) \in Seq(X) /\ Len(Reverse(s)) = m
    BY <1>1
  <2> QED
    BY <1>2, <2>1
<1>5. ASSUME NEW i \in 1 .. m + n PROVE l[i] = r[i]
  <2> DEFINE u == s \o t
  <2>1. l[i] = u[((m + n) - i) + 1]
    <3>1. u \in Seq(X) /\ Len(u) = m + n /\ l = Reverse(u)
      BY <1>2
    <3> HIDE DEF u, m, n, l
    <3> QED
      BY <1>1, <3>1
  <2>2. CASE i <= n
    <3>1. r[i] = Reverse(t)[i]
      BY <1>1, <1>2, <2>2
    <3>2. Reverse(t)[i] = t[(n - i) + 1]
      BY <1>1, <1>2, <2>2
    <3>3. (s \o t)[((m + n) - i) + 1] = t[(n - i) + 1]
      BY <1>2, <2>2
    <3> QED
      BY <2>1, <3>1, <3>2, <3>3
  <2>3. CASE ~(i <= n)
    <3>1. r[i] = Reverse(s)[i - n]
      BY <1>1, <1>2, <2>3
    <3>2. Reverse(s)[i - n] = s[(m - (i - n)) + 1]
      BY <1>1, <1>2, <2>3
    <3>3. (s \o t)[((m + n) - i) + 1] = s[(m - (i - n)) + 1]
      BY <1>2, <2>3
    <3> QED
      BY <2>1, <3>1, <3>2, <3>3
  <2> QED
    BY <2>2, <2>3
<1> HIDE DEF l, r, m, n
<1>6. l = r
  BY <1>2, <1>3, <1>4, <1>5
<1> QED
  BY <1>1, <1>6 DEF l, r

\* A set of numbers with an upper bound that is not empty has a greatest
\* element.
LEMMA NatMax ==
  ASSUME NEW n \in Nat, NEW T \in SUBSET (0 .. n), T # {}
  PROVE  \E k \in T : \A j \in T : j <= k
<1> DEFINE D == {n - k : k \in T}
<1>1. D \in SUBSET Nat /\ D # {}
  <2>1. \A k \in T : k \in 0 .. n
    OBVIOUS
  <2>2. \A k \in T : n - k \in Nat
    BY <2>1
  <2>3. PICK k \in T : TRUE
    OBVIOUS
  <2>4. n - k \in D
    OBVIOUS
  <2> QED
    BY <2>2, <2>4
<1>2. PICK d \in D : \A e \in D : d <= e
  <2> HIDE DEF D
  <2> QED
    BY <1>1, NatMin
<1>3. PICK k \in T : d = n - k
  OBVIOUS
<1>4. ASSUME NEW j \in T PROVE j <= k
  <2>1. n - j \in D
    OBVIOUS
  <2>2. d <= n - j
    BY <1>2, <2>1
  <2> QED
    BY <1>3, <2>2
<1> QED
  BY <1>4

\* One place more at the end of a subsequence.
LEMMA SubSeqAppend ==
  ASSUME NEW Y, NEW s \in Seq(Y), NEW m \in 1 .. Len(s), NEW n \in m .. Len(s)
  PROVE  SubSeq(s, m, n) = Append(SubSeq(s, m, n - 1), s[n])
<1> DEFINE a == SubSeq(s, m, n - 1)
           e == s[n]
<1>1. SubSeq(s, m, n) = a \o <<e>>
  BY SubSeqRecursiveSecond
<1>2. a \in Seq(Y) /\ e \in Y
  <2>1. \A i \in m .. n - 1 : s[i] \in Y
    OBVIOUS
  <2>2. e \in Y
    OBVIOUS
  <2>3. m \in Int /\ n - 1 \in Int
    OBVIOUS
  <2> QED
    BY <2>1, <2>2, <2>3, SubSeqProperties
<1> HIDE DEF a, e
<1>3. Append(a, e) = a \o <<e>>
  BY <1>2, AppendIsConcat
<1> QED
  BY <1>1, <1>3 DEF a, e

\* What a list of sequences from the k-th on flattens to begins with the k-th.
LEMMA FlattenFrom ==
  ASSUME NEW X, NEW s \in Seq(Seq(X)), NEW k \in 1 .. Len(s)
  PROVE  FlattenSeq(SubSeq(s, k, Len(s))) = s[k] \o FlattenSeq(SubSeq(s, k + 1, Len(s)))
<1> DEFINE P(j) == FlattenSeq(SubSeq(s, k, j)) = s[k] \o FlattenSeq(SubSeq(s, k + 1, j))
           T == {j \in k .. Len(s) : ~P(j)}
<1>0. Len(s) \in Nat /\ Len(s) \in k .. Len(s)
  OBVIOUS
<1> HIDE DEF P
<1> SUFFICES ASSUME T # {} PROVE FALSE
  BY <1>0 DEF P
<1>1. T \in SUBSET Nat
  BY <1>0
<1>2. PICK j \in T : \A i \in T : j <= i
  BY <1>1, NatMin
<1>3. j \in k .. Len(s) /\ ~P(j)
  OBVIOUS
<1>4. s[k] \in Seq(X) /\ s[j] \in Seq(X)
  BY <1>3
<1>5. CASE j = k
  <2>1. SubSeq(s, k, k) = Append(<< >>, s[k]) /\ SubSeq(s, k + 1, k) = << >>
    <3>1. k \in k .. Len(s)
      OBVIOUS
    <3>2. SubSeq(s, k, k) = Append(SubSeq(s, k, k - 1), s[k])
      BY <3>1, SubSeqAppend
    <3>3. SubSeq(s, k + 1, k) = << >> /\ SubSeq(s, k, k - 1) = << >>
      BY SubSeqEmpty
    <3> QED
      BY <3>2, <3>3
  <2>2. FlattenSeq(Append(<< >>, s[k])) = FlattenSeq(<< >>) \o s[k]
    <3> DEFINE z == << >>
               e == s[k]
    <3>1. z \in Seq(Seq(X)) /\ e \in Seq(X)
      BY <1>4
    <3> HIDE DEF z, e
    <3>2. FlattenSeq(Append(z, e)) = FlattenSeq(z) \o e
      BY <3>1, FlattenAppend
    <3> QED
      BY <3>2 DEF z, e
  <2>3. << >> \o s[k] = s[k] /\ s[k] \o << >> = s[k]
    BY <1>4
  <2> QED
    BY <1>3, <1>5, <2>1, <2>2, <2>3, FlattenNone DEF P
<1>6. CASE j # k
  <2>1. j - 1 \in k .. Len(s) /\ j - 1 \notin T
    BY <1>2, <1>3, <1>6
  <2>2. P(j - 1)
    BY <2>1
  <2> DEFINE a == SubSeq(s, k, j - 1)
             b == SubSeq(s, k + 1, j - 1)
             e == s[j]
  <2>3. a \in Seq(Seq(X)) /\ b \in Seq(Seq(X)) /\ e \in Seq(X)
    BY <1>4, <2>1, SMTT(20)
  <2>4. SubSeq(s, k, j) = Append(a, e) /\ SubSeq(s, k + 1, j) = Append(b, e)
    <3>1. j \in k .. Len(s) /\ k + 1 \in 1 .. Len(s) /\ j \in k + 1 .. Len(s)
      BY <1>3, <1>6
    <3> QED
      BY <3>1, SubSeqAppend
  <2> HIDE DEF T
  <2>5. FlattenSeq(a) = s[k] \o FlattenSeq(b)
    BY <2>2 DEF P
  <2> HIDE DEF a, b, e
  <2>6. /\ FlattenSeq(Append(a, e)) = FlattenSeq(a) \o e
        /\ FlattenSeq(Append(b, e)) = FlattenSeq(b) \o e
    BY <2>3, FlattenAppend
  <2>7. FlattenSeq(b) \in Seq(X)
    BY <2>3, FlattenType
  <2>8. (s[k] \o FlattenSeq(b)) \o e = s[k] \o (FlattenSeq(b) \o e)
    <3> DEFINE p == s[k]
               q == FlattenSeq(b)
    <3>1. p \in Seq(X) /\ q \in Seq(X) /\ e \in Seq(X)
      BY <1>4, <2>3, <2>7
    <3> HIDE DEF p, q
    <3>2. (p \o q) \o e = p \o (q \o e)
      BY <3>1, SMT
    <3> QED
      BY <3>2 DEF p, q
  <2>9. P(j)
    BY <2>4, <2>5, <2>6, <2>8 DEF P
  <2> QED
    BY <1>3, <2>9
<1> QED
  BY <1>5, <1>6

\* b gives places later than their arguments, and f is computed from the
\* values at those places.
Later(b, n) == \A i \in 1 .. n : b[i] > i
Descends(f, m, n, c, b, d) == \A i \in 1 .. m : f[i] = IF i > n THEN c ELSE d[i][f[b[i]]]

\* A function on 1 .. m whose value at i is computed from its value at a
\* later place b[i], and is given after n, exists.
LEMMA RecursionDown ==
  ASSUME NEW V, NEW m \in Nat, NEW n \in 0 .. m, NEW c \in V,
         NEW b \in [1 .. n -> 1 .. m], Later(b, n), NEW d \in [1 .. n -> [V -> V]]
  PROVE  \E f \in [1 .. m -> V] : Descends(f, m, n, c, b, d)
<1>0. \A i \in 1 .. n : b[i] > i
  BY DEF Later
<1> DEFINE Right(f, i) == f[i] = IF i > n THEN c ELSE d[i][f[b[i]]]
           P(k) == \E f \in [1 .. m -> V] : \A i \in 1 .. m : i > n - k => Right(f, i)
           T == {k \in 0 .. n : ~P(k)}
<1>1. P(0)
  <2> DEFINE f == [i \in 1 .. m |-> c]
  <2>1. f \in [1 .. m -> V] /\ \A i \in 1 .. m : i > n => Right(f, i)
    OBVIOUS
  <2> HIDE DEF f, Right
  <2>2. n - 0 = n
    OBVIOUS
  <2> QED
    BY <2>1, <2>2
<1> HIDE DEF P
<1>2. T = {}
  <2> SUFFICES ASSUME T # {} PROVE FALSE
    OBVIOUS
  <2>1. T \in SUBSET Nat
    OBVIOUS
  <2>2. PICK k \in T : \A j \in T : k <= j
    BY <2>1, NatMin
  <2>3. k \in 0 .. n /\ ~P(k) /\ k # 0
    BY <1>1
  <2>4. k - 1 \in 0 .. n /\ k - 1 \notin T
    BY <2>2, <2>3
  <2>5. P(k - 1)
    BY <2>4
  <2>6. PICK g \in [1 .. m -> V] : \A i \in 1 .. m : i > n - (k - 1) => Right(g, i)
    BY <2>5 DEF P
  <2> DEFINE a == n - (k - 1)
             f == [g EXCEPT ![a] = d[a][g[b[a]]]]
  <2>7. a \in 1 .. n /\ a \in 1 .. m /\ b[a] \in 1 .. m /\ b[a] > a
    BY <1>0, <2>3
  <2>8. g[b[a]] \in V /\ d[a] \in [V -> V]
    BY <2>7
  <2>9. d[a][g[b[a]]] \in V
    BY <2>8
  <2>10. f \in [1 .. m -> V] /\ f[a] = d[a][g[b[a]]] /\ \A i \in 1 .. m : i # a => f[i] = g[i]
    BY <2>7, <2>9
  <2> HIDE DEF f, a
  <2>11. ASSUME NEW i \in 1 .. m, i > n - k PROVE Right(f, i)
    <3>1. CASE i = a
      <4>1. f[b[a]] = g[b[a]] /\ ~(a > n)
        BY <2>7, <2>10
      <4> QED
        BY <2>10, <3>1, <4>1
    <3>2. CASE i # a
      <4>1. i > a
        BY <2>3, <2>11, <3>2 DEF a
      <4>2. Right(g, i) /\ f[i] = g[i]
        BY <2>6, <2>10, <3>2, <4>1 DEF a
      <4>3. CASE i > n
        BY <4>2, <4>3
      <4>4. CASE ~(i > n)
        <5>1. b[i] \in 1 .. m /\ b[i] # a
          BY <1>0, <2>7, <4>1, <4>4
        <5>2. f[b[i]] = g[b[i]]
          BY <2>10, <5>1
        <5> QED
          BY <4>2, <4>4, <5>2
      <4> QED
        BY <4>3, <4>4
    <3> QED
      BY <3>1, <3>2
  <2> HIDE DEF Right
  <2> QED
    BY <2>3, <2>10, <2>11 DEF P
<1>3. P(n)
  BY <1>2
<1>4. n - n = 0
  OBVIOUS
<1> QED
  BY <1>3, <1>4 DEF P, Descends

\* The k-th sequence of s and all after it, put together, and then e.
From(s, e, k) == FlattenSeq(SubSeq(s, k, Len(s))) \o e

\* It is a sequence of the same elements.
LEMMA FromType ==
  ASSUME NEW X, NEW s \in Seq(Seq(X)), NEW e \in Seq(X), NEW k \in 1 .. Len(s) + 1
  PROVE  From(s, e, k) \in Seq(X)
<1> DEFINE r == SubSeq(s, k, Len(s))
<1>1. r \in Seq(Seq(X))
  <2>1. \A i \in k .. Len(s) : s[i] \in Seq(X)
    OBVIOUS
  <2>2. k \in Int /\ Len(s) \in Int
    OBVIOUS
  <2> QED
    BY <2>1, <2>2, SubSeqProperties
<1>2. From(s, e, k) = FlattenSeq(r) \o e
  BY DEF From
<1> HIDE DEF r
<1>3. FlattenSeq(r) \in Seq(X)
  BY <1>1, FlattenType
<1> DEFINE q == FlattenSeq(r)
<1> HIDE DEF q
<1>4. q \in Seq(X)
  BY <1>3 DEF q
<1>5. q \o e \in Seq(X)
  BY <1>4
<1> QED
  BY <1>2, <1>5 DEF q

\* It begins with the k-th sequence.
LEMMA FromStep ==
  ASSUME NEW X, NEW s \in Seq(Seq(X)), NEW e \in Seq(X), NEW k \in 1 .. Len(s)
  PROVE  From(s, e, k) = s[k] \o From(s, e, k + 1)
<1> DEFINE r == SubSeq(s, k + 1, Len(s))
           p == s[k]
<1>1. r \in Seq(Seq(X)) /\ p \in Seq(X)
  <2>1. \A i \in k + 1 .. Len(s) : s[i] \in Seq(X)
    OBVIOUS
  <2>2. k + 1 \in Int /\ Len(s) \in Int
    OBVIOUS
  <2> QED
    BY <2>1, <2>2, SubSeqProperties
<1>2. FlattenSeq(SubSeq(s, k, Len(s))) = p \o FlattenSeq(r)
  BY FlattenFrom
<1>3. /\ From(s, e, k) = FlattenSeq(SubSeq(s, k, Len(s))) \o e
      /\ From(s, e, k + 1) = FlattenSeq(r) \o e
  BY DEF From
<1> HIDE DEF r, p
<1>4. FlattenSeq(r) \in Seq(X)
  BY <1>1, FlattenType
<1> DEFINE q == FlattenSeq(r)
<1> HIDE DEF q
<1>5. q \in Seq(X) /\ p \in Seq(X) /\ e \in Seq(X)
  BY <1>1, <1>4 DEF q
<1>6. (p \o q) \o e = p \o (q \o e)
  BY <1>5, SMTT(20)
<1>7. From(s, e, k) = p \o From(s, e, k + 1)
  BY <1>2, <1>3, <1>6 DEF q
<1> QED
  BY <1>7 DEF p

\* After the last sequence only e is left.
LEMMA FromEnd ==
  ASSUME NEW X, NEW s \in Seq(Seq(X)), NEW e \in Seq(X)
  PROVE  From(s, e, Len(s) + 1) = e
<1>1. SubSeq(s, Len(s) + 1, Len(s)) = << >>
  BY SubSeqEmpty
<1>2. << >> \o e = e
  OBVIOUS
<1> QED
  BY <1>1, <1>2, FlattenNone DEF From

\* From the first on it is all of s.
LEMMA FromAll ==
  ASSUME NEW X, NEW s \in Seq(Seq(X)), NEW e
  PROVE  From(s, e, 1) = FlattenSeq(s) \o e
<1>1. SubSeq(s, 1, Len(s)) = s
  BY SubSeqFull
<1> QED
  BY <1>1 DEF From

\* From place i on, s is w.
SuffixAt(s, i, w) ==
  /\ i \in 1 .. Len(s) + 1
  /\ Len(s) = i + Len(w) - 1
  /\ \A j \in 1 .. Len(w) : s[i + j - 1] = w[j]

\* A suffix without its first part is a suffix again.
LEMMA SuffixStep ==
  ASSUME NEW X, NEW s \in Seq(X), NEW i, NEW u \in Seq(X), NEW w \in Seq(X),
         SuffixAt(s, i, u \o w)
  PROVE  /\ i \in 1 .. Len(s) + 1 /\ i + Len(u) <= Len(s) + 1
         /\ \A j \in 1 .. Len(u) : s[i + j - 1] = u[j]
         /\ SuffixAt(s, i + Len(u), w)
<1>1. i \in 1 .. Len(s) + 1 /\ Len(s) = i + (Len(u) + Len(w)) - 1
  BY DEF SuffixAt
<1>2. \A j \in 1 .. Len(u) + Len(w) : s[i + j - 1] = (u \o w)[j]
  BY DEF SuffixAt
<1>3. \A j \in 1 .. Len(u) : j \in 1 .. Len(u) + Len(w) /\ (u \o w)[j] = u[j]
  OBVIOUS
<1>4. ASSUME NEW j \in 1 .. Len(w) PROVE s[i + Len(u) + j - 1] = w[j]
  <2>1. Len(u) + j \in 1 .. Len(u) + Len(w) /\ (u \o w)[Len(u) + j] = w[j]
    OBVIOUS
  <2>2. s[i + (Len(u) + j) - 1] = w[j]
    BY <1>2, <2>1
  <2>3. i + (Len(u) + j) - 1 = i + Len(u) + j - 1
    BY <1>1
  <2> QED
    BY <2>2, <2>3
<1>5. i + Len(u) \in 1 .. Len(s) + 1 /\ Len(s) = i + Len(u) + Len(w) - 1
  BY <1>1
<1> QED
  BY <1>1, <1>2, <1>3, <1>4, <1>5 DEF SuffixAt

\* A sequence is its own suffix.
LEMMA SuffixAll ==
  ASSUME NEW X, NEW s \in Seq(X)
  PROVE  SuffixAt(s, 1, s)
BY DEF SuffixAt

=============================================================================
