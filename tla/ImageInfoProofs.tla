-------------------------- MODULE ImageInfoProofs ---------------------------
(***************************************************************************)
(* The walks of ImageInfo over an image, for every image that a linker     *)
(* writes: any number and size of relocation blocks, libraries and import  *)
(* tables.  What the images are made of is laid end to end by FlattenSeq;  *)
(* where each part is in the whole is proved first (FlattenParts).         *)
(***************************************************************************)
EXTENDS RelocationWalk, ImportWalk, TLAPS, SequenceTheorems, FiniteSetTheorems

-----------------------------------------------------------------------------
(***************************************************************************)
(* Numbers.                                                                *)
(***************************************************************************)

\* Every nonempty set of numbers has a least element.
LEMMA LeastElement ==
  ASSUME NEW T \in SUBSET Nat, T # {}
  PROVE  \E x \in T : \A y \in T : x <= y
<1> DEFINE Intervals == {0..t : t \in T}
           Order == StrictSubsetOrdering(Nat)
<1>1. Intervals \subseteq FiniteSubsetsOf(Nat)
  <2>1. \A t \in T : 0..t \subseteq Nat /\ IsFiniteSet(0..t)
    BY FS_Interval
  <2> QED BY <2>1 DEF FiniteSubsetsOf
<1>2. Intervals # {}
  OBVIOUS
<1>3. PICK least \in Intervals : \A other \in Intervals : <<other, least>> \notin Order
  <2> HIDE DEF Intervals, Order
  <2>1. IsWellFoundedOn(Order, FiniteSubsetsOf(Nat))
    BY FS_StrictSubsetOrderingWellFounded DEF Order
  <2> QED BY <1>1, <1>2, <2>1, WFMin
<1>4. PICK x \in T : least = 0..x
  OBVIOUS
<1>5. \A y \in T : y < x => <<0..y, 0..x>> \in Order
  BY DEF StrictSubsetOrdering
<1>6. \A y \in T : ~(y < x)
  BY <1>3, <1>4, <1>5
<1> QED BY <1>6

\* A set that has 0 and with each number below n the next has all up to n.
LEMMA AllUpTo ==
  ASSUME NEW n \in Nat, NEW Good, 0 \in Good,
         \A m \in 0..n : m \in Good /\ m < n => m + 1 \in Good
  PROVE  \A m \in 0..n : m \in Good
<1> DEFINE Bad == {m \in 0..n : m \notin Good}
<1>1. CASE Bad # {}
  <2>1. PICK m \in Bad : \A k \in Bad : m <= k
    <3>1. Bad \in SUBSET Nat
      OBVIOUS
    <3> QED BY <1>1, <3>1, LeastElement
  <2>2. m \in 0..n /\ m # 0 /\ m - 1 \in 0..n /\ m - 1 < n /\ m - 1 + 1 = m
    BY <2>1
  <2>3. m - 1 \notin Bad
    BY <2>1, <2>2
  <2> QED BY <2>1, <2>2, <2>3
<1> QED BY <1>1

LEMMA Division ==
  ASSUME NEW d \in Nat \ {0}, NEW a \in Nat
  PROVE  a \div d \in Nat /\ a % d \in 0..(d - 1) /\ a = d * (a \div d) + (a % d)
OBVIOUS

\* A number is divided in one way only.
LEMMA Quotient ==
  ASSUME NEW d \in Nat \ {0}, NEW a \in Nat, NEW q \in Nat, NEW r \in 0..(d - 1),
         a = d * q + r
  PROVE  a \div d = q /\ a % d = r
<1> DEFINE D == a \div d
           R == a % d
<1>1. D \in Nat /\ R \in 0..(d - 1) /\ d * D + R = d * q + r
  BY Division
<1> HIDE DEF D, R
<1>2. ASSUME NEW x \in Nat, NEW y \in Nat, NEW u \in 0..(d - 1), NEW v \in 0..(d - 1),
             x < y, d * x + u = d * y + v
      PROVE  FALSE
  <2>1. y - x - 1 \in Nat
    BY <1>2
  <2>2. PICK e \in Nat : y = x + 1 + e
    BY <2>1
  <2>3. d * y = d * x + d + d * e /\ d * e >= 0
    BY <2>2
  <2>4. d * x \in Nat /\ d * y \in Nat /\ d * e \in Nat
    OBVIOUS
  <2> QED BY ONLY <1>2, <2>3, <2>4, d \in Nat, u \in 0..(d - 1), v \in 0..(d - 1)
<1>3. D = q
  BY <1>1, <1>2
<1> QED BY <1>1, <1>3 DEF D, R

-----------------------------------------------------------------------------
(***************************************************************************)
(* Sequences laid end to end.                                              *)
(***************************************************************************)

\* f[k] is the first k of the sequences, end to end.
Sums(S, n, seqs, f) ==
  /\ f \in [0..n -> Seq(S)] /\ f[0] = <<>>
  /\ \A k \in 1..n : f[k] = f[k - 1] \o seqs[k]

LEMMA SumsExist ==
  ASSUME NEW S, NEW n \in Nat, NEW seqs \in [1..n -> Seq(S)]
  PROVE  \E f : Sums(S, n, seqs, f)
<1> DEFINE Good == {m \in 0..n : \E f : Sums(S, m, seqs, f)}
<1>1. 0 \in Good
  <2> DEFINE f == [k \in 0..0 |-> <<>>]
  <2>1. <<>> \in Seq(S)
    BY EmptySeq
  <2>2. Sums(S, 0, seqs, f)
    BY <2>1 DEF Sums
  <2> QED BY <2>2
<1>2. ASSUME NEW m \in 0..n, m \in Good, m < n PROVE m + 1 \in Good
  <2>1. PICK f : Sums(S, m, seqs, f)
    BY <1>2
  <2> DEFINE g == [k \in 0..(m + 1) |-> IF k = m + 1 THEN f[m] \o seqs[m + 1] ELSE f[k]]
  <2>2. m \in Nat /\ m + 1 \in 1..n /\ m + 1 \in 0..n /\ m \in 0..m
    BY <1>2
  <2>3. f[m] \o seqs[m + 1] \in Seq(S)
    <3>1. f[m] \in Seq(S) /\ seqs[m + 1] \in Seq(S)
      BY <2>1, <2>2 DEF Sums
    <3> QED BY <3>1, ConcatProperties
  <2>4. g \in [0..(m + 1) -> Seq(S)]
    <3> SUFFICES ASSUME NEW k \in 0..(m + 1) PROVE g[k] \in Seq(S)
      OBVIOUS
    <3>1. k = m + 1 \/ k \in 0..m
      BY <2>2
    <3> QED BY <2>1, <2>2, <2>3, <3>1 DEF Sums
  <2>5. g[0] = <<>>
    BY <2>1, <2>2 DEF Sums
  <2>6. ASSUME NEW k \in 1..(m + 1) PROVE g[k] = g[k - 1] \o seqs[k]
    <3>1. CASE k = m + 1
      <4>1. k - 1 = m /\ m # m + 1 /\ m \in 0..(m + 1) /\ k \in 0..(m + 1)
        BY <2>2, <3>1
      <4>2. g[k] = f[m] \o seqs[k]
        BY <3>1, <4>1
      <4>3. g[k - 1] = f[m]
        BY <4>1
      <4> QED BY <4>2, <4>3
    <3>2. CASE k # m + 1
      <4>1. k \in 1..m /\ k \in 0..(m + 1) /\ k - 1 \in 0..(m + 1) /\ k - 1 # m + 1
        BY <2>2, <3>2
      <4>2. g[k] = f[k] /\ g[k - 1] = f[k - 1]
        BY <3>2, <4>1
      <4>3. f[k] = f[k - 1] \o seqs[k]
        BY <2>1, <4>1 DEF Sums
      <4> QED BY <4>2, <4>3
    <3> QED BY <3>1, <3>2
  <2> HIDE DEF g
  <2>7. Sums(S, m + 1, seqs, g)
    BY <2>4, <2>5, <2>6 DEF Sums
  <2> QED BY <2>2, <2>7
<1>3. n \in Good
  <2> HIDE DEF Good
  <2>1. \A m \in 0..n : m \in Good
    BY <1>1, <1>2, AllUpTo
  <2> QED BY <2>1
<1> QED BY <1>3

\* All of them end to end are what FlattenSeq makes.
LEMMA FlattenIs ==
  ASSUME NEW S, NEW n \in Nat, NEW seqs \in [1..n -> Seq(S)], NEW f, Sums(S, n, seqs, f)
  PROVE  FlattenSeq(seqs) = f[n]
<1>1. Len(seqs) = n
  OBVIOUS
<1>2. CASE n = 0
  <2>1. seqs = <<>>
    BY <1>2
  <2> QED BY <1>1, <1>2, <2>1 DEF FlattenSeq, Sums
<1>3. CASE n # 0
  <2> DEFINE P(w) == w = [k \in 1..n |-> IF k = 1 THEN seqs[k] ELSE w[k - 1] \o seqs[k]]
             flatten == CHOOSE w : P(w)
             g == [k \in 1..n |-> f[k]]
  <2>1. FlattenSeq(seqs) = flatten[n]
    BY <1>1, <1>3 DEF FlattenSeq
  <2>2. ASSUME NEW k \in 1..n
        PROVE  g[k] = IF k = 1 THEN seqs[k] ELSE g[k - 1] \o seqs[k]
    <3>1. f[k] = f[k - 1] \o seqs[k] /\ seqs[k] \in Seq(S)
      BY DEF Sums
    <3>2. CASE k = 1
      <4>1. f[k - 1] = <<>>
        BY <3>2 DEF Sums
      <4>2. <<>> \o seqs[k] = seqs[k]
        BY <3>1, ConcatEmptySeq
      <4>3. f[k] = seqs[k] /\ g[k] = f[k]
        BY <3>1, <4>1, <4>2
      <4> QED BY ONLY <3>2, <4>3
    <3>3. CASE k # 1
      <4>1. k - 1 \in 1..n
        BY <3>3
      <4> QED BY <3>1, <3>3, <4>1
    <3> QED BY <3>2, <3>3
  <2>3. P(g)
    BY <2>2
  <2>4. P(flatten)
    <3> HIDE DEF P
    <3> QED BY <2>3
  <2> DEFINE Good == {m \in 0..n : m = 0 \/ flatten[m] = f[m]}
  <2>5. 0 \in Good
    OBVIOUS
  <2>6. ASSUME NEW m \in 0..n, m \in Good, m < n PROVE m + 1 \in Good
    <3>1. m + 1 \in 1..n /\ m + 1 - 1 = m
      BY <2>6
    <3>2. flatten[m + 1] = IF m + 1 = 1 THEN seqs[m + 1] ELSE flatten[m] \o seqs[m + 1]
      <4>1. ASSUME NEW w, P(w)
            PROVE  w[m + 1] = IF m + 1 = 1 THEN seqs[m + 1] ELSE w[m] \o seqs[m + 1]
        <5>1. w = [k \in 1..n |-> IF k = 1 THEN seqs[k] ELSE w[k - 1] \o seqs[k]]
          BY <4>1
        <5>2. \A k \in 1..n : w[k] = IF k = 1 THEN seqs[k] ELSE w[k - 1] \o seqs[k]
          BY <5>1
        <5>3. w[m + 1] = IF m + 1 = 1 THEN seqs[m + 1] ELSE w[m + 1 - 1] \o seqs[m + 1]
          BY <3>1, <5>2
        <5> QED BY <3>1, <5>3
      <4> HIDE DEF flatten, P
      <4> QED BY <2>4, <4>1
    <3>3. f[m + 1] = IF m + 1 = 1 THEN seqs[m + 1] ELSE f[m] \o seqs[m + 1]
      <4>1. /\ g[m + 1] = f[m + 1]
            /\ m + 1 # 1 => g[m + 1 - 1] = f[m]
        BY <3>1, <2>6
      <4> QED BY <2>2, <3>1, <4>1
    <3> HIDE DEF flatten
    <3> QED BY <2>6, <3>1, <3>2, <3>3
  <2>7. \A m \in 0..n : m \in Good
    <3> HIDE DEF Good
    <3> QED BY <2>5, <2>6, AllUpTo
  <2> HIDE DEF flatten
  <2> QED BY <1>3, <2>1, <2>7
<1> QED BY <1>2, <1>3
\* Each of the sequences is in its place in the whole: there are places such that
\* sequence number k begins behind place pos[k].
InPlace(n, seqs, whole, pos) ==
  /\ pos \in [1..(n + 1) -> Nat] /\ pos[1] = 0 /\ pos[n + 1] = Len(whole)
  /\ \A k \in 1..n :
       /\ pos[k + 1] = pos[k] + Len(seqs[k]) /\ pos[k + 1] <= Len(whole)
       /\ \A j \in 1..Len(seqs[k]) : whole[pos[k] + j] = seqs[k][j]

LEMMA FlattenParts ==
  ASSUME NEW S, NEW n \in Nat, NEW seqs \in [1..n -> Seq(S)]
  PROVE  /\ FlattenSeq(seqs) \in Seq(S)
         /\ \E pos : InPlace(n, seqs, FlattenSeq(seqs), pos)
<1>1. PICK f : Sums(S, n, seqs, f)
  BY SumsExist
<1>2. FlattenSeq(seqs) = f[n]
  BY <1>1, FlattenIs
<1>3. \A k \in 0..n : f[k] \in Seq(S) /\ Len(f[k]) \in Nat
  BY <1>1, LenProperties DEF Sums
<1>4. ASSUME NEW k \in 1..n
      PROVE  /\ k - 1 \in 0..n /\ k \in 0..n /\ seqs[k] \in Seq(S) /\ Len(seqs[k]) \in Nat
             /\ f[k] = f[k - 1] \o seqs[k] /\ Len(f[k]) = Len(f[k - 1]) + Len(seqs[k])
             /\ \A j \in 1..(Len(f[k - 1]) + Len(seqs[k])) :
                  f[k][j] = IF j <= Len(f[k - 1]) THEN f[k - 1][j]
                            ELSE seqs[k][j - Len(f[k - 1])]
  <2>1. k - 1 \in 0..n /\ k \in 0..n /\ seqs[k] \in Seq(S) /\ f[k] = f[k - 1] \o seqs[k]
    <3>1. k - 1 \in 0..n /\ k \in 0..n /\ seqs[k] \in Seq(S)
      OBVIOUS
    <3>2. \A m \in 1..n : f[m] = f[m - 1] \o seqs[m]
      BY <1>1 DEF Sums
    <3> QED BY <3>1, <3>2
  <2>2. f[k - 1] \in Seq(S) /\ Len(seqs[k]) \in Nat
    BY <1>3, <2>1, LenProperties
  <2>3. LET t == f[k - 1]
            u == seqs[k]
        IN  /\ Len(t \o u) = Len(t) + Len(u)
            /\ \A j \in 1..(Len(t) + Len(u)) :
                 (t \o u)[j] = IF j <= Len(t) THEN t[j] ELSE u[j - Len(t)]
    BY <2>1, <2>2, ConcatProperties
  <2> QED BY <2>1, <2>2, <2>3
<1> DEFINE pos == [k \in 1..(n + 1) |-> Len(f[k - 1])]
<1>5. ASSUME NEW k \in 1..n
      PROVE  /\ Len(f[k]) <= Len(f[n])
             /\ \A j \in 1..Len(seqs[k]) : f[n][Len(f[k - 1]) + j] = seqs[k][j]
  <2>1. k \in Nat /\ Len(f[k]) \in Nat /\ Len(f[k - 1]) \in Nat /\ Len(seqs[k]) \in Nat
        /\ Len(f[k]) = Len(f[k - 1]) + Len(seqs[k])
    BY <1>3, <1>4
  <2> DEFINE Good == {m \in 0..n : m >= k =>
                        /\ Len(f[k]) <= Len(f[m])
                        /\ \A j \in 1..Len(seqs[k]) : f[m][Len(f[k - 1]) + j] = seqs[k][j]}
  <2>2. 0 \in Good
    OBVIOUS
  <2>3. ASSUME NEW m \in 0..n, m \in Good, m < n PROVE m + 1 \in Good
    <3>1. m + 1 \in 1..n /\ m + 1 - 1 = m /\ m \in Nat
      BY <2>3
    <3>2. CASE m + 1 = k
      <4>1. ASSUME NEW j \in 1..Len(seqs[k]) PROVE f[k][Len(f[k - 1]) + j] = seqs[k][j]
        <5>1. /\ Len(f[k - 1]) + j \in 1..(Len(f[k - 1]) + Len(seqs[k]))
              /\ ~(Len(f[k - 1]) + j <= Len(f[k - 1]))
              /\ Len(f[k - 1]) + j - Len(f[k - 1]) = j
          BY ONLY <2>1, j \in 1..Len(seqs[k])
        <5>2. PICK y : y = Len(f[k - 1]) + j
          OBVIOUS
        <5>3. f[k][y] = IF y <= Len(f[k - 1]) THEN f[k - 1][y] ELSE seqs[k][y - Len(f[k - 1])]
          BY <1>4, <5>1, <5>2
        <5>4. ~(y <= Len(f[k - 1])) /\ y - Len(f[k - 1]) = j
          BY <5>1, <5>2
        <5> QED BY ONLY <5>2, <5>3, <5>4
      <4>2. Len(f[k]) <= Len(f[m + 1])
        BY <2>1, <3>2
      <4>3. m + 1 \in 0..n
        BY <3>1
      <4> QED BY ONLY <3>2, <4>1, <4>2, <4>3
    <3>3. CASE m + 1 > k
      <4>1. m >= k
        BY <2>1, <3>1, <3>3
      <4>2. Len(f[k]) <= Len(f[m])
        BY <2>3, <4>1
      <4>3. \A j \in 1..Len(seqs[k]) : f[m][Len(f[k - 1]) + j] = seqs[k][j]
        BY <2>3, <4>1
      <4>4. PICK x \in 1..n : x = m + 1
        BY <3>1
      <4>5. x - 1 = m /\ x \in 0..n
        BY <4>4
      <4>6. /\ Len(f[x]) = Len(f[m]) + Len(seqs[x])
            /\ Len(seqs[x]) \in Nat /\ Len(f[m]) \in Nat /\ Len(f[x]) \in Nat
        BY <1>3, <1>4, <4>5
      <4>7. \A y \in 1..(Len(f[m]) + Len(seqs[x])) :
              f[x][y] = IF y <= Len(f[m]) THEN f[m][y] ELSE seqs[x][y - Len(f[m])]
        BY <1>4, <4>5
      <4>8. ASSUME NEW j \in 1..Len(seqs[k])
            PROVE  f[x][Len(f[k - 1]) + j] = seqs[k][j]
        <5>1. /\ Len(f[k - 1]) + j \in 1..(Len(f[m]) + Len(seqs[x]))
              /\ Len(f[k - 1]) + j <= Len(f[m])
          <6>1. PICK a \in Nat, b \in Nat, c \in Nat, d \in Nat :
                  a = Len(f[k - 1]) /\ b = Len(seqs[k]) /\ c = Len(f[m]) /\ d = Len(seqs[x])
            BY ONLY <2>1, <4>6
          <6>2. j \in 1..b
            BY ONLY <6>1
          <6>3. a + b <= c
            BY ONLY <2>1, <4>2, <6>1
          <6>4. a + j \in 1..(c + d) /\ a + j <= c
            BY ONLY <6>2, <6>3
          <6> QED BY ONLY <6>1, <6>4
        <5>2. PICK y : y = Len(f[k - 1]) + j
          OBVIOUS
        <5>3. f[x][y] = f[m][y]
          <6>1. y \in 1..(Len(f[m]) + Len(seqs[x])) /\ y <= Len(f[m])
            BY ONLY <5>1, <5>2
          <6>2. f[x][y] = IF y <= Len(f[m]) THEN f[m][y] ELSE seqs[x][y - Len(f[m])]
            BY ONLY <4>7, <6>1
          <6> QED BY ONLY <6>1, <6>2
        <5>4. f[m][Len(f[k - 1]) + j] = seqs[k][j]
          BY ONLY <4>3, j \in 1..Len(seqs[k])
        <5> QED BY ONLY <5>2, <5>3, <5>4
      <4>9. Len(f[k]) <= Len(f[x])
        <5>1. Len(f[m]) <= Len(f[x])
          BY ONLY <4>6
        <5>2. /\ Len(f[k]) \in Nat /\ Len(f[m]) \in Nat /\ Len(f[x]) \in Nat
          BY ONLY <2>1, <4>6
        <5> QED BY ONLY <4>2, <5>1, <5>2
      <4>10. x \in Good
        BY ONLY <4>5, <4>8, <4>9
      <4> QED BY <4>10, <4>4
    <3>4. CASE m + 1 < k
      BY <3>1, <3>4
    <3> QED BY <3>1, <3>2, <3>3, <3>4
  <2>4. n \in Good
    <3> HIDE DEF Good
    <3>1. \A m \in 0..n : m \in Good
      BY <2>2, <2>3, AllUpTo
    <3> QED BY <3>1
  <2> QED BY <2>4
<1>6. /\ pos \in [1..(n + 1) -> Nat]
      /\ \A k \in 1..(n + 1) : pos[k] = Len(f[k - 1])
  <2>1. \A k \in 1..(n + 1) : Len(f[k - 1]) \in Nat
    BY <1>3
  <2> QED BY <2>1
<1> HIDE DEF pos
<1>7. pos[1] = 0 /\ pos[n + 1] = Len(f[n])
  <2>1. f[0] = <<>> /\ Len(<<>>) = 0
    BY <1>1 DEF Sums
  <2>2. 1 \in 1..(n + 1) /\ n + 1 \in 1..(n + 1) /\ 1 - 1 = 0 /\ n + 1 - 1 = n
    OBVIOUS
  <2> QED BY <1>6, <2>1, <2>2
<1>8. ASSUME NEW k \in 1..n
      PROVE  pos[k] = Len(f[k - 1]) /\ pos[k + 1] = Len(f[k])
  <2>1. k \in 1..(n + 1) /\ k + 1 \in 1..(n + 1) /\ k + 1 - 1 = k
    OBVIOUS
  <2> QED BY <1>6, <2>1
<1>9. InPlace(n, seqs, f[n], pos)
  <2>1. ASSUME NEW k \in 1..n
        PROVE  /\ pos[k + 1] = pos[k] + Len(seqs[k]) /\ pos[k + 1] <= Len(f[n])
               /\ \A j \in 1..Len(seqs[k]) : f[n][pos[k] + j] = seqs[k][j]
    <3>1. pos[k] = Len(f[k - 1]) /\ pos[k + 1] = Len(f[k])
      BY <1>8
    <3>2. Len(f[k]) = Len(f[k - 1]) + Len(seqs[k])
      BY <1>4
    <3>3. /\ Len(f[k]) <= Len(f[n])
          /\ \A j \in 1..Len(seqs[k]) : f[n][Len(f[k - 1]) + j] = seqs[k][j]
      BY <1>5
    <3> QED BY ONLY <3>1, <3>2, <3>3
  <2>2. pos \in [1..(n + 1) -> Nat]
    BY <1>6
  <2> QED BY <1>7, <2>1, <2>2 DEF InPlace
<1> QED BY <1>2, <1>3, <1>9

\* One more goes behind the others.
LEMMA FlattenStep ==
  ASSUME NEW S, NEW n \in Nat, NEW seqs \in [1..(n + 1) -> Seq(S)]
  PROVE  FlattenSeq(seqs) = FlattenSeq([k \in 1..n |-> seqs[k]]) \o seqs[n + 1]
<1> DEFINE front == [k \in 1..n |-> seqs[k]]
<1>1. PICK f : Sums(S, n + 1, seqs, f)
  BY SumsExist
<1> DEFINE g == [k \in 0..n |-> f[k]]
<1>2. front \in [1..n -> Seq(S)]
  OBVIOUS
<1>3. Sums(S, n, front, g)
  <2>1. g \in [0..n -> Seq(S)] /\ g[0] = <<>>
    BY <1>1 DEF Sums
  <2>2. ASSUME NEW k \in 1..n PROVE g[k] = g[k - 1] \o front[k]
    <3>1. k \in 1..(n + 1) /\ k \in 0..n /\ k - 1 \in 0..n
      OBVIOUS
    <3>2. f[k] = f[k - 1] \o seqs[k]
      BY <1>1, <3>1 DEF Sums
    <3>3. g[k] = f[k] /\ g[k - 1] = f[k - 1] /\ front[k] = seqs[k]
      BY <3>1
    <3> QED BY <3>2, <3>3
  <2> HIDE DEF g, front
  <2> QED BY <2>1, <2>2 DEF Sums
<1>4. FlattenSeq(front) = f[n]
  <2>1. FlattenSeq(front) = g[n]
    <3> HIDE DEF front, g
    <3> QED BY <1>2, <1>3, FlattenIs
  <2> QED BY <2>1
<1>5. FlattenSeq(seqs) = f[n + 1] /\ f[n + 1] = f[n] \o seqs[n + 1]
  <2>1. n + 1 \in Nat /\ n + 1 \in 1..(n + 1) /\ n + 1 - 1 = n
    OBVIOUS
  <2>2. FlattenSeq(seqs) = f[n + 1]
    BY <1>1, <2>1, FlattenIs
  <2>3. ASSUME NEW m \in 1..(n + 1), m = n + 1 PROVE f[m] = f[n] \o seqs[m]
    <3>1. f[m] = f[m - 1] \o seqs[m]
      BY <1>1 DEF Sums
    <3>2. m - 1 = n
      BY <2>3
    <3> QED BY <3>1, <3>2
  <2>4. f[n + 1] = f[n] \o seqs[n + 1]
    BY <2>1, <2>3
  <2> QED BY <2>2, <2>4
<1> QED BY <1>4, <1>5
-----------------------------------------------------------------------------
(***************************************************************************)
(* The relocation table in memory.                                         *)
(***************************************************************************)

PageBlocks == [page : Nat, offsets : Seq(0..(PAGE - 1))]

\* The constants, and the word as a multiple of the page.
LEMMA Pages ==
  /\ PAGE \in Nat \ {0} /\ WORD \in Nat \ {0} /\ WORD = 16 * PAGE /\ m_address \in Nat
  /\ 0 \div PAGE = 0 /\ HIGHLOW = 3
<1>1. PAGE \in Nat \ {0} /\ WORD = 16 * PAGE /\ m_address \in Nat /\ HIGHLOW = 3
  BY RelocationWalkAssumption, LoadedImageAssumption DEF WORD, HIGHLOW
<1>2. WORD \in Nat \ {0}
  BY <1>1
<1>3. 0 \div PAGE = 0
  <2>1. 0 \in Nat /\ 0 \in 0..(PAGE - 1) /\ 0 = PAGE * 0 + 0
    BY <1>1
  <2> QED BY <1>1, <2>1, Quotient
<1> QED BY <1>1, <1>2, <1>3

\* The items of a block: one for each offset, and one more that fills it up.
LEMMA ItemsAre ==
  ASSUME NEW b \in PageBlocks
  PROVE  /\ Items(b) \in Seq(Nat) /\ Len(b.offsets) \in Nat
         /\ Len(Items(b)) \in {Len(b.offsets), Len(b.offsets) + 1}
         /\ \A n \in 1..Len(b.offsets) : Items(b)[n] = 3 * PAGE + b.offsets[n]
         /\ \A n \in 1..Len(Items(b)) : n > Len(b.offsets) => Items(b)[n] = 0
<1> DEFINE is == [k \in 1..Len(b.offsets) |-> HIGHLOW * PAGE + b.offsets[k]]
           fill == Zeros(Len(is) % 2)
<1>1. Len(b.offsets) \in Nat /\ \A k \in 1..Len(b.offsets) : b.offsets[k] \in Nat
  <2>1. b.offsets \in Seq(0..(PAGE - 1))
    BY DEF PageBlocks
  <2>2. \A k \in 1..Len(b.offsets) : b.offsets[k] \in 0..(PAGE - 1)
    BY <2>1, ElementOfSeq
  <2> QED BY <2>1, <2>2, LenProperties
<1>2. is \in Seq(Nat) /\ Len(is) = Len(b.offsets)
  <2>1. \A k \in 1..Len(b.offsets) : HIGHLOW * PAGE + b.offsets[k] \in Nat
    BY <1>1, Pages
  <2>2. is \in [1..Len(b.offsets) -> Nat]
    BY <2>1
  <2> HIDE DEF is
  <2> QED BY <1>1, <2>2
<1>3. fill \in Seq(Nat) /\ Len(fill) \in {0, 1} /\ \A n \in 1..Len(fill) : fill[n] = 0
  <2>1. Len(is) % 2 \in {0, 1}
    BY <1>1, <1>2
  <2>2. ASSUME NEW z \in {0, 1}
        PROVE  Zeros(z) \in Seq(Nat) /\ Len(Zeros(z)) = z /\ \A n \in 1..z : Zeros(z)[n] = 0
    BY DEF Zeros
  <2> QED BY <2>1, <2>2
<1>4. Items(b) = is \o fill
  BY DEF Items
<1>5. \A n \in 1..Len(b.offsets) : is[n] = 3 * PAGE + b.offsets[n]
  BY Pages
<1> HIDE DEF is, fill
<1>6. /\ is \o fill \in Seq(Nat) /\ Len(is \o fill) = Len(is) + Len(fill)
      /\ \A n \in 1..(Len(is) + Len(fill)) :
           (is \o fill)[n] = IF n <= Len(is) THEN is[n] ELSE fill[n - Len(is)]
  <2>1. is \in Seq(Nat) /\ fill \in Seq(Nat)
    BY ONLY <1>2, <1>3
  <2> QED BY ONLY <2>1, ConcatProperties
<1>7. Items(b) \in Seq(Nat) /\ Len(Items(b)) = Len(b.offsets) + Len(fill)
  BY <1>2, <1>4, <1>6
<1>8. ASSUME NEW n \in 1..Len(b.offsets) PROVE Items(b)[n] = 3 * PAGE + b.offsets[n]
  <2>1. n \in 1..(Len(is) + Len(fill)) /\ n <= Len(is)
    BY <1>1, <1>2, <1>3
  <2> QED BY <1>4, <1>5, <1>6, <2>1
<1>9. ASSUME NEW n \in 1..Len(Items(b)), n > Len(b.offsets) PROVE Items(b)[n] = 0
  <2>1. /\ n \in 1..(Len(is) + Len(fill)) /\ ~(n <= Len(is))
        /\ n - Len(is) \in 1..Len(fill)
    BY <1>1, <1>2, <1>3, <1>7, <1>9
  <2> QED BY <1>3, <1>4, <1>6, <2>1
<1>10. Len(Items(b)) \in {Len(b.offsets), Len(b.offsets) + 1}
  <2>1. CASE Len(fill) = 0
    BY <1>1, <1>7, <2>1
  <2>2. CASE Len(fill) = 1
    BY <1>7, <2>2
  <2> QED BY <1>3, <2>1, <2>2
<1> QED BY <1>1, <1>7, <1>8, <1>9, <1>10

\* A block: the words of its page and of its size, and its items.
LEMMA BlockIs ==
  ASSUME NEW b \in PageBlocks
  PROVE  /\ Block(b) \in Seq(Nat) /\ Len(Items(b)) \in Nat
         /\ Len(Block(b)) = 4 + Len(Items(b)) /\ BlockSize(b) = 2 * Len(Block(b))
         /\ Block(b)[1] = b.page % WORD /\ Block(b)[2] = b.page \div WORD
         /\ Block(b)[3] = BlockSize(b) % WORD /\ Block(b)[4] = BlockSize(b) \div WORD
         /\ \A n \in 1..Len(Items(b)) : Block(b)[4 + n] = Items(b)[n]
<1>1. Items(b) \in Seq(Nat) /\ Len(Items(b)) \in Nat /\ b.page \in Nat /\ BlockSize(b) \in Nat
  BY ItemsAre, LenProperties DEF PageBlocks, BlockSize
<1>2. ASSUME NEW d \in Nat
      PROVE  /\ TwoWords(d) \in Seq(Nat) /\ Len(TwoWords(d)) = 2
             /\ TwoWords(d)[1] = d % WORD /\ TwoWords(d)[2] = d \div WORD
  <2>1. d % WORD \in Nat /\ d \div WORD \in Nat
    BY Pages
  <2> QED BY <2>1 DEF TwoWords
<1> DEFINE p == TwoWords(b.page)
           s == TwoWords(BlockSize(b))
<1>3. /\ p \in Seq(Nat) /\ Len(p) = 2 /\ p[1] = b.page % WORD /\ p[2] = b.page \div WORD
      /\ s \in Seq(Nat) /\ Len(s) = 2
      /\ s[1] = BlockSize(b) % WORD /\ s[2] = BlockSize(b) \div WORD
  BY <1>1, <1>2
<1> HIDE DEF p, s
<1>4. /\ p \o s \in Seq(Nat) /\ Len(p \o s) = Len(p) + Len(s)
      /\ \A n \in 1..(Len(p) + Len(s)) :
           (p \o s)[n] = IF n <= Len(p) THEN p[n] ELSE s[n - Len(p)]
  BY <1>3, ConcatProperties
<1>5. /\ Len(p \o s) = 4 /\ (p \o s)[1] = p[1] /\ (p \o s)[2] = p[2]
      /\ (p \o s)[3] = s[1] /\ (p \o s)[4] = s[2]
  BY <1>3, <1>4
<1> DEFINE q == p \o s
<1>6. Block(b) = q \o Items(b)
  BY DEF Block, p, s
<1>7. q \in Seq(Nat) /\ Len(q) = 4
  BY <1>4, <1>5
<1>8. q[1] = p[1] /\ q[2] = p[2] /\ q[3] = s[1] /\ q[4] = s[2]
  BY <1>5
<1> HIDE DEF q
<1>9. /\ q \o Items(b) \in Seq(Nat) /\ Len(q \o Items(b)) = Len(q) + Len(Items(b))
      /\ \A n \in 1..(Len(q) + Len(Items(b))) :
           (q \o Items(b))[n] = IF n <= Len(q) THEN q[n] ELSE Items(b)[n - Len(q)]
  BY <1>1, <1>7, ConcatProperties
<1>10. /\ Block(b)[1] = q[1] /\ Block(b)[2] = q[2] /\ Block(b)[3] = q[3] /\ Block(b)[4] = q[4]
       /\ Len(Block(b)) = 4 + Len(Items(b))
  BY <1>1, <1>6, <1>7, <1>9
<1>11. ASSUME NEW n \in 1..Len(Items(b)) PROVE Block(b)[4 + n] = Items(b)[n]
  <2>1. 4 + n \in 1..(4 + Len(Items(b))) /\ ~(4 + n <= 4) /\ 4 + n - 4 = n
    BY <1>1
  <2>2. PICK x : x = 4 + n
    OBVIOUS
  <2>3. x \in 1..(Len(q) + Len(Items(b))) /\ ~(x <= Len(q)) /\ x - Len(q) = n
    BY ONLY <1>7, <2>1, <2>2
  <2>4. (q \o Items(b))[x] = Items(b)[n]
    BY ONLY <1>9, <2>3
  <2> QED BY ONLY <1>6, <2>2, <2>4
<1>12. BlockSize(b) = 2 * Len(Block(b))
  BY <1>1, <1>10 DEF BlockSize
<1> QED BY <1>1, <1>3, <1>6, <1>8, <1>9, <1>10, <1>11, <1>12
\* What a linker writes (TablesAssumption).
Linked(b) ==
  /\ b \in PageBlocks /\ b.page % PAGE = 0 /\ b.page < 3 * PAGE * WORD
  /\ BlockSize(b) < 3 * PAGE

LEMMA TablesAre ==
  ASSUME NEW t \in Tables
  PROVE  t \in Seq(PageBlocks) /\ \A k \in 1..Len(t) : Linked(t[k])
<1>1. t \in Seq(PageBlocks)
  BY TablesAssumption DEF PageBlocks
<1>2. \A k \in 1..Len(t) : t[k] \in PageBlocks
  BY <1>1, ElementOfSeq
<1> QED BY <1>1, <1>2, TablesAssumption, Pages DEF Linked

\* An item is told apart by the quotient, and its offset is the rest.
LEMMA ItemParts ==
  ASSUME NEW o \in 0..(PAGE - 1)
  PROVE  (3 * PAGE + o) \div PAGE = 3 /\ (3 * PAGE + o) % PAGE = o
<1>1. 3 * PAGE + o \in Nat /\ 3 * PAGE + o = PAGE * 3 + o /\ 3 \in Nat
  BY Pages
<1> QED BY <1>1, Pages, Quotient

\* A number below 3 pages is no item.
LEMMA NoItem ==
  ASSUME NEW w \in Nat, w < 3 * PAGE
  PROVE  w \div PAGE # 3
<1>1. w = PAGE * (w \div PAGE) + (w % PAGE) /\ w % PAGE \in Nat
  BY Pages, Division
<1> QED BY <1>1, Pages

\* Of the words in front of a block only the first can look like an item, and
\* that as one at the beginning of the page.
LEMMA HeaderWords ==
  ASSUME NEW b, Linked(b)
  PROVE  /\ (b.page % WORD) + WORD * (b.page \div WORD) = b.page
         /\ (BlockSize(b) % WORD) + WORD * (BlockSize(b) \div WORD) = BlockSize(b)
         /\ (b.page % WORD) % PAGE = 0
         /\ (b.page \div WORD) \div PAGE # 3
         /\ (BlockSize(b) % WORD) \div PAGE # 3
         /\ (BlockSize(b) \div WORD) \div PAGE # 3
<1>1. /\ b.page \in Nat /\ b.page % PAGE = 0 /\ b.page < 3 * PAGE * WORD
      /\ BlockSize(b) \in Nat /\ BlockSize(b) < 3 * PAGE
  BY ItemsAre DEF Linked, PageBlocks, BlockSize
<1>2. PAGE \in Nat \ {0} /\ WORD \in Nat \ {0} /\ WORD = 16 * PAGE /\ 0 \div PAGE = 0
  BY Pages
<1>3. /\ b.page \div WORD \in Nat /\ b.page % WORD \in 0..(WORD - 1)
      /\ b.page = WORD * (b.page \div WORD) + (b.page % WORD)
  BY <1>1, <1>2, Division
<1>4. BlockSize(b) \div WORD = 0 /\ BlockSize(b) % WORD = BlockSize(b)
  <2>1. BlockSize(b) \in 0..(WORD - 1) /\ BlockSize(b) = WORD * 0 + BlockSize(b) /\ 0 \in Nat
    BY <1>1, <1>2
  <2> QED BY <1>1, <1>2, <2>1, Quotient
<1>5. (b.page % WORD) % PAGE = 0
  <2>1. b.page \div PAGE \in Nat /\ b.page = PAGE * (b.page \div PAGE)
    <3>1. /\ b.page \div PAGE \in Nat
          /\ b.page = PAGE * (b.page \div PAGE) + (b.page % PAGE)
      BY <1>1, <1>2, Division
    <3> QED BY <1>1, <1>2, <3>1
  <2>2. PICK x \in Nat : b.page = PAGE * x
    BY <2>1
  <2>3. PICK y \in Nat, r \in Nat : b.page = WORD * y + r /\ r = b.page % WORD
    BY <1>3
  <2>4. r = PAGE * (x - 16 * y) /\ x - 16 * y \in Int
    BY <1>2, <2>2, <2>3
  <2>5. x - 16 * y \in Nat
    <3>1. ASSUME NEW z \in Int, r = PAGE * z PROVE z >= 0
      <4>1. CASE z < 0
        <5>1. PICK e \in Nat : z = -1 - e
          <6>1. -1 - z \in Nat
            BY <4>1
          <6> QED BY <6>1
        <5>2. PAGE * z = -PAGE - PAGE * e /\ PAGE * e \in Nat
          BY <1>2, <5>1
        <5> QED BY <1>2, <3>1, <5>2
      <4> QED BY <4>1
    <3> QED BY <2>4, <3>1
  <2>6. PICK z \in Nat : r = PAGE * z + 0
    BY <1>2, <2>4, <2>5
  <2>7. 0 \in 0..(PAGE - 1)
    BY <1>2
  <2>8. r % PAGE = 0
    BY <1>2, <2>6, <2>7, Quotient
  <2> QED BY <2>3, <2>8
<1>6. b.page \div WORD < 3 * PAGE
  <2>1. PICK y \in Nat, r \in Nat : b.page = WORD * y + r /\ y = b.page \div WORD
    BY <1>3
  <2>2. CASE y >= 3 * PAGE
    <3>1. PICK e \in Nat : y = 3 * PAGE + e
      <4>1. y - 3 * PAGE \in Nat
        BY <1>2, <2>2
      <4> QED BY <1>2, <4>1
    <3>2. WORD * y = 3 * PAGE * WORD + WORD * e /\ WORD * e \in Nat /\ 3 * PAGE * WORD \in Nat
      BY <1>2, <3>1
    <3> QED BY ONLY <1>1, <2>1, <3>2
  <2> QED BY <1>2, <2>1, <2>2
<1>7. (b.page \div WORD) \div PAGE # 3 /\ (BlockSize(b) % WORD) \div PAGE # 3
  BY <1>1, <1>3, <1>4, <1>6, NoItem
<1>8. (BlockSize(b) \div WORD) \div PAGE # 3
  BY <1>2, <1>4
<1>9. (b.page % WORD) + WORD * (b.page \div WORD) = b.page
  BY <1>2, <1>3
<1>10. (BlockSize(b) % WORD) + WORD * (BlockSize(b) \div WORD) = BlockSize(b)
  BY <1>1, <1>2, <1>4
<1> QED BY <1>5, <1>7, <1>8, <1>9, <1>10
\* Where the blocks of a table begin in it.
Parts(t)  == [k \in 1..Len(t) |-> Block(t[k])]
Starts(t) == CHOOSE pos : InPlace(Len(t), Parts(t), TableWords(t), pos)

LEMMA TableIs ==
  ASSUME NEW t \in Tables
  PROVE  /\ Len(t) \in Nat /\ TableWords(t) \in Seq(Nat) /\ Len(TableWords(t)) \in Nat
         /\ InPlace(Len(t), Parts(t), TableWords(t), Starts(t))
<1>1. Len(t) \in Nat /\ \A k \in 1..Len(t) : Block(t[k]) \in Seq(Nat)
  BY TablesAre, BlockIs, LenProperties DEF Linked
<1>2. Parts(t) \in [1..Len(t) -> Seq(Nat)]
  BY <1>1 DEF Parts
<1>3. TableWords(t) = FlattenSeq(Parts(t))
  BY DEF TableWords, Parts
<1>4. TableWords(t) \in Seq(Nat) /\ \E pos : InPlace(Len(t), Parts(t), TableWords(t), pos)
  BY <1>1, <1>2, <1>3, FlattenParts
<1>5. InPlace(Len(t), Parts(t), TableWords(t), Starts(t))
  BY <1>4 DEF Starts
<1> QED BY <1>1, <1>4, <1>5, LenProperties

\* The image: the table in its place, zeros behind it.
LaidOut ==
  /\ table \in Tables /\ words \in Seq(Nat)
  /\ \E front \in Nat :
       /\ reloc_section_start = m_address + 2 * front
       /\ front + Len(TableWords(table)) <= Len(words)
       /\ \A x \in 1..Len(TableWords(table)) : words[front + x] = TableWords(table)[x]
       /\ \A x \in 1..Len(words) : x > front + Len(TableWords(table)) => words[x] = 0
  /\ reloc_section_size \in Nat /\ 2 * Len(TableWords(table)) <= reloc_section_size

\* What a read yields, n words behind the section's beginning.
LEMMA ReadWords ==
  ASSUME LaidOut
  PROVE  /\ reloc_section_start \in Nat /\ m_size \in Nat
         /\ \E e \in Nat : /\ m_address + m_size = reloc_section_start + 2 * e
                           /\ Len(TableWords(table)) <= e
         /\ \A n \in Nat :
              /\ IsAddrWithinModule(reloc_section_start + 2 * n)
                   <=> reloc_section_start + 2 * n < m_address + m_size
              /\ n < Len(TableWords(table)) =>
                   /\ IsAddrWithinModule(reloc_section_start + 2 * n)
                   /\ WordAt(reloc_section_start + 2 * n) = TableWords(table)[n + 1]
              /\ n >= Len(TableWords(table)) => WordAt(reloc_section_start + 2 * n) = 0
<1>1. Len(TableWords(table)) \in Nat /\ Len(words) \in Nat /\ m_address \in Nat
  BY TableIs, LoadedImageAssumption, LenProperties DEF LaidOut
<1>2. PICK front \in Nat :
        /\ reloc_section_start = m_address + 2 * front
        /\ front + Len(TableWords(table)) <= Len(words)
        /\ \A x \in 1..Len(TableWords(table)) : words[front + x] = TableWords(table)[x]
        /\ \A x \in 1..Len(words) : x > front + Len(TableWords(table)) => words[x] = 0
  BY DEF LaidOut
<1>3. m_size = 2 * Len(words) /\ reloc_section_start \in Nat /\ m_size \in Nat
  BY <1>1, <1>2 DEF m_size
<1>4. \E e \in Nat : /\ m_address + m_size = reloc_section_start + 2 * e
                     /\ Len(TableWords(table)) <= e
  <2>1. Len(words) - front \in Nat /\ Len(TableWords(table)) <= Len(words) - front
    BY <1>1, <1>2
  <2>2. m_address + m_size = reloc_section_start + 2 * (Len(words) - front)
    BY <1>1, <1>2, <1>3
  <2> QED BY <2>1, <2>2
<1>5. ASSUME NEW n \in Nat
      PROVE  /\ IsAddrWithinModule(reloc_section_start + 2 * n)
                  <=> reloc_section_start + 2 * n < m_address + m_size
             /\ WordAt(reloc_section_start + 2 * n) =
                  IF front + n + 1 <= Len(words) THEN words[front + n + 1] ELSE 0
  <2>1. IsAddrWithinModule(reloc_section_start + 2 * n)
          <=> reloc_section_start + 2 * n < m_address + m_size
    BY <1>1, <1>2, <1>3 DEF IsAddrWithinModule, IsAddrMapped_Imp
  <2>2. (reloc_section_start + 2 * n - m_address) \div 2 + 1 = front + n + 1
    <3>1. reloc_section_start + 2 * n - m_address = 2 * (front + n)
      BY <1>1, <1>2
    <3>2. (2 * (front + n)) \div 2 = front + n
      OBVIOUS
    <3> QED BY <3>1, <3>2
  <2>3. WordAt(reloc_section_start + 2 * n) =
          IF front + n + 1 \in 1..Len(words) THEN words[front + n + 1] ELSE 0
    <3>1. ASSUME NEW a, NEW k, (a - m_address) \div 2 + 1 = k
          PROVE  WordAt(a) = IF k \in 1..Len(words) THEN words[k] ELSE 0
      BY <3>1 DEF WordAt
    <3>2. PICK a : a = reloc_section_start + 2 * n
      OBVIOUS
    <3>3. PICK k : k = front + n + 1
      OBVIOUS
    <3>4. (a - m_address) \div 2 + 1 = k
      BY <1>1, <1>3, <2>2, <3>2, <3>3
    <3>5. WordAt(a) = IF k \in 1..Len(words) THEN words[k] ELSE 0
      BY <3>1, <3>4
    <3> QED BY <3>2, <3>3, <3>5
  <2> QED BY <1>1, <2>1, <2>3
<1>6. ASSUME NEW n \in Nat, n < Len(TableWords(table))
      PROVE  /\ IsAddrWithinModule(reloc_section_start + 2 * n)
             /\ WordAt(reloc_section_start + 2 * n) = TableWords(table)[n + 1]
  <2>1. reloc_section_start + 2 * n < m_address + m_size
    BY <1>1, <1>2, <1>3, <1>6
  <2>2. n + 1 \in 1..Len(TableWords(table)) /\ front + n + 1 <= Len(words)
    BY <1>1, <1>2, <1>6
  <2>3. words[front + (n + 1)] = TableWords(table)[n + 1] /\ front + (n + 1) = front + n + 1
    BY <1>2, <2>2
  <2> QED BY <1>5, <2>1, <2>2, <2>3
<1>7. ASSUME NEW n \in Nat, n >= Len(TableWords(table))
      PROVE  WordAt(reloc_section_start + 2 * n) = 0
  <2>1. /\ front + n + 1 > front + Len(TableWords(table))
        /\ front + n + 1 <= Len(words) => front + n + 1 \in 1..Len(words)
    BY <1>1, <1>7
  <2> QED BY <1>2, <1>5, <2>1
<1> QED BY <1>3, <1>4, <1>5, <1>6, <1>7
\* The address of block k; the last is that behind the table.
Addr(k) == reloc_section_start + 2 * Starts(table)[k]

LEMMA AddrsAre ==
  ASSUME LaidOut
  PROVE  /\ Len(table) \in Nat /\ Addr(1) = reloc_section_start
         /\ Addr(Len(table) + 1) = reloc_section_start + 2 * Len(TableWords(table))
         /\ \A k \in 1..(Len(table) + 1) :
              /\ Starts(table)[k] \in Nat /\ Starts(table)[k] <= Len(TableWords(table))
              /\ Addr(k) \in Nat
         /\ \A k \in 1..Len(table) :
              /\ Linked(table[k]) /\ Len(Block(table[k])) \in Nat
              /\ Starts(table)[k + 1] = Starts(table)[k] + Len(Block(table[k]))
              /\ Addr(k + 1) = Addr(k) + BlockSize(table[k])
<1>1. /\ table \in Tables /\ Len(table) \in Nat /\ Len(TableWords(table)) \in Nat
      /\ InPlace(Len(table), Parts(table), TableWords(table), Starts(table))
  BY TableIs DEF LaidOut
<1>2. PICK pos : pos = Starts(table)
  OBVIOUS
<1>3. /\ pos \in [1..(Len(table) + 1) -> Nat] /\ pos[1] = 0
      /\ pos[Len(table) + 1] = Len(TableWords(table))
      /\ \A k \in 1..Len(table) :
           /\ pos[k + 1] = pos[k] + Len(Parts(table)[k])
           /\ pos[k + 1] <= Len(TableWords(table))
  BY <1>1, <1>2 DEF InPlace
<1>4. reloc_section_start \in Nat
  BY ReadWords
<1>5. ASSUME NEW k \in 1..Len(table)
      PROVE  /\ Linked(table[k]) /\ Len(Block(table[k])) \in Nat
             /\ pos[k + 1] = pos[k] + Len(Block(table[k]))
             /\ BlockSize(table[k]) = 2 * Len(Block(table[k]))
  <2>1. Linked(table[k])
    BY <1>1, TablesAre
  <2>2. Len(Block(table[k])) \in Nat /\ BlockSize(table[k]) = 2 * Len(Block(table[k]))
    BY <2>1, BlockIs DEF Linked
  <2>3. Parts(table)[k] = Block(table[k])
    BY DEF Parts
  <2> QED BY <1>3, <2>1, <2>2, <2>3
<1>6. ASSUME NEW k \in 1..(Len(table) + 1) PROVE pos[k] \in Nat /\ pos[k] <= Len(TableWords(table))
  <2>1. pos[k] \in Nat
    BY <1>3
  <2>2. CASE k = Len(table) + 1
    BY <1>1, <1>3, <2>2
  <2>3. CASE k # Len(table) + 1
    <3>1. k \in 1..Len(table) /\ k + 1 \in 1..(Len(table) + 1)
      BY <1>1, <2>3
    <3>2. pos[k + 1] <= Len(TableWords(table)) /\ pos[k + 1] = pos[k] + Len(Block(table[k]))
      BY <1>3, <1>5, <3>1
    <3>3. pos[k + 1] \in Nat /\ Len(Block(table[k])) \in Nat
      BY <1>3, <1>5, <3>1
    <3> QED BY <1>1, <2>1, <3>2, <3>3
  <2> QED BY <2>1, <2>2, <2>3
<1>7. ASSUME NEW k \in 1..Len(table) PROVE Addr(k + 1) = Addr(k) + BlockSize(table[k])
  <2>1. k \in 1..(Len(table) + 1)
    BY <1>1
  <2>2. /\ pos[k] \in Nat /\ Len(Block(table[k])) \in Nat
        /\ pos[k + 1] = pos[k] + Len(Block(table[k]))
        /\ BlockSize(table[k]) = 2 * Len(Block(table[k]))
    BY <1>5, <1>6, <2>1
  <2>3. Addr(k + 1) = reloc_section_start + 2 * pos[k + 1]
        /\ Addr(k) = reloc_section_start + 2 * pos[k]
    BY <1>2 DEF Addr
  <2> QED BY <1>4, <2>2, <2>3
<1>8. Addr(1) = reloc_section_start
  BY <1>2, <1>3, <1>4 DEF Addr
<1>9. Addr(Len(table) + 1) = reloc_section_start + 2 * Len(TableWords(table))
  BY <1>2, <1>3 DEF Addr
<1>10. ASSUME NEW k \in 1..(Len(table) + 1) PROVE Addr(k) \in Nat
  <2>1. pos[k] \in Nat /\ Addr(k) = reloc_section_start + 2 * pos[k]
    BY <1>2, <1>6 DEF Addr
  <2> QED BY <1>4, <2>1
<1> QED BY <1>1, <1>2, <1>5, <1>6, <1>7, <1>8, <1>9, <1>10

\* Each word of each block is read as it is; behind the table there are zeros.
LEMMA BlockWords ==
  ASSUME LaidOut
  PROVE  /\ \A k \in 1..Len(table) : \A n \in Nat : n < Len(Block(table[k])) =>
              /\ IsAddrWithinModule(Addr(k) + 2 * n)
              /\ WordAt(Addr(k) + 2 * n) = Block(table[k])[n + 1]
         /\ \A n \in Nat : WordAt(Addr(Len(table) + 1) + 2 * n) = 0
<1>1. /\ table \in Tables /\ Len(table) \in Nat /\ Len(TableWords(table)) \in Nat
      /\ InPlace(Len(table), Parts(table), TableWords(table), Starts(table))
      /\ reloc_section_start \in Nat
  BY TableIs, ReadWords DEF LaidOut
<1>2. ASSUME NEW k \in 1..Len(table), NEW n \in Nat, n < Len(Block(table[k]))
      PROVE  /\ IsAddrWithinModule(Addr(k) + 2 * n)
             /\ WordAt(Addr(k) + 2 * n) = Block(table[k])[n + 1]
  <2>1. PICK p : p = Starts(table)[k]
    OBVIOUS
  <2>2. k \in 1..(Len(table) + 1) /\ k + 1 \in 1..(Len(table) + 1)
    BY <1>1
  <2>3. /\ p \in Nat /\ Starts(table)[k + 1] = p + Len(Block(table[k]))
        /\ Len(Block(table[k])) \in Nat /\ Starts(table)[k + 1] <= Len(TableWords(table))
    BY <2>1, <2>2, AddrsAre
  <2>4. p + n < Len(TableWords(table)) /\ p + n \in Nat
    BY <1>1, <1>2, <2>3
  <2>5. TableWords(table)[p + (n + 1)] = Block(table[k])[n + 1]
    <3>1. \A j \in 1..Len(Parts(table)[k]) :
            TableWords(table)[Starts(table)[k] + j] = Parts(table)[k][j]
      BY <1>1 DEF InPlace
    <3>2. Parts(table)[k] = Block(table[k])
      BY DEF Parts
    <3>3. n + 1 \in 1..Len(Block(table[k]))
      BY <1>2, <2>3
    <3> QED BY <2>1, <3>1, <3>2, <3>3
  <2>6. /\ IsAddrWithinModule(reloc_section_start + 2 * (p + n))
        /\ WordAt(reloc_section_start + 2 * (p + n)) = TableWords(table)[(p + n) + 1]
    BY <2>4, ReadWords
  <2>7. /\ Addr(k) + 2 * n = reloc_section_start + 2 * (p + n)
        /\ (p + n) + 1 = p + (n + 1)
    <3>1. Addr(k) = reloc_section_start + 2 * p
      BY ONLY <2>1 DEF Addr
    <3>2. reloc_section_start \in Nat /\ p \in Nat
      BY ONLY <1>1, <2>3
    <3> QED BY ONLY <3>1, <3>2, n \in Nat
  <2> QED BY <2>5, <2>6, <2>7
<1>3. ASSUME NEW n \in Nat PROVE WordAt(Addr(Len(table) + 1) + 2 * n) = 0
  <2>1. PICK m \in Nat : m = Len(TableWords(table)) + n
    BY <1>1
  <2>2. Addr(Len(table) + 1) + 2 * n = reloc_section_start + 2 * m
    BY <1>1, <2>1, AddrsAre
  <2>3. m >= Len(TableWords(table))
    BY <1>1, <2>1
  <2> QED BY <2>2, <2>3, ReadWords
<1> QED BY <1>2, <1>3
\* What the walk reads at the beginning of a block, and behind the last.
LEMMA HeaderIs ==
  ASSUME LaidOut, NEW k \in 1..Len(table)
  PROVE  /\ IsAddrWithinModule(Addr(k)) /\ IsAddrWithinModule(Addr(k) + 4)
         /\ DoublewordAt(Addr(k)) = table[k].page
         /\ DoublewordAt(Addr(k) + 4) = BlockSize(table[k])
<1>1. PICK b : b = table[k] /\ Linked(b)
  BY AddrsAre
<1>2. /\ Len(Items(b)) \in Nat /\ Len(Block(b)) = 4 + Len(Items(b))
      /\ Block(b)[1] = b.page % WORD /\ Block(b)[2] = b.page \div WORD
      /\ Block(b)[3] = BlockSize(b) % WORD /\ Block(b)[4] = BlockSize(b) \div WORD
  BY <1>1, BlockIs DEF Linked
<1>3. 0 < Len(Block(b)) /\ 1 < Len(Block(b)) /\ 2 < Len(Block(b)) /\ 3 < Len(Block(b))
  BY <1>2
<1>4. Addr(k) \in Nat
  <2>1. k \in 1..(Len(table) + 1)
    BY AddrsAre
  <2> QED BY <2>1, AddrsAre
<1>5. ASSUME NEW n \in {0, 1, 2, 3}
      PROVE  /\ IsAddrWithinModule(Addr(k) + 2 * n)
             /\ WordAt(Addr(k) + 2 * n) = Block(b)[n + 1]
  <2>1. n \in Nat /\ n < Len(Block(table[k]))
    BY <1>1, <1>3
  <2> QED BY <1>1, <2>1, BlockWords
<1>6. /\ Addr(k) + 2 * 0 = Addr(k) /\ Addr(k) + 2 * 1 = Addr(k) + 2
      /\ Addr(k) + 2 * 2 = Addr(k) + 4 /\ Addr(k) + 2 * 3 = (Addr(k) + 4) + 2
      /\ 0 + 1 = 1 /\ 1 + 1 = 2 /\ 2 + 1 = 3 /\ 3 + 1 = 4
  BY <1>4
<1>7. /\ IsAddrWithinModule(Addr(k)) /\ WordAt(Addr(k)) = Block(b)[1]
      /\ WordAt(Addr(k) + 2) = Block(b)[2]
      /\ IsAddrWithinModule(Addr(k) + 4) /\ WordAt(Addr(k) + 4) = Block(b)[3]
      /\ WordAt((Addr(k) + 4) + 2) = Block(b)[4]
  <2>1. IsAddrWithinModule(Addr(k) + 2 * 0) /\ WordAt(Addr(k) + 2 * 0) = Block(b)[0 + 1]
    BY <1>5
  <2>2. WordAt(Addr(k) + 2 * 1) = Block(b)[1 + 1]
    BY <1>5
  <2>3. IsAddrWithinModule(Addr(k) + 2 * 2) /\ WordAt(Addr(k) + 2 * 2) = Block(b)[2 + 1]
    BY <1>5
  <2>4. WordAt(Addr(k) + 2 * 3) = Block(b)[3 + 1]
    BY <1>5
  <2> QED BY <1>6, <2>1, <2>2, <2>3, <2>4
<1>8. /\ DoublewordAt(Addr(k)) = (b.page % WORD) + WORD * (b.page \div WORD)
      /\ DoublewordAt(Addr(k) + 4) = (BlockSize(b) % WORD) + WORD * (BlockSize(b) \div WORD)
  BY <1>2, <1>7 DEF DoublewordAt
<1> QED BY <1>1, <1>7, <1>8, HeaderWords

LEMMA EndIs ==
  ASSUME LaidOut
  PROVE  /\ DoublewordAt(Addr(Len(table) + 1)) = 0
         /\ DoublewordAt(Addr(Len(table) + 1) + 4) = 0
<1>1. PICK a : a = Addr(Len(table) + 1)
  OBVIOUS
<1>2. a \in Nat /\ \A n \in Nat : WordAt(a + 2 * n) = 0
  <2>1. Len(table) + 1 \in 1..(Len(table) + 1)
    BY AddrsAre
  <2> QED BY <1>1, <2>1, AddrsAre, BlockWords
<1>3. a + 2 * 0 = a /\ a + 2 * 1 = a + 2 /\ a + 2 * 2 = a + 4 /\ a + 2 * 3 = (a + 4) + 2
  BY <1>2
<1>4. WordAt(a + 2 * 0) = 0 /\ WordAt(a + 2 * 1) = 0 /\ WordAt(a + 2 * 2) = 0
      /\ WordAt(a + 2 * 3) = 0
  BY <1>2
<1>5. WordAt(a) = 0 /\ WordAt(a + 2) = 0 /\ WordAt(a + 4) = 0 /\ WordAt((a + 4) + 2) = 0
  BY <1>3, <1>4
<1>6. WORD * 0 = 0
  BY Pages
<1> QED BY <1>1, <1>5, <1>6 DEF DoublewordAt

\* What the walk takes for items of a block: first those for its offsets, which
\* it knows as such; then none, but for the page of the next block.
LEMMA ItemIs ==
  ASSUME LaidOut, NEW k \in 1..Len(table), NEW n \in Nat, n < Len(Block(table[k])),
         NEW w, w = WordAt(Addr(k) + 2 * n + 8)
  PROVE  /\ n < Len(table[k].offsets) =>
              w \div PAGE = 3 /\ w % PAGE = table[k].offsets[n + 1]
         /\ w \div PAGE = 3 =>
              \/ n < Len(table[k].offsets)
              \/ /\ k < Len(table) /\ (table[k + 1].page % WORD) \div PAGE = 3
                 /\ w % PAGE = 0
<1>1. PICK b : b = table[k] /\ Linked(b) /\ b \in PageBlocks
  BY AddrsAre DEF Linked
<1>2. /\ Len(Items(b)) \in Nat /\ Len(Block(b)) = 4 + Len(Items(b))
      /\ \A j \in 1..Len(Items(b)) : Block(b)[4 + j] = Items(b)[j]
  BY <1>1, BlockIs
<1>3. Addr(k) \in Nat /\ Len(table) \in Nat
  <2>1. k \in 1..(Len(table) + 1)
    BY AddrsAre
  <2> QED BY <2>1, AddrsAre
<1>4. Len(b.offsets) \in Nat /\ Len(Items(b)) \in {Len(b.offsets), Len(b.offsets) + 1}
  BY <1>1, ItemsAre
<1>5. CASE n < Len(Items(b))
  <2>1. n + 4 \in Nat /\ n + 4 < Len(Block(table[k])) /\ n + 1 \in 1..Len(Items(b))
        /\ (n + 4) + 1 = 4 + (n + 1)
    BY <1>1, <1>2, <1>5
  <2>2. WordAt(Addr(k) + 2 * (n + 4)) = Block(table[k])[(n + 4) + 1]
    BY <2>1, BlockWords
  <2>3. Addr(k) + 2 * (n + 4) = Addr(k) + 2 * n + 8
    BY <1>3
  <2>4. w = Items(b)[n + 1]
    BY <1>1, <1>2, <2>1, <2>2, <2>3
  <2>5. CASE n < Len(b.offsets)
    <3>1. n + 1 \in 1..Len(b.offsets)
      BY <1>4, <2>5
    <3>2. w = 3 * PAGE + b.offsets[n + 1]
      BY <1>1, <2>4, <3>1, ItemsAre
    <3>3. b.offsets[n + 1] \in 0..(PAGE - 1)
      BY <1>1, <3>1, ElementOfSeq DEF PageBlocks
    <3> QED BY <1>1, <2>5, <3>2, <3>3, ItemParts
  <2>6. CASE ~(n < Len(b.offsets))
    <3>1. n + 1 > Len(b.offsets)
      BY <1>4, <2>6
    <3>2. w = 0
      BY <1>1, <2>1, <2>4, <3>1, ItemsAre
    <3> QED BY <1>1, <2>6, <3>2, Pages
  <2> QED BY <2>5, <2>6
<1>6. CASE ~(n < Len(Items(b)))
  <2>1. PICK m \in 0..3 : n = Len(Items(b)) + m
    <3>1. n < 4 + Len(Items(b))
      BY <1>1, <1>2
    <3>2. n - Len(Items(b)) \in 0..3
      BY <1>2, <1>6, <3>1
    <3> QED BY <1>2, <3>2
  <2>2. ~(n < Len(b.offsets))
    BY <1>4, <1>6
  <2>3. Addr(k) + 2 * n + 8 = Addr(k + 1) + 2 * m
    <3>1. Addr(k + 1) = Addr(k) + BlockSize(b) /\ BlockSize(b) = 2 * Len(Block(b))
      BY <1>1, AddrsAre, BlockIs
    <3> QED BY <1>2, <1>3, <2>1, <3>1
  <2>4. CASE k = Len(table)
    <3>1. m \in Nat
      OBVIOUS
    <3>2. w = 0
      BY <2>3, <2>4, <3>1, BlockWords
    <3> QED BY <1>1, <2>2, <3>2, Pages
  <2>5. CASE k # Len(table)
    <3>1. k < Len(table) /\ k + 1 \in 1..Len(table)
      BY <1>3, <2>5
    <3>2. PICK c : c = table[k + 1] /\ Linked(c) /\ c \in PageBlocks
      BY <3>1, AddrsAre DEF Linked
    <3>3. /\ Len(Items(c)) \in Nat /\ Len(Block(c)) = 4 + Len(Items(c))
          /\ Block(c)[1] = c.page % WORD /\ Block(c)[2] = c.page \div WORD
          /\ Block(c)[3] = BlockSize(c) % WORD /\ Block(c)[4] = BlockSize(c) \div WORD
      BY <3>2, BlockIs
    <3>4. m \in Nat /\ m < Len(Block(table[k + 1]))
      BY <3>2, <3>3
    <3>5. w = Block(c)[m + 1]
      BY <2>3, <3>1, <3>2, <3>4, BlockWords
    <3>6. CASE m = 0
      <4>1. w = c.page % WORD
        BY <3>3, <3>5, <3>6
      <4>2. w % PAGE = 0
        BY <3>2, <4>1, HeaderWords
      <4> QED BY <1>1, <2>2, <3>1, <3>2, <4>1, <4>2
    <3>7. CASE m # 0
      <4>1. m + 1 \in {2, 3, 4}
        BY <3>7
      <4>2. w \in {c.page \div WORD, BlockSize(c) % WORD, BlockSize(c) \div WORD}
        BY <3>3, <3>5, <4>1
      <4>3. w \div PAGE # 3
        BY <3>2, <4>2, HeaderWords
      <4> QED BY <1>1, <2>2, <4>3
    <3> QED BY <3>6, <3>7
  <2> QED BY <2>4, <2>5
<1> QED BY <1>5, <1>6
-----------------------------------------------------------------------------
(***************************************************************************)
(* The walk over the relocation table.  It is in front of a block (pc is   *)
(* "head") or of item n of block k, and has found what the items before    *)
(* point at.                                                               *)
(***************************************************************************)

\* Where item j of block b points.
Pointee(b, j) == DoublewordAt(m_address + table[b].page + table[b].offsets[j])

\* The items of the blocks before block k, and its first n, have been found.
FoundIn(targets, k, n) ==
  \A b \in 1..Len(table) : \A j \in 1..Len(table[b].offsets) :
    (b < k \/ (b = k /\ j <= n)) /\ IsAddrWithinModule(Pointee(b, j))
      => Pointee(b, j) \in targets
Found(k, n) == FoundIn(m_reloc_targets, k, n)

AtHead == \E k \in 1..(Len(table) + 1) : reloc_block_addr = Addr(k) /\ Found(k, 0)

AtItem(k, n) ==
  /\ reloc_block_addr = Addr(k) /\ block_base_addr = table[k].page
  /\ block_len = BlockSize(table[k]) /\ i = 2 * n
  /\ n <= Len(Block(table[k])) /\ Addr(k) + 2 * n + 8 <= m_address + m_size
  /\ Found(k, n)

Walking ==
  \/ pc = "head" /\ AtHead
  \/ pc = "item" /\ \E k \in 1..Len(table), n \in Nat : AtItem(k, n)
  \/ pc = "done" /\ Found(Len(table) + 1, 0)
  \/ pc = "thrown"

OnlyThose == m_reloc_targets \subseteq Described \cup Mistaken

WalkInv == LaidOut /\ Walking /\ OnlyThose /\ ThrowsOnlyOutside

\* At the end of the walk all has been found.
LEMMA FoundAll ==
  ASSUME LaidOut, Found(Len(table) + 1, 0)
  PROVE  Described \subseteq m_reloc_targets
<1> SUFFICES ASSUME NEW d \in Described PROVE d \in m_reloc_targets
  OBVIOUS
<1>1. PICK b \in 1..Len(table) : d \in Pointees(b) /\ IsAddrWithinModule(d)
  BY DEF Described
<1>2. PICK j \in 1..Len(table[b].offsets) : d = Pointee(b, j)
  BY <1>1 DEF Pointees, Pointee
<1>3. Len(table) \in Nat /\ b < Len(table) + 1
  BY AddrsAre
<1>4. ASSUME NEW k, NEW n, Found(k, n), b < k PROVE Pointee(b, j) \in m_reloc_targets
  BY <1>1, <1>2, <1>4 DEF Found, FoundIn
<1>5. Pointee(b, j) \in m_reloc_targets
  BY <1>3, <1>4
<1> QED BY <1>2, <1>5

\* The image does not change.
LEMMA ImageStays ==
  ASSUME UNCHANGED image
  PROVE  /\ LaidOut => LaidOut'
         /\ \A k : Addr(k)' = Addr(k)
         /\ m_size' = m_size /\ Described' = Described /\ Mistaken' = Mistaken
         /\ \A targets, k, n : m_reloc_targets' = targets /\ FoundIn(targets, k, n)
                                 => Found(k, n)'
<1>1. /\ table' = table /\ words' = words /\ reloc_section_start' = reloc_section_start
      /\ reloc_section_size' = reloc_section_size
  BY DEF image
<1>2. m_size' = m_size /\ \A k : Addr(k)' = Addr(k)
  BY <1>1 DEF m_size, Addr
<1>3. \A a : WordAt(a)' = WordAt(a)
  BY <1>1 DEF WordAt
<1>4. \A a : DoublewordAt(a)' = DoublewordAt(a)
  BY <1>3 DEF DoublewordAt
<1>5. \A a : IsAddrWithinModule(a)' <=> IsAddrWithinModule(a)
  BY <1>2 DEF IsAddrWithinModule, IsAddrMapped_Imp
<1>6. \A b, j : Pointee(b, j)' = Pointee(b, j)
  BY <1>1, <1>4 DEF Pointee
<1>7. LaidOut => LaidOut'
  BY <1>1 DEF LaidOut
<1>8. \A k : Pointees(k)' = Pointees(k)
  BY <1>1, <1>4 DEF Pointees
<1>9. Described' = Described
  BY <1>1, <1>5, <1>8 DEF Described
<1>10. Mistaken' = Mistaken
  BY <1>1, <1>4 DEF Mistaken
<1>11. ASSUME NEW targets, NEW k, NEW n, m_reloc_targets' = targets, FoundIn(targets, k, n)
       PROVE  Found(k, n)'
  BY <1>1, <1>5, <1>6, <1>11 DEF Found, FoundIn
<1> QED BY <1>2, <1>7, <1>9, <1>10, <1>11

\* Where the walk reads items: in the image, until it is at its end.
LEMMA ItemAddr ==
  ASSUME LaidOut, NEW k \in 1..Len(table), NEW n \in Nat, NEW a, a = Addr(k) + 2 * n + 8
  PROVE  /\ IsAddrWithinModule(a) <=> a < m_address + m_size
         /\ IsAddrWithinModule(a) => Addr(k) + 2 * (n + 1) + 8 <= m_address + m_size
         /\ Addr(k) + 2 * 0 + 8 <= m_address + m_size
         /\ a = m_address + m_size /\ n < Len(Block(table[k])) =>
              \E m \in {0, 2, 4, 6} :
                reloc_section_start + 2 * Len(TableWords(table)) + m = m_address + m_size
<1>1. PICK p : p = Starts(table)[k]
  OBVIOUS
<1>2. k \in 1..(Len(table) + 1) /\ k + 1 \in 1..(Len(table) + 1)
  BY AddrsAre
<1>3. /\ p \in Nat /\ Starts(table)[k + 1] = p + Len(Block(table[k]))
      /\ Len(Block(table[k])) \in Nat /\ p + Len(Block(table[k])) <= Len(TableWords(table))
      /\ Addr(k) = reloc_section_start + 2 * p
  BY <1>1, <1>2, AddrsAre DEF Addr
<1>4. Len(Block(table[k])) >= 4
  <2>1. table[k] \in PageBlocks
    BY AddrsAre DEF Linked
  <2>2. Len(Items(table[k])) \in Nat /\ Len(Block(table[k])) = 4 + Len(Items(table[k]))
    BY <2>1, BlockIs
  <2> QED BY <2>2
<1>5. PICK size \in Nat : size = Len(TableWords(table))
  BY TableIs DEF LaidOut
<1>6. reloc_section_start \in Nat
  BY ReadWords
<1>7. PICK e \in Nat : m_address + m_size = reloc_section_start + 2 * e /\ size <= e
  BY <1>5, ReadWords
<1>8. PICK q \in Nat : q = p + n + 4
  BY <1>3
<1>9. a = reloc_section_start + 2 * q
  BY <1>3, <1>6, <1>8
<1>10. IsAddrWithinModule(a) <=> a < m_address + m_size
  BY <1>9, ReadWords
<1>11. IsAddrWithinModule(a) => Addr(k) + 2 * (n + 1) + 8 <= m_address + m_size
  BY <1>3, <1>6, <1>7, <1>8, <1>9, <1>10
<1>12. Addr(k) + 2 * 0 + 8 <= m_address + m_size
  BY <1>3, <1>4, <1>5, <1>6, <1>7
<1>13. ASSUME a = m_address + m_size, n < Len(Block(table[k]))
       PROVE  \E m \in {0, 2, 4, 6} :
                reloc_section_start + 2 * Len(TableWords(table)) + m = m_address + m_size
  <2>1. q = e
    BY <1>6, <1>7, <1>9, <1>13
  <2>2. q < size + 4 /\ size <= q
    BY <1>3, <1>5, <1>7, <1>8, <1>13, <2>1
  <2>3. 2 * (q - size) \in {0, 2, 4, 6}
    BY <2>2
  <2>4. reloc_section_start + 2 * size + 2 * (q - size) = m_address + m_size
    BY <1>6, <1>7, <2>1
  <2> QED BY <1>5, <2>3, <2>4
<1> QED BY <1>10, <1>11, <1>12, <1>13

\* The addresses that the walk is at are those of blocks, in order.
LEMMA BlockAddr ==
  ASSUME LaidOut, NEW k \in 1..(Len(table) + 1)
  PROVE  /\ k <= Len(table) => Addr(k) < reloc_section_start + reloc_section_size
         /\ reloc_section_start + 2 * Len(TableWords(table))
              <= reloc_section_start + reloc_section_size
<1>1. PICK p : p = Starts(table)[k]
  OBVIOUS
<1>2. PICK size \in Nat : size = Len(TableWords(table))
  BY TableIs DEF LaidOut
<1>3. /\ reloc_section_start \in Nat /\ reloc_section_size \in Nat
      /\ 2 * size <= reloc_section_size
  BY <1>2, ReadWords DEF LaidOut
<1>4. p \in Nat /\ Addr(k) = reloc_section_start + 2 * p
  BY <1>1, AddrsAre DEF Addr
<1>5. ASSUME k <= Len(table) PROVE p < size
  <2>1. k \in 1..Len(table) /\ k + 1 \in 1..(Len(table) + 1)
    BY <1>5, AddrsAre
  <2>2. table[k] \in PageBlocks
    BY <2>1, AddrsAre DEF Linked
  <2>3. Len(Items(table[k])) \in Nat /\ Len(Block(table[k])) = 4 + Len(Items(table[k]))
    BY <2>2, BlockIs
  <2>4. p + Len(Block(table[k])) <= size
    BY <1>1, <1>2, <2>1, AddrsAre
  <2> QED BY <1>2, <1>4, <2>3, <2>4
<1> QED BY <1>2, <1>3, <1>4, <1>5

\* The walk begins in front of the first block.
LEMMA WalkBegins == Init => WalkInv
<1> SUFFICES ASSUME Init PROVE WalkInv
  OBVIOUS
<1>1. table \in Tables
  BY DEF Init
<1>2. PICK content \in Contents, padding \in Paddings :
        LET front == Zeros(PAGE \div 2) \o
                     FlattenSeq([k \in 1..Len(content) |-> TwoWords(content[k])])
        IN /\ words = front \o TableWords(table) \o Zeros((padding[1] + padding[2]) \div 2)
           /\ reloc_section_start = m_address + 2 * Len(front)
           /\ reloc_section_size = 2 * Len(TableWords(table)) + padding[1]
  BY DEF Init
<1>3. PICK data :
        /\ data = Zeros(PAGE \div 2) \o
                  FlattenSeq([k \in 1..Len(content) |-> TwoWords(content[k])])
        /\ words = data \o TableWords(table) \o Zeros((padding[1] + padding[2]) \div 2)
        /\ reloc_section_start = m_address + 2 * Len(data)
        /\ reloc_section_size = 2 * Len(TableWords(table)) + padding[1]
  BY <1>2
<1>4. padding[1] \in Nat /\ (padding[1] + padding[2]) \div 2 \in Nat
  BY RelocationWalkAssumption
<1>5. ASSUME NEW z \in Nat
      PROVE  /\ Zeros(z) \in Seq(Nat) /\ Len(Zeros(z)) = z
             /\ \A x \in 1..z : Zeros(z)[x] = 0
  BY DEF Zeros
<1>6. data \in Seq(Nat) /\ Len(data) \in Nat
  <2>1. content \in Seq(Nat)
    BY RelocationWalkAssumption
  <2>2. Len(content) \in Nat /\ \A k \in 1..Len(content) : content[k] \in Nat
    BY <2>1, LenProperties, ElementOfSeq
  <2>3. \A d \in Nat : TwoWords(d) \in Seq(Nat)
    <3>1. \A d \in Nat : d % WORD \in Nat /\ d \div WORD \in Nat
      BY Pages, Division
    <3> QED BY <3>1 DEF TwoWords
  <2>4. PICK seqs : seqs = [k \in 1..Len(content) |-> TwoWords(content[k])]
    OBVIOUS
  <2>5. seqs \in [1..Len(content) -> Seq(Nat)]
    BY <2>2, <2>3, <2>4
  <2>6. FlattenSeq(seqs) \in Seq(Nat)
    BY <2>2, <2>5, FlattenParts
  <2>7. PAGE \div 2 \in Nat
    BY Pages
  <2>8. Zeros(PAGE \div 2) \in Seq(Nat)
    BY <1>5, <2>7
  <2>9. data \in Seq(Nat)
    BY <1>3, <2>4, <2>6, <2>8, ConcatProperties
  <2> QED BY <2>9, LenProperties
<1>7. PICK t : t = TableWords(table) /\ t \in Seq(Nat) /\ Len(t) \in Nat
  BY <1>1, TableIs
<1>8. PICK z : /\ z = Zeros((padding[1] + padding[2]) \div 2) /\ z \in Seq(Nat)
               /\ Len(z) \in Nat /\ \A x \in 1..Len(z) : z[x] = 0
  BY <1>4, <1>5
<1>9. PICK s : s = data \o t
  OBVIOUS
<1>10. /\ s \in Seq(Nat) /\ Len(s) = Len(data) + Len(t)
      /\ \A x \in 1..(Len(data) + Len(t)) :
           s[x] = IF x <= Len(data) THEN data[x] ELSE t[x - Len(data)]
  <2>1. data \in Seq(Nat) /\ t \in Seq(Nat)
    BY ONLY <1>6, <1>7
  <2> QED BY ONLY <1>9, <2>1, ConcatProperties
<1>11. /\ words \in Seq(Nat) /\ Len(words) = Len(s) + Len(z)
       /\ \A x \in 1..(Len(s) + Len(z)) :
            words[x] = IF x <= Len(s) THEN s[x] ELSE z[x - Len(s)]
  <2>1. words = s \o z
    BY <1>3, <1>7, <1>8, <1>9
  <2>2. s \in Seq(Nat) /\ z \in Seq(Nat)
    BY ONLY <1>8, <1>10
  <2> QED BY ONLY <2>1, <2>2, ConcatProperties
<1>12. ASSUME NEW x \in 1..Len(t) PROVE words[Len(data) + x] = t[x]
  <2>1. PICK y : y = Len(data) + x
    OBVIOUS
  <2>2. /\ y \in 1..(Len(s) + Len(z)) /\ y <= Len(s) /\ ~(y <= Len(data))
        /\ y \in 1..(Len(data) + Len(t)) /\ y - Len(data) = x
    <3>1. /\ Len(data) \in Nat /\ Len(t) \in Nat /\ Len(z) \in Nat
          /\ Len(s) = Len(data) + Len(t)
      BY ONLY <1>6, <1>7, <1>8, <1>10
    <3> QED BY ONLY <2>1, <3>1, x \in 1..Len(t)
  <2>3. words[y] = s[y]
    BY ONLY <1>11, <2>2
  <2>4. s[y] = t[x]
    BY ONLY <1>10, <2>2
  <2> QED BY ONLY <2>1, <2>3, <2>4
<1>13. ASSUME NEW x \in 1..Len(words), x > Len(data) + Len(t) PROVE words[x] = 0
  <2>1. x \in 1..(Len(s) + Len(z)) /\ ~(x <= Len(s)) /\ x - Len(s) \in 1..Len(z)
    <3>1. /\ Len(data) \in Nat /\ Len(t) \in Nat /\ Len(z) \in Nat
          /\ Len(s) = Len(data) + Len(t) /\ Len(words) = Len(s) + Len(z)
      BY ONLY <1>6, <1>7, <1>8, <1>10, <1>11
    <3> QED BY ONLY <1>13, <3>1, x \in 1..Len(words)
  <2>2. words[x] = z[x - Len(s)]
    BY ONLY <1>11, <2>1
  <2> QED BY ONLY <1>8, <2>1, <2>2
<1>14. Len(data) + Len(t) <= Len(words)
  BY <1>6, <1>7, <1>8, <1>10, <1>11
<1>15. reloc_section_size \in Nat /\ 2 * Len(t) <= reloc_section_size
  BY <1>3, <1>4, <1>7
<1>16. LaidOut
  BY <1>1, <1>3, <1>6, <1>7, <1>11, <1>12, <1>13, <1>14, <1>15 DEF LaidOut
<1>17. pc = "head" /\ reloc_block_addr = Addr(1) /\ m_reloc_targets = {}
  BY <1>16, AddrsAre DEF Init
<1>18. Found(1, 0) /\ 1 \in 1..(Len(table) + 1)
  <2>1. \A b \in 1..Len(table) : \A j \in 1..Len(table[b].offsets) : ~(b < 1 \/ (b = 1 /\ j <= 0))
    OBVIOUS
  <2> QED BY <1>16, <2>1, AddrsAre DEF Found, FoundIn
<1>19. Walking
  BY <1>17, <1>18 DEF Walking, AtHead
<1>20. OnlyThose /\ ThrowsOnlyOutside
  BY <1>17 DEF OnlyThose, ThrowsOnlyOutside
<1> QED BY <1>16, <1>19, <1>20 DEF WalkInv

\* Where the walk may throw.
ReadsOutside ==
  \/ \E n \in {0, 2, 4, 6} :
       reloc_section_start + 2 * Len(TableWords(table)) + n = m_address + m_size
  \/ \E k \in 1..Len(table) : \E offset \in {0} \cup Range(table[k].offsets) :
       ~IsAddrWithinModule(m_address + table[k].page + offset)

LEMMA ReadsOutsideStays == UNCHANGED image /\ ReadsOutside => ReadsOutside'
<1> SUFFICES ASSUME UNCHANGED image, ReadsOutside PROVE ReadsOutside'
  OBVIOUS
<1>1. table' = table /\ words' = words /\ reloc_section_start' = reloc_section_start
  BY DEF image
<1>2. m_size' = m_size /\ TableWords(table)' = TableWords(table)
  BY <1>1 DEF m_size, TableWords
<1>3. \A a : IsAddrWithinModule(a)' <=> IsAddrWithinModule(a)
  BY <1>2 DEF IsAddrWithinModule, IsAddrMapped_Imp
<1> QED BY <1>1, <1>2, <1>3 DEF ReadsOutside

\* A read that throws leaves all but pc as it was.
LEMMA ThrowKeeps ==
  ASSUME WalkInv, ReadsOutside, NEW addrs, Throw(addrs)
  PROVE  WalkInv'
<1>1. /\ UNCHANGED image /\ pc' = "thrown" /\ m_reloc_targets' = m_reloc_targets
  BY DEF Throw
<1>2. LaidOut' /\ Described' = Described /\ Mistaken' = Mistaken
  BY <1>1, ImageStays DEF WalkInv
<1>3. ReadsOutside'
  BY <1>1, ReadsOutsideStays
<1>4. Walking' /\ OnlyThose'
  BY <1>1, <1>2 DEF Walking, WalkInv, OnlyThose
<1>5. ThrowsOnlyOutside'
  BY <1>3 DEF ThrowsOnlyOutside, ReadsOutside
<1> QED BY <1>2, <1>4, <1>5 DEF WalkInv

LEMMA FinishKeeps ==
  ASSUME WalkInv, Finish PROVE WalkInv'
<1>1. /\ pc = "head" /\ pc' = "done" /\ UNCHANGED image /\ m_reloc_targets' = m_reloc_targets
      /\ reloc_block_addr >= reloc_section_start + reloc_section_size
  BY DEF Finish
<1>2. LaidOut' /\ Described' = Described /\ Mistaken' = Mistaken /\ LaidOut
  BY <1>1, ImageStays DEF WalkInv
<1>3. PICK k \in 1..(Len(table) + 1) : reloc_block_addr = Addr(k) /\ Found(k, 0)
  BY <1>1 DEF WalkInv, Walking, AtHead
<1>4. k = Len(table) + 1
  <2>1. Addr(k) \in Nat /\ Len(table) \in Nat /\ reloc_section_start \in Nat
        /\ reloc_section_size \in Nat
    BY <1>2, AddrsAre, ReadWords DEF LaidOut
  <2>2. CASE k <= Len(table)
    <3>1. Addr(k) < reloc_section_start + reloc_section_size
      BY <1>2, <2>2, BlockAddr
    <3> QED BY <1>1, <1>3, <2>1, <3>1
  <2> QED BY <2>1, <2>2
<1>5. FoundIn(m_reloc_targets, Len(table) + 1, 0)
  BY <1>3, <1>4 DEF Found
<1>6. Found(Len(table) + 1, 0)'
  <2>1. table' = table
    BY <1>1 DEF image
  <2>2. PICK n : n = Len(table) + 1
    OBVIOUS
  <2>3. Found(n, 0)'
    BY <1>1, <1>5, <2>2, ImageStays
  <2> QED BY <2>1, <2>2, <2>3 DEF Found
<1>7. Walking' /\ OnlyThose' /\ ThrowsOnlyOutside'
  BY <1>1, <1>2, <1>6 DEF Walking, WalkInv, OnlyThose, ThrowsOnlyOutside
<1> QED BY <1>2, <1>7 DEF WalkInv

\* All items of block k have been found when the walk goes on to the next.
LEMMA NextBlockKeeps ==
  ASSUME WalkInv, NextBlock PROVE WalkInv'
<1>1. /\ pc = "item" /\ pc' = "head" /\ UNCHANGED image /\ m_reloc_targets' = m_reloc_targets
      /\ i >= block_len /\ reloc_block_addr' = reloc_block_addr + block_len
  BY DEF NextBlock
<1>2. LaidOut' /\ Described' = Described /\ Mistaken' = Mistaken /\ LaidOut
  BY <1>1, ImageStays DEF WalkInv
<1>3. PICK k \in 1..Len(table), n \in Nat : AtItem(k, n)
  BY <1>1 DEF WalkInv, Walking
<1>4. /\ Len(table) \in Nat /\ Linked(table[k]) /\ Addr(k + 1) = Addr(k) + BlockSize(table[k])
      /\ Len(Block(table[k])) \in Nat
  BY <1>2, AddrsAre
<1>5. /\ BlockSize(table[k]) = 2 * Len(Block(table[k]))
      /\ Len(Block(table[k])) = 4 + Len(Items(table[k])) /\ Len(Items(table[k])) \in Nat
      /\ Len(table[k].offsets) \in Nat
      /\ Len(Items(table[k])) \in {Len(table[k].offsets), Len(table[k].offsets) + 1}
  BY <1>4, BlockIs, ItemsAre DEF Linked
<1>6. n = Len(Block(table[k]))
  BY <1>1, <1>3, <1>4, <1>5 DEF AtItem
<1>7. FoundIn(m_reloc_targets, k + 1, 0)
  <2> SUFFICES ASSUME NEW b \in 1..Len(table), NEW j \in 1..Len(table[b].offsets),
                      b < k + 1 \/ (b = k + 1 /\ j <= 0), IsAddrWithinModule(Pointee(b, j))
               PROVE  Pointee(b, j) \in m_reloc_targets
    BY DEF FoundIn
  <2>1. b < k \/ (b = k /\ j <= n)
    <3>1. b < k + 1 /\ b \in Nat /\ k \in Nat /\ j \in Nat
      BY <1>4
    <3>2. CASE b = k
      <4>1. j <= Len(table[k].offsets)
        BY <3>2
      <4> QED BY <1>5, <1>6, <3>1, <3>2, <4>1
    <3> QED BY <3>1, <3>2
  <2>2. FoundIn(m_reloc_targets, k, n)
    BY <1>3 DEF AtItem, Found
  <2> QED BY <2>1, <2>2 DEF FoundIn
<1>8. PICK l : l = k + 1
  OBVIOUS
<1>9. l \in 1..(Len(table) + 1) /\ FoundIn(m_reloc_targets, l, 0) /\ Addr(l) = reloc_block_addr'
  BY <1>1, <1>3, <1>4, <1>7, <1>8 DEF AtItem
<1>10. Found(l, 0)' /\ Addr(l)' = reloc_block_addr' /\ table' = table
  BY <1>1, <1>9, ImageStays DEF image
<1>11. AtHead'
  BY <1>9, <1>10 DEF AtHead
<1>12. Walking' /\ OnlyThose' /\ ThrowsOnlyOutside'
  BY <1>1, <1>2, <1>11 DEF Walking, WalkInv, OnlyThose, ThrowsOnlyOutside
<1> QED BY <1>2, <1>12 DEF WalkInv

\* In front of a block its page and size are read; behind the last there are
\* zeros, or the image ends.
LEMMA BlockHeaderKeeps ==
  ASSUME WalkInv, BlockHeader PROVE WalkInv'
<1> DEFINE heads == {reloc_block_addr, reloc_block_addr + 4}
<1>1. /\ pc = "head" /\ LaidOut
      /\ \/ Throw(heads)
         \/ /\ \A a \in heads : IsAddrWithinModule(a)
            /\ block_base_addr' = DoublewordAt(reloc_block_addr)
            /\ block_len' = DoublewordAt(reloc_block_addr + 4)
            /\ i' = 0
            /\ pc' = IF block_base_addr' = 0 /\ block_len' = 0 THEN "done" ELSE "item"
            /\ UNCHANGED <<image, reloc_block_addr, m_reloc_targets>>
  BY DEF BlockHeader, WalkInv
<1>2. PICK k \in 1..(Len(table) + 1) : reloc_block_addr = Addr(k) /\ Found(k, 0)
  BY <1>1 DEF WalkInv, Walking, AtHead
<1>3. Len(table) \in Nat /\ Addr(k) \in Nat
  BY <1>1, AddrsAre
<1>4. CASE Throw(heads)
  <2>1. PICK a \in heads : ~IsAddrWithinModule(a)
    BY <1>4 DEF Throw
  <2>2. k = Len(table) + 1
    <3>1. CASE k \in 1..Len(table)
      <4>1. IsAddrWithinModule(Addr(k)) /\ IsAddrWithinModule(Addr(k) + 4)
        BY <1>1, <3>1, HeaderIs
      <4> QED BY <1>2, <2>1, <4>1
    <3> QED BY <1>3, <3>1
  <2>3. PICK size \in Nat : size = Len(TableWords(table))
    BY <1>1, TableIs DEF LaidOut
  <2>4. reloc_block_addr = reloc_section_start + 2 * size
    BY <1>1, <1>2, <2>2, <2>3, AddrsAre
  <2>5. PICK e \in Nat : m_address + m_size = reloc_section_start + 2 * e /\ size <= e
    BY <1>1, <2>3, ReadWords
  <2>6. reloc_section_start \in Nat
    BY <1>1, ReadWords
  <2>7. PICK n \in {0, 2} : a = reloc_section_start + 2 * (size + n)
    <3>1. CASE a = reloc_block_addr
      BY <2>3, <2>4, <2>6, <3>1
    <3>2. CASE a = reloc_block_addr + 4
      BY <2>3, <2>4, <2>6, <3>2
    <3> QED BY <2>1, <3>1, <3>2
  <2>8. ~(a < m_address + m_size)
    <3>1. size + n \in Nat
      BY <2>3
    <3> QED BY <1>1, <2>1, <2>7, <3>1, ReadWords
  <2>9. e - size \in {0, 1, 2}
    BY <2>3, <2>5, <2>6, <2>7, <2>8
  <2>10. 2 * (e - size) \in {0, 2, 4, 6}
    BY <2>9
  <2>11. reloc_section_start + 2 * size + 2 * (e - size) = m_address + m_size
    BY <2>3, <2>5, <2>6
  <2>12. ReadsOutside
    BY <2>3, <2>10, <2>11 DEF ReadsOutside
  <2> QED BY <1>4, <2>12, ThrowKeeps
<1>5. CASE ~Throw(heads)
  <2>1. /\ block_base_addr' = DoublewordAt(Addr(k)) /\ block_len' = DoublewordAt(Addr(k) + 4)
        /\ i' = 0 /\ UNCHANGED image /\ m_reloc_targets' = m_reloc_targets
        /\ pc' = IF block_base_addr' = 0 /\ block_len' = 0 THEN "done" ELSE "item"
        /\ reloc_block_addr' = Addr(k)
    BY <1>1, <1>2, <1>5
  <2>2. /\ LaidOut' /\ Described' = Described /\ Mistaken' = Mistaken /\ m_size' = m_size
        /\ Addr(k)' = Addr(k) /\ Found(k, 0)' /\ table' = table
    BY <1>1, <1>2, <2>1, ImageStays DEF Found, image
  <2>3. Walking'
    <3>1. CASE k = Len(table) + 1
      <4>1. block_base_addr' = 0 /\ block_len' = 0
        BY <1>1, <2>1, <3>1, EndIs
      <4>2. pc' = "done"
        BY <2>1, <4>1
      <4> QED BY <2>2, <3>1, <4>2 DEF Walking, Found
    <3>2. CASE k # Len(table) + 1
      <4>1. k \in 1..Len(table)
        BY <1>3, <3>2
      <4>2. block_base_addr' = table[k].page /\ block_len' = BlockSize(table[k])
        BY <1>1, <2>1, <4>1, HeaderIs
      <4>3. Linked(table[k]) /\ Len(Block(table[k])) \in Nat
        BY <1>1, <4>1, AddrsAre
      <4>4. /\ BlockSize(table[k]) = 2 * Len(Block(table[k]))
            /\ Len(Block(table[k])) = 4 + Len(Items(table[k])) /\ Len(Items(table[k])) \in Nat
        BY <4>3, BlockIs DEF Linked
      <4>5. pc' = "item"
        BY <2>1, <4>2, <4>4
      <4>6. Addr(k) + 2 * 0 + 8 <= m_address + m_size
        <5>1. PICK a : a = Addr(k) + 2 * 0 + 8
          OBVIOUS
        <5> QED BY <1>1, <4>1, <5>1, ItemAddr
      <4>7. /\ Addr(k)' + 2 * 0 + 8 <= m_address + m_size'
            /\ block_base_addr' = table'[k].page /\ block_len' = BlockSize(table[k])'
            /\ 0 <= Len(Block(table[k])) /\ Block(table[k])' = Block(table[k])
        <5>1. Block(table[k])' = Block(table[k]) /\ BlockSize(table[k])' = BlockSize(table[k])
          BY <2>2
        <5> QED BY <2>2, <4>2, <4>3, <4>6, <5>1
      <4>8. AtItem(k, 0)'
        BY <2>1, <2>2, <4>7 DEF AtItem
      <4> QED BY <2>2, <4>1, <4>5, <4>8 DEF Walking
    <3> QED BY <3>1, <3>2
  <2>4. OnlyThose' /\ ThrowsOnlyOutside'
    BY <2>1, <2>2 DEF WalkInv, OnlyThose, ThrowsOnlyOutside
  <2> QED BY <2>2, <2>3, <2>4 DEF WalkInv
<1> QED BY <1>4, <1>5

\* One more item has been looked at.
LEMMA FoundMore ==
  ASSUME LaidOut, NEW k \in 1..Len(table), NEW n \in Nat, NEW found, NEW targets,
         FoundIn(found, k, n), found \subseteq targets,
         n < Len(table[k].offsets) /\ IsAddrWithinModule(Pointee(k, n + 1))
           => Pointee(k, n + 1) \in targets
  PROVE  FoundIn(targets, k, n + 1)
<1> SUFFICES ASSUME NEW b \in 1..Len(table), NEW j \in 1..Len(table[b].offsets),
                    b < k \/ (b = k /\ j <= n + 1), IsAddrWithinModule(Pointee(b, j))
             PROVE  Pointee(b, j) \in targets
  BY DEF FoundIn
<1>1. CASE b < k \/ (b = k /\ j <= n)
  <2>1. Pointee(b, j) \in found
    BY <1>1 DEF FoundIn
  <2> QED BY <2>1
<1>2. CASE ~(b < k \/ (b = k /\ j <= n))
  <2>1. Linked(table[b])
    BY AddrsAre
  <2>2. Len(table[b].offsets) \in Nat
    BY <2>1, ItemsAre DEF Linked
  <2>3. b = k /\ j = n + 1 /\ n < Len(table[b].offsets)
    BY <1>2, <2>2
  <2> QED BY <2>3
<1> QED BY <1>1, <1>2

\* An item that is known as such, and what it points at.
LEMMA ItemTarget ==
  ASSUME LaidOut, NEW k \in 1..Len(table), NEW n \in Nat, n < Len(Block(table[k])),
         block_base_addr = table[k].page,
         NEW w, w = WordAt(Addr(k) + 2 * n + 8), w \div PAGE = HIGHLOW
  PROVE  /\ \E offset \in {0} \cup Range(table[k].offsets) :
              TargetAddr(w) = m_address + table[k].page + offset
         /\ n < Len(table[k].offsets) => DoublewordAt(TargetAddr(w)) = Pointee(k, n + 1)
         /\ IsAddrWithinModule(DoublewordAt(TargetAddr(w)))
              => DoublewordAt(TargetAddr(w)) \in Described \cup Mistaken
<1>1. /\ Linked(table[k]) /\ Len(table) \in Nat /\ m_address \in Nat
      /\ table[k].page \in Nat /\ HIGHLOW = 3
  BY AddrsAre, Pages DEF Linked, PageBlocks
<1>2. /\ Len(table[k].offsets) \in Nat /\ table[k].offsets \in Seq(0..(PAGE - 1))
  BY <1>1, ItemsAre DEF Linked, PageBlocks
<1>3. /\ n < Len(table[k].offsets) =>
           w \div PAGE = 3 /\ w % PAGE = table[k].offsets[n + 1]
      /\ w \div PAGE = 3 =>
           \/ n < Len(table[k].offsets)
           \/ /\ k < Len(table) /\ (table[k + 1].page % WORD) \div PAGE = 3
              /\ w % PAGE = 0
  BY ItemIs
<1>4. CASE n < Len(table[k].offsets)
  <2>1. PICK j \in 1..Len(table[k].offsets) : j = n + 1
    BY <1>2, <1>4
  <2>2. table[k].offsets[j] \in 0..(PAGE - 1) /\ table[k].offsets[j] \in Range(table[k].offsets)
    <3>1. PICK os : os = table[k].offsets
      OBVIOUS
    <3>2. os \in Seq(0..(PAGE - 1)) /\ j \in 1..Len(os) /\ DOMAIN os = 1..Len(os)
      BY <1>2, <3>1, LenProperties
    <3>3. os[j] \in 0..(PAGE - 1)
      BY <3>2, ElementOfSeq
    <3>4. os[j] \in Range(os)
      BY <3>2 DEF Range
    <3> QED BY <3>1, <3>3, <3>4
  <2>3. TargetAddr(w) = m_address + table[k].page + table[k].offsets[j]
    <3>1. TargetAddr(w) = m_address + table[k].offsets[j] + table[k].page
      BY <1>3, <1>4, <2>1 DEF TargetAddr
    <3>2. table[k].offsets[j] \in Nat
      BY <2>2, Pages
    <3> QED BY ONLY <1>1, <3>1, <3>2
  <2>4. DoublewordAt(TargetAddr(w)) = Pointee(k, j)
    BY <2>3 DEF Pointee
  <2>5. Pointee(k, j) \in Pointees(k)
    BY DEF Pointee, Pointees
  <2>6. IsAddrWithinModule(Pointee(k, j)) => Pointee(k, j) \in Described
    BY <2>5 DEF Described
  <2> QED BY <2>1, <2>2, <2>3, <2>4, <2>6
<1>5. CASE ~(n < Len(table[k].offsets))
  <2>1. k < Len(table) /\ (table[k + 1].page % WORD) \div PAGE = HIGHLOW /\ w % PAGE = 0
    BY <1>1, <1>3, <1>5
  <2>2. /\ TargetAddr(w) = m_address + table[k].page + 0
        /\ TargetAddr(w) = m_address + table[k].page
    BY <1>1, <2>1 DEF TargetAddr
  <2>3. k \in 1..(Len(table) - 1)
    BY <1>1, <2>1
  <2>4. DoublewordAt(TargetAddr(w)) \in Mistaken
    BY <2>1, <2>2, <2>3 DEF Mistaken
  <2> QED BY <1>5, <2>2, <2>4
<1> QED BY <1>4, <1>5

LEMMA ItemKeeps ==
  ASSUME WalkInv, Item PROVE WalkInv'
<1>1. pc = "item" /\ i < block_len /\ LaidOut /\ Len(table) \in Nat
  BY AddrsAre DEF Item, WalkInv
<1>2. PICK k \in 1..Len(table), n \in Nat : AtItem(k, n)
  BY <1>1 DEF WalkInv, Walking
<1>3. PICK a, w : a = reloc_block_addr + i + 8 /\ w = WordAt(a)
  OBVIOUS
<1>4. /\ reloc_block_addr = Addr(k) /\ block_base_addr = table[k].page
      /\ block_len = BlockSize(table[k]) /\ i = 2 * n /\ a = Addr(k) + 2 * n + 8
      /\ a <= m_address + m_size /\ FoundIn(m_reloc_targets, k, n)
  BY <1>2, <1>3 DEF AtItem, Found
<1>5. /\ Addr(k) \in Nat /\ m_address + m_size \in Nat /\ Linked(table[k])
      /\ Len(Block(table[k])) \in Nat
  <2>1. k \in 1..(Len(table) + 1)
    BY <1>1
  <2>2. m_address \in Nat /\ m_size \in Nat
    BY <1>1, ReadWords, Pages
  <2>3. Addr(k) \in Nat /\ Linked(table[k]) /\ Len(Block(table[k])) \in Nat
    BY <1>1, <2>1, AddrsAre
  <2> QED BY <2>2, <2>3
<1>6. n < Len(Block(table[k]))
  <2>1. BlockSize(table[k]) = 2 * Len(Block(table[k]))
    BY <1>5, BlockIs DEF Linked
  <2> QED BY <1>1, <1>4, <1>5, <2>1
<1>7. \/ Throw({a})
      \/ /\ w \div PAGE = HIGHLOW /\ Throw({TargetAddr(w)})
      \/ /\ IsAddrWithinModule(a) /\ w \div PAGE = HIGHLOW
         /\ LET reloc_target == DoublewordAt(TargetAddr(w))
            IN m_reloc_targets' = IF IsAddrWithinModule(reloc_target)
                                  THEN m_reloc_targets \cup {reloc_target}
                                  ELSE m_reloc_targets
         /\ i' = i + 2
         /\ UNCHANGED <<image, reloc_block_addr, block_base_addr, block_len, pc>>
      \/ /\ IsAddrWithinModule(a) /\ w \div PAGE # HIGHLOW
         /\ i' = i + 2
         /\ UNCHANGED <<image, reloc_block_addr, block_base_addr, block_len,
                        pc, m_reloc_targets>>
  BY <1>3 DEF Item
<1>8. CASE Throw({a})
  <2>1. ~IsAddrWithinModule(a)
    BY <1>8 DEF Throw
  <2>2. a = m_address + m_size
    <3>1. ~(a < m_address + m_size)
      BY <1>1, <1>4, <2>1, ItemAddr
    <3>2. a \in Nat
      BY <1>4, <1>5
    <3> QED BY <1>4, <1>5, <3>1, <3>2
  <2>3. ReadsOutside
    <3>1. \E m \in {0, 2, 4, 6} :
            reloc_section_start + 2 * Len(TableWords(table)) + m = m_address + m_size
      BY <1>1, <1>4, <1>6, <2>2, ItemAddr
    <3> QED BY <3>1 DEF ReadsOutside
  <2> QED BY <1>8, <2>3, ThrowKeeps
<1>9. CASE w \div PAGE = HIGHLOW /\ Throw({TargetAddr(w)})
  <2>1. ~IsAddrWithinModule(TargetAddr(w))
    BY <1>9 DEF Throw
  <2>2. PICK offset \in {0} \cup Range(table[k].offsets) :
          TargetAddr(w) = m_address + table[k].page + offset
    BY <1>1, <1>3, <1>4, <1>6, <1>9, ItemTarget
  <2>3. ReadsOutside
    BY <2>1, <2>2 DEF ReadsOutside
  <2> QED BY <1>9, <2>3, ThrowKeeps
<1>10. ASSUME NEW targets, targets = m_reloc_targets', m_reloc_targets \subseteq targets,
              n < Len(table[k].offsets) /\ IsAddrWithinModule(Pointee(k, n + 1))
                => Pointee(k, n + 1) \in targets,
              targets \subseteq Described \cup Mistaken, IsAddrWithinModule(a), i' = i + 2,
              UNCHANGED <<image, reloc_block_addr, block_base_addr, block_len, pc>>
       PROVE  WalkInv'
  <2>1. FoundIn(targets, k, n + 1)
    BY <1>1, <1>4, <1>10, FoundMore
  <2>2. /\ UNCHANGED image /\ table' = table /\ pc' = "item" /\ i' = i + 2
        /\ reloc_block_addr' = reloc_block_addr /\ block_base_addr' = block_base_addr
        /\ block_len' = block_len /\ m_reloc_targets' = targets
    BY <1>1, <1>10 DEF image
  <2>3. /\ LaidOut' /\ Described' = Described /\ Mistaken' = Mistaken /\ m_size' = m_size
        /\ Addr(k)' = Addr(k) /\ Found(k, n + 1)'
    BY <1>1, <2>1, <2>2, ImageStays
  <2>4. /\ i' = 2 * (n + 1) /\ n + 1 \in Nat /\ n + 1 <= Len(Block(table[k]))
    BY <1>4, <1>5, <1>6, <2>2
  <2>5. Addr(k) + 2 * (n + 1) + 8 <= m_address + m_size
    BY <1>1, <1>4, <1>10, ItemAddr
  <2>6. Block(table[k])' = Block(table[k]) /\ BlockSize(table[k])' = BlockSize(table[k])
    BY <2>2
  <2>7. AtItem(k, n + 1)'
    BY <1>4, <2>2, <2>3, <2>4, <2>5, <2>6 DEF AtItem
  <2>8. Walking'
    BY <2>2, <2>4, <2>7 DEF Walking
  <2>9. OnlyThose' /\ ThrowsOnlyOutside'
    BY <1>10, <2>2, <2>3 DEF OnlyThose, ThrowsOnlyOutside
  <2> QED BY <2>3, <2>8, <2>9 DEF WalkInv
<1>11. m_reloc_targets \subseteq Described \cup Mistaken
  BY DEF WalkInv, OnlyThose
<1>12. ASSUME IsAddrWithinModule(a), w \div PAGE = HIGHLOW,
              m_reloc_targets' = IF IsAddrWithinModule(DoublewordAt(TargetAddr(w)))
                                 THEN m_reloc_targets \cup {DoublewordAt(TargetAddr(w))}
                                 ELSE m_reloc_targets,
              i' = i + 2,
              UNCHANGED <<image, reloc_block_addr, block_base_addr, block_len, pc>>
       PROVE  WalkInv'
  <2>1. /\ n < Len(table[k].offsets) => DoublewordAt(TargetAddr(w)) = Pointee(k, n + 1)
        /\ IsAddrWithinModule(DoublewordAt(TargetAddr(w)))
             => DoublewordAt(TargetAddr(w)) \in Described \cup Mistaken
    BY <1>1, <1>3, <1>4, <1>6, <1>12, ItemTarget
  <2>2. PICK targets : targets = m_reloc_targets'
    OBVIOUS
  <2>3. /\ m_reloc_targets \subseteq targets /\ targets \subseteq Described \cup Mistaken
        /\ n < Len(table[k].offsets) /\ IsAddrWithinModule(Pointee(k, n + 1))
             => Pointee(k, n + 1) \in targets
    BY <1>11, <1>12, <2>1, <2>2
  <2> QED BY <1>10, <1>12, <2>2, <2>3
<1>13. ASSUME IsAddrWithinModule(a), w \div PAGE # HIGHLOW, i' = i + 2,
              UNCHANGED <<image, reloc_block_addr, block_base_addr, block_len,
                          pc, m_reloc_targets>>
       PROVE  WalkInv'
  <2>1. ~(n < Len(table[k].offsets))
    BY <1>1, <1>3, <1>4, <1>6, <1>13, ItemIs, Pages
  <2>2. PICK targets : targets = m_reloc_targets'
    OBVIOUS
  <2>3. targets = m_reloc_targets
    BY <1>13, <2>2
  <2> QED BY <1>10, <1>11, <1>13, <2>1, <2>2, <2>3
<1> QED BY <1>7, <1>8, <1>9, <1>12, <1>13

\* A step of something else.
LEMMA WalkRests ==
  ASSUME WalkInv, UNCHANGED vars PROVE WalkInv'
<1>1. /\ table' = table /\ words' = words /\ reloc_section_start' = reloc_section_start
      /\ reloc_section_size' = reloc_section_size /\ reloc_block_addr' = reloc_block_addr
      /\ block_base_addr' = block_base_addr /\ block_len' = block_len /\ i' = i
      /\ pc' = pc /\ m_reloc_targets' = m_reloc_targets /\ UNCHANGED image
  BY DEF vars, image, locals
<1>2. /\ LaidOut' /\ Described' = Described /\ Mistaken' = Mistaken /\ m_size' = m_size
      /\ \A k : Addr(k)' = Addr(k)
  BY <1>1, ImageStays DEF WalkInv
<1>3. ASSUME NEW k, NEW n, Found(k, n) PROVE Found(k, n)'
  <2>1. PICK targets : targets = m_reloc_targets
    OBVIOUS
  <2>2. m_reloc_targets' = targets /\ FoundIn(targets, k, n)
    BY <1>1, <1>3, <2>1 DEF Found
  <2> QED BY <1>1, <2>2, ImageStays
<1>4. AtHead => AtHead'
  BY <1>1, <1>2, <1>3 DEF AtHead
<1>5. \A k : Block(table[k])' = Block(table[k]) /\ BlockSize(table[k])' = BlockSize(table[k])
  BY <1>1
<1>6. \A k, n : AtItem(k, n) => AtItem(k, n)'
  BY <1>1, <1>2, <1>3, <1>5 DEF AtItem
<1>7. Found(Len(table) + 1, 0) => Found(Len(table) + 1, 0)'
  <2>1. PICK n : n = Len(table) + 1
    OBVIOUS
  <2>2. Found(n, 0) => Found(n, 0)'
    BY <1>3
  <2> QED BY <1>1, <2>1, <2>2 DEF Found
<1>8. Walking'
  BY <1>1, <1>4, <1>6, <1>7 DEF WalkInv, Walking
<1>9. OnlyThose'
  BY <1>1, <1>2 DEF WalkInv, OnlyThose
<1>10. ThrowsOnlyOutside'
  <2>1. pc = "thrown" => ReadsOutside
    BY DEF WalkInv, ThrowsOnlyOutside, ReadsOutside
  <2>2. pc' = "thrown" => ReadsOutside'
    BY <1>1, <2>1, ReadsOutsideStays
  <2> QED BY <2>2 DEF ThrowsOnlyOutside, ReadsOutside
<1> QED BY <1>2, <1>8, <1>9, <1>10 DEF WalkInv

\* WalkInv, the inductive invariant: the walk is always in front of a block or an
\* item, it has found what lies before, and it has found nothing else
\* (ImageInfo.cpp:155-189).
THEOREM WalkInvariance == Spec => []WalkInv
<1>1. Init => WalkInv
  BY WalkBegins
<1>2. WalkInv /\ [Next]_vars => WalkInv'
  BY BlockHeaderKeeps, FinishKeeps, ItemKeeps, NextBlockKeeps, WalkRests
     DEF Next, AnalyzeRelocationEntry, Stopped
<1> QED BY <1>1, <1>2, PTL DEF Spec

\* A walk that ends has found every relocated pointer into the image, and at no
\* time anything else, but for pages that look like items (ImageInfo.cpp:155-189).
THEOREM TargetsExactCorrect == Spec => []TargetsExact
<1>1. WalkInv => TargetsExact
  <2> SUFFICES ASSUME WalkInv PROVE TargetsExact
    OBVIOUS
  <2>1. pc = "done" => Described \subseteq m_reloc_targets
    BY FoundAll DEF WalkInv, Walking
  <2> QED BY <2>1 DEF WalkInv, OnlyThose, TargetsExact
<1> QED BY <1>1, WalkInvariance, PTL

\* The walk throws only for want of 8 bytes behind the table, or for a page or an
\* item outside the image (ImageInfo.cpp:172-174, ImageInfo.h:85-97).
THEOREM ThrowsOnlyOutsideCorrect == Spec => []ThrowsOnlyOutside
<1>1. WalkInv => ThrowsOnlyOutside
  BY DEF WalkInv
<1> QED BY <1>1, WalkInvariance, PTL
-----------------------------------------------------------------------------
(***************************************************************************)
(* That the walk over the relocation table ends, but for the fairness it   *)
(* takes: what is left of the table, a number, shrinks with every step.    *)
(***************************************************************************)
TableEnd == reloc_section_start + 2 * Len(TableWords(table))

\* A block's header takes no room: three for each byte leave some for it.
WalkLeft ==
  CASE pc = "head" -> 3 * (TableEnd - reloc_block_addr) + 1
    [] pc = "item" -> 3 * (TableEnd - reloc_block_addr - i) + (IF i < block_len THEN 0 ELSE 2)
    [] OTHER -> 0

LessOfWalk == WalkLeft \in Nat /\ WalkLeft' < WalkLeft

\* Where the walk is in front of block k.
LEMMA HeadLeft ==
  ASSUME LaidOut, NEW k \in 1..(Len(table) + 1), reloc_block_addr = Addr(k), pc = "head"
  PROVE  /\ TableEnd \in Nat /\ reloc_block_addr \in Nat /\ reloc_block_addr <= TableEnd
         /\ WalkLeft = 3 * (TableEnd - reloc_block_addr) + 1
<1>1. PICK start \in Nat, size \in Nat, p \in Nat :
        /\ start = reloc_section_start /\ size = Len(TableWords(table))
        /\ p = Starts(table)[k] /\ p <= size
  BY AddrsAre, ReadWords, TableIs DEF LaidOut
<1>2. TableEnd = start + 2 * size /\ reloc_block_addr = start + 2 * p
  BY <1>1 DEF TableEnd, Addr
<1> QED BY <1>1, <1>2 DEF WalkLeft

\* In front of item n of block k, or behind the last.
LEMMA ItemLeft ==
  ASSUME LaidOut, NEW k \in 1..Len(table), NEW n \in Nat, AtItem(k, n), pc = "item"
  PROVE  /\ TableEnd \in Nat /\ reloc_block_addr \in Nat /\ i \in Nat /\ block_len \in Nat
         /\ reloc_block_addr + block_len <= TableEnd /\ i <= block_len
         /\ i < block_len => i + 2 <= block_len
         /\ WalkLeft = 3 * (TableEnd - reloc_block_addr - i) + (IF i < block_len THEN 0 ELSE 2)
<1>1. k \in 1..(Len(table) + 1) /\ k + 1 \in 1..(Len(table) + 1)
  BY AddrsAre
<1>2. PICK start \in Nat, size \in Nat, p \in Nat, len \in Nat :
        /\ start = reloc_section_start /\ size = Len(TableWords(table))
        /\ p = Starts(table)[k] /\ len = Len(Block(table[k])) /\ p + len <= size
  <2>1. PICK start, size : start = reloc_section_start /\ size = Len(TableWords(table))
    OBVIOUS
  <2>2. PICK p, len : p = Starts(table)[k] /\ len = Len(Block(table[k]))
    OBVIOUS
  <2>3. start \in Nat /\ size \in Nat
    BY <2>1, ReadWords, TableIs DEF LaidOut
  <2>4. p \in Nat /\ len \in Nat /\ Starts(table)[k + 1] = p + len
    BY <1>1, <2>2, AddrsAre
  <2>5. p + len <= size
    BY <1>1, <2>1, <2>4, AddrsAre
  <2> QED BY <2>1, <2>2, <2>3, <2>4, <2>5
<1>3. BlockSize(table[k]) = 2 * len
  <2>1. table[k] \in PageBlocks
    BY AddrsAre DEF Linked
  <2> QED BY <1>2, <2>1, BlockIs
<1>4. TableEnd = start + 2 * size /\ reloc_block_addr = start + 2 * p
  BY <1>2 DEF TableEnd, Addr, AtItem
<1>5. i = 2 * n /\ block_len = 2 * len /\ n <= len
  BY <1>2, <1>3 DEF AtItem
<1>6. WalkLeft = 3 * (TableEnd - reloc_block_addr - i) + (IF i < block_len THEN 0 ELSE 2)
  BY DEF WalkLeft
<1>7. /\ TableEnd \in Nat /\ reloc_block_addr \in Nat /\ i \in Nat /\ block_len \in Nat
      /\ reloc_block_addr + block_len <= TableEnd /\ i <= block_len
      /\ i < block_len => i + 2 <= block_len
  <2>1. n < len => 2 * n + 2 <= 2 * len
    OBVIOUS
  <2>2. start + 2 * p + 2 * len <= start + 2 * size
    <3>1. p + len <= size
      BY ONLY <1>2
    <3> QED BY ONLY <3>1
  <2>3. TableEnd \in Nat /\ reloc_block_addr \in Nat /\ i \in Nat /\ block_len \in Nat
    BY ONLY <1>4, <1>5, n \in Nat
  <2>4. reloc_block_addr + block_len <= TableEnd
    BY ONLY <1>4, <1>5, <2>2
  <2>5. i <= block_len /\ (i < block_len => n < len)
    BY ONLY <1>5, n \in Nat
  <2> QED BY ONLY <1>5, <2>1, <2>3, <2>4, <2>5
<1> QED BY <1>6, <1>7

LEMMA LeftIsNumber == ASSUME WalkInv PROVE WalkLeft \in Nat
<1>1. LaidOut /\ Walking
  BY DEF WalkInv
<1>2. CASE pc = "head"
  <2>1. PICK k \in 1..(Len(table) + 1) : reloc_block_addr = Addr(k)
    BY <1>1, <1>2 DEF Walking, AtHead
  <2>2. /\ TableEnd \in Nat /\ reloc_block_addr \in Nat /\ reloc_block_addr <= TableEnd
        /\ WalkLeft = 3 * (TableEnd - reloc_block_addr) + 1
    BY <1>1, <1>2, <2>1, HeadLeft
  <2> QED BY ONLY <2>2
<1>3. CASE pc = "item"
  <2>1. PICK k \in 1..Len(table), n \in Nat : AtItem(k, n)
    BY <1>1, <1>3 DEF Walking
  <2>2. /\ TableEnd \in Nat /\ reloc_block_addr \in Nat /\ i \in Nat /\ block_len \in Nat
        /\ reloc_block_addr + block_len <= TableEnd /\ i <= block_len
        /\ WalkLeft = 3 * (TableEnd - reloc_block_addr - i) + (IF i < block_len THEN 0 ELSE 2)
    BY <1>1, <1>3, <2>1, ItemLeft
  <2> QED BY ONLY <2>2
<1>4. CASE pc \in {"done", "thrown"}
  BY <1>4 DEF WalkLeft
<1> QED BY <1>1, <1>2, <1>3, <1>4 DEF Walking

\* What a step compares.
LEMMA LeftAfter ==
  ASSUME WalkInv, WalkInv', UNCHANGED image, pc \in {"head", "item"}
  PROVE  /\ TableEnd' = TableEnd /\ TableEnd \in Nat /\ WalkLeft \in Nat
         /\ pc' \in {"done", "thrown"} => WalkLeft' < WalkLeft
<1>1. TableEnd' = TableEnd
  BY DEF image, TableEnd
<1>2. CASE pc = "head"
  <2>1. PICK k \in 1..(Len(table) + 1) : reloc_block_addr = Addr(k)
    BY <1>2 DEF WalkInv, Walking, AtHead
  <2>2. /\ TableEnd \in Nat /\ reloc_block_addr \in Nat /\ reloc_block_addr <= TableEnd
        /\ WalkLeft = 3 * (TableEnd - reloc_block_addr) + 1
    BY <1>2, <2>1, HeadLeft DEF WalkInv
  <2>3. WalkLeft > 0 /\ WalkLeft \in Nat
    BY ONLY <2>2
  <2> QED BY <1>1, <2>2, <2>3 DEF WalkLeft
<1>3. CASE pc = "item"
  <2>1. PICK k \in 1..Len(table), n \in Nat : AtItem(k, n)
    BY <1>3 DEF WalkInv, Walking
  <2>2. /\ TableEnd \in Nat /\ reloc_block_addr \in Nat /\ i \in Nat /\ block_len \in Nat
        /\ reloc_block_addr + block_len <= TableEnd /\ i <= block_len
        /\ i < block_len => i + 2 <= block_len
        /\ WalkLeft = 3 * (TableEnd - reloc_block_addr - i) + (IF i < block_len THEN 0 ELSE 2)
    BY <1>3, <2>1, ItemLeft DEF WalkInv
  <2>3. WalkLeft > 0 /\ WalkLeft \in Nat
    BY ONLY <2>2
  <2> QED BY <1>1, <2>2, <2>3 DEF WalkLeft
<1> QED BY <1>2, <1>3

\* From a block's header to its first item.
LEMMA HeaderAdvances ==
  ASSUME WalkInv, WalkInv', BlockHeader PROVE WalkLeft' < WalkLeft
<1>1. pc = "head" /\ UNCHANGED image
  BY DEF BlockHeader, Throw
<1>2. PICK k \in 1..(Len(table) + 1) : reloc_block_addr = Addr(k)
  BY <1>1 DEF WalkInv, Walking, AtHead
<1>3. /\ TableEnd \in Nat /\ reloc_block_addr \in Nat /\ reloc_block_addr <= TableEnd
      /\ WalkLeft = 3 * (TableEnd - reloc_block_addr) + 1
  BY <1>1, <1>2, HeadLeft DEF WalkInv
<1>4. CASE pc' = "item"
  <2>1. reloc_block_addr' = reloc_block_addr /\ i' = 0 /\ TableEnd' = TableEnd
    BY <1>1, <1>4, LeftAfter DEF BlockHeader, Throw
  <2>2. PICK n \in Nat, len \in Nat : i' = 2 * n /\ block_len' = len /\ 0 < len
    <3>1. LaidOut' /\ Walking'
      BY DEF WalkInv
    <3>2. PICK m \in (1..Len(table))', n \in Nat : AtItem(m, n)'
      BY <1>4, <3>1 DEF Walking
    <3>3. table' = table /\ Len(table) \in Nat
      BY <1>1, AddrsAre DEF image, WalkInv
    <3>4. m \in 1..Len(table) /\ Linked(table[m]) /\ LaidOut
      BY <3>2, <3>3, AddrsAre DEF WalkInv
    <3>5. BlockSize(table[m]) = 2 * Len(Block(table[m])) /\ Len(Block(table[m])) \in Nat
          /\ Len(Block(table[m])) >= 4
      <4>1. table[m] \in PageBlocks
        BY <3>4 DEF Linked
      <4>2. /\ Len(Items(table[m])) \in Nat
            /\ Len(Block(table[m])) = 4 + Len(Items(table[m]))
            /\ BlockSize(table[m]) = 2 * Len(Block(table[m]))
        BY ONLY <4>1, BlockIs
      <4> QED BY ONLY <4>2
    <3>6. block_len' = BlockSize(table[m]) /\ i' = 2 * n
      BY <3>2, <3>3 DEF AtItem
    <3> QED BY <3>5, <3>6
  <2>3. i' < block_len'
    BY <2>1, <2>2
  <2>4. WalkLeft' = 3 * (TableEnd - reloc_block_addr - 0) + 0
    BY <1>4, <2>1, <2>3 DEF WalkLeft
  <2> QED BY ONLY <1>3, <2>4
<1>5. CASE pc' # "item"
  <2>1. pc' \in {"done", "thrown"}
    BY <1>5 DEF BlockHeader, Throw
  <2> QED BY <1>1, <2>1, LeftAfter
<1> QED BY <1>4, <1>5

\* An item further, or from the last to the next block.
LEMMA ItemAdvances ==
  ASSUME WalkInv, WalkInv', Item \/ NextBlock PROVE WalkLeft' < WalkLeft
<1>1. pc = "item" /\ UNCHANGED image
  BY DEF Item, NextBlock, Throw
<1>2. PICK k \in 1..Len(table), n \in Nat : AtItem(k, n)
  BY <1>1 DEF WalkInv, Walking
<1>3. /\ TableEnd \in Nat /\ reloc_block_addr \in Nat /\ i \in Nat /\ block_len \in Nat
      /\ reloc_block_addr + block_len <= TableEnd /\ i <= block_len
      /\ i < block_len => i + 2 <= block_len
      /\ WalkLeft = 3 * (TableEnd - reloc_block_addr - i) + (IF i < block_len THEN 0 ELSE 2)
  BY <1>1, <1>2, ItemLeft DEF WalkInv
<1>4. TableEnd' = TableEnd
  BY <1>1, LeftAfter
<1>5. CASE Item /\ pc' = "item"
  <2>1. /\ i < block_len /\ i' = i + 2
        /\ reloc_block_addr' = reloc_block_addr /\ block_len' = block_len
    BY <1>5 DEF Item, Throw
  <2>2. WalkLeft' = 3 * (TableEnd - reloc_block_addr - (i + 2))
                     + (IF i + 2 < block_len THEN 0 ELSE 2)
    BY <1>4, <1>5, <2>1 DEF WalkLeft
  <2> QED BY ONLY <1>3, <2>1, <2>2
<1>6. CASE Item /\ pc' # "item"
  <2>1. pc' = "thrown"
    BY <1>1, <1>6 DEF Item, Throw
  <2> QED BY <1>1, <2>1, LeftAfter
<1>7. CASE NextBlock
  <2>1. /\ pc' = "head" /\ i >= block_len
        /\ reloc_block_addr' = reloc_block_addr + block_len
    BY <1>7 DEF NextBlock
  <2>2. WalkLeft' = 3 * (TableEnd - (reloc_block_addr + block_len)) + 1
    BY <1>4, <2>1 DEF WalkLeft
  <2> QED BY ONLY <1>3, <2>1, <2>2
<1> QED BY <1>5, <1>6, <1>7

\* With every step less of the table is left, a number, so that the walk over a
\* table of any length ends (ImageInfo.cpp:155-190).
THEOREM WalkAdvances == Spec => [][LessOfWalk]_vars
<1>1. ASSUME WalkInv, WalkInv', [Next]_vars
      PROVE  [LessOfWalk]_vars
  <2> SUFFICES ASSUME AnalyzeRelocationEntry PROVE WalkLeft' < WalkLeft
    BY <1>1, LeftIsNumber DEF Next, Stopped, LessOfWalk
  <2>1. CASE Finish
    <3>1. pc = "head" /\ pc' = "done" /\ UNCHANGED image
      BY <2>1 DEF Finish
    <3> QED BY <1>1, <3>1, LeftAfter
  <2>2. CASE BlockHeader
    BY <1>1, <2>2, HeaderAdvances
  <2>3. CASE Item \/ NextBlock
    BY <1>1, <2>3, ItemAdvances
  <2> QED BY <2>1, <2>2, <2>3 DEF AnalyzeRelocationEntry
<1> QED BY <1>1, WalkInvariance, PTL DEF Spec
-----------------------------------------------------------------------------
(***************************************************************************)
(* The import directory in memory.                                         *)
(***************************************************************************)

\* Parts of equal length are at multiples of it.
Even(n, len, seqs, whole) ==
  /\ Len(whole) = n * len
  /\ \A k \in 1..n : \A j \in 1..len :
       (k - 1) * len + j <= n * len /\ whole[(k - 1) * len + j] = seqs[k][j]

LEMMA EvenParts ==
  ASSUME NEW n \in Nat, NEW len \in Nat, NEW seqs, NEW whole, NEW pos,
         InPlace(n, seqs, whole, pos), \A k \in 1..n : Len(seqs[k]) = len
  PROVE  Even(n, len, seqs, whole)
<1>1. /\ pos \in [1..(n + 1) -> Nat] /\ pos[1] = 0 /\ pos[n + 1] = Len(whole)
      /\ \A k \in 1..n :
           /\ pos[k + 1] = pos[k] + len /\ pos[k + 1] <= Len(whole)
           /\ \A j \in 1..len : whole[pos[k] + j] = seqs[k][j]
  BY DEF InPlace
<1> DEFINE Good == {m \in 0..n : pos[m + 1] = m * len}
<1>2. 0 \in Good
  BY <1>1
<1>3. ASSUME NEW m \in 0..n, m \in Good, m < n PROVE m + 1 \in Good
  <2>1. m + 1 \in 1..n /\ m + 1 \in 0..n
    BY <1>3
  <2>2. PICK k \in 1..n : k = m + 1
    BY <2>1
  <2>3. pos[k + 1] = pos[k] + len
    BY <1>1
  <2>4. pos[k] = m * len
    BY <1>3, <2>2
  <2>5. m * len + len = k * len
    BY <2>2
  <2>6. pos[k + 1] = k * len
    BY <2>3, <2>4, <2>5
  <2> QED BY <2>1, <2>2, <2>6
<1>4. \A m \in 0..n : m \in Good
  <2> HIDE DEF Good
  <2> QED BY <1>2, <1>3, AllUpTo
<1>5. ASSUME NEW k \in 1..(n + 1) PROVE pos[k] = (k - 1) * len
  <2>1. PICK m \in 0..n : m = k - 1
    OBVIOUS
  <2>2. m \in Good
    BY <1>4
  <2>3. pos[m + 1] = m * len
    BY <2>2
  <2>4. m + 1 = k
    BY <2>1
  <2> QED BY <2>1, <2>3, <2>4
<1>6. Len(whole) = n * len
  <2>1. n + 1 \in 1..(n + 1) /\ (n + 1) - 1 = n
    OBVIOUS
  <2> QED BY <1>1, <1>5, <2>1
<1>7. ASSUME NEW k \in 1..n, NEW j \in 1..len
      PROVE  (k - 1) * len + j <= n * len /\ whole[(k - 1) * len + j] = seqs[k][j]
  <2>1. PICK p : p = pos[k] /\ p = (k - 1) * len
    BY <1>5
  <2>2. p \in Nat /\ whole[p + j] = seqs[k][j] /\ p + len <= Len(whole)
    <3>1. pos[k] \in Nat /\ whole[pos[k] + j] = seqs[k][j]
      BY <1>1
    <3>2. pos[k + 1] = pos[k] + len /\ pos[k + 1] <= Len(whole)
      BY <1>1
    <3> QED BY <2>1, <3>1, <3>2
  <2>3. n * len \in Nat
    OBVIOUS
  <2>4. p + j <= n * len
    BY <1>6, <2>2, <2>3
  <2> QED BY <2>1, <2>2, <2>4
<1> QED BY <1>6, <1>7 DEF Even

\* The constants and the size of a table.
LEMMA TableSize ==
  ASSUME thunk \in {0, 1, 2}
  PROVE  /\ m_address \in Nat /\ MaxCount \in Nat /\ Table \in Nat
         /\ Table = MaxCount * thunk + thunk
<1>1. m_address \in Nat /\ MaxCount \in Nat
  BY LoadedImageAssumption, ImportWalkAssumption
<1>2. CASE thunk = 0
  BY <1>1, <1>2 DEF Table
<1>3. CASE thunk = 1
  BY <1>1, <1>3 DEF Table
<1>4. CASE thunk = 2
  BY <1>1, <1>4 DEF Table
<1> QED BY <1>1, <1>2, <1>3, <1>4

\* An import is a record of these fields.
LEMMA LibraryFields ==
  ASSUME NEW lib \in Libraries
  PROVE  /\ lib.ilt \in {"table", "none", "outside"} /\ lib.count \in 0..MaxCount
         /\ lib.symbol \in Nat /\ lib.symbol # 0 /\ MaxCount \in Nat
<1>1. /\ lib \in [ilt : {"table", "none", "outside"}, count : 0..MaxCount,
                  symbol : Nat \ {0}]
      /\ MaxCount \in Nat
  BY ImportWalkAssumption
<1> QED BY <1>1

\* The doublewords of entry j + 1 of a table: zeros behind its count.
LEMMA TableEntry ==
  ASSUME thunk \in {1, 2}, NEW lib \in Libraries, NEW j \in 0..MaxCount,
         NEW x \in 0..(thunk - 1), NEW w, w = j * thunk + x + 1
  PROVE  /\ w \in 1..Table
         /\ ImportTable(lib)[w] =
              IF j < lib.count /\ (thunk = 1 \/ x = Half(lib.symbol)) THEN lib.symbol ELSE 0
<1>1. MaxCount \in Nat /\ Table \in Nat /\ Table = MaxCount * thunk + thunk
  BY TableSize
<1>2. w \in 1..Table
  <2>1. CASE thunk = 1
    BY <1>1, <2>1
  <2>2. CASE thunk = 2
    BY <1>1, <2>2
  <2> QED BY <2>1, <2>2
<1>3. ImportTable(lib)[w] =
        IF /\ (w - 1) \div thunk < lib.count
           /\ thunk = 1 \/ (w - 1) % thunk = Half(lib.symbol)
        THEN lib.symbol ELSE 0
  BY <1>2 DEF ImportTable
<1>4. (w - 1) \div thunk = j /\ (thunk = 2 => (w - 1) % thunk = x)
  <2>1. CASE thunk = 1
    BY <2>1
  <2>2. CASE thunk = 2
    <3>1. w - 1 = 2 * j + x /\ x \in 0..1
      BY <2>2
    <3> QED BY <2>2, <3>1
  <2> QED BY <2>1, <2>2
<1>5. CASE thunk = 1
  BY <1>2, <1>3, <1>4, <1>5
<1>6. CASE thunk = 2
  BY <1>2, <1>3, <1>4, <1>6
<1> QED BY <1>5, <1>6

LEMMA ImportTableIs ==
  ASSUME thunk \in {0, 1, 2}, NEW lib \in Libraries
  PROVE  ImportTable(lib) \in Seq(Nat) /\ Len(ImportTable(lib)) = Table
<1>1. Table \in Nat /\ lib.symbol \in Nat
  BY TableSize, LibraryFields
<1>2. ImportTable(lib) \in [1..Table -> Nat]
  BY <1>1 DEF ImportTable
<1> QED BY <1>1, <1>2

\* Where the parts of a concatenation are.
LEMMA TwoParts ==
  ASSUME NEW s \in Seq(Nat), NEW t \in Seq(Nat)
  PROVE  /\ s \o t \in Seq(Nat) /\ Len(s) \in Nat /\ Len(t) \in Nat
         /\ Len(s \o t) = Len(s) + Len(t)
         /\ \A x \in 1..Len(s) : (s \o t)[x] = s[x]
         /\ \A x \in 1..Len(t) : (s \o t)[Len(s) + x] = t[x]
<1>1. Len(s) \in Nat /\ Len(t) \in Nat
  BY LenProperties
<1>2. /\ s \o t \in Seq(Nat) /\ Len(s \o t) = Len(s) + Len(t)
      /\ \A y \in 1..(Len(s) + Len(t)) :
           (s \o t)[y] = IF y <= Len(s) THEN s[y] ELSE t[y - Len(s)]
  BY ConcatProperties
<1>3. ASSUME NEW x \in 1..Len(s) PROVE (s \o t)[x] = s[x]
  BY <1>1, <1>2
<1>4. ASSUME NEW x \in 1..Len(t) PROVE (s \o t)[Len(s) + x] = t[x]
  <2>1. PICK y : y = Len(s) + x
    OBVIOUS
  <2>2. y \in 1..(Len(s) + Len(t)) /\ ~(y <= Len(s)) /\ y - Len(s) = x
    BY <1>1, <2>1
  <2> QED BY <1>2, <2>1, <2>2
<1> QED BY <1>1, <1>2, <1>3, <1>4

EndToEnd(a, b, c, d, whole) ==
  /\ whole \in Seq(Nat) /\ Len(a) \in Nat /\ Len(b) \in Nat /\ Len(c) \in Nat
  /\ Len(d) \in Nat /\ Len(whole) = Len(a) + Len(b) + Len(c) + Len(d)
  /\ \A x \in 1..Len(b) : whole[Len(a) + x] = b[x]
  /\ \A x \in 1..Len(c) : whole[Len(a) + Len(b) + x] = c[x]
  /\ \A x \in 1..Len(d) : whole[Len(a) + Len(b) + Len(c) + x] = d[x]

LEMMA FourParts ==
  ASSUME NEW a \in Seq(Nat), NEW b \in Seq(Nat), NEW c \in Seq(Nat), NEW d \in Seq(Nat),
         NEW whole, whole = a \o b \o c \o d
  PROVE  EndToEnd(a, b, c, d, whole)
<1>1. PICK ab : ab = a \o b
  OBVIOUS
<1>2. PICK abc : abc = ab \o c
  OBVIOUS
<1>3. /\ ab \in Seq(Nat) /\ Len(a) \in Nat /\ Len(b) \in Nat /\ Len(ab) = Len(a) + Len(b)
      /\ \A x \in 1..Len(b) : ab[Len(a) + x] = b[x]
  BY <1>1, TwoParts
<1>4. /\ abc \in Seq(Nat) /\ Len(c) \in Nat /\ Len(abc) = Len(ab) + Len(c)
      /\ \A x \in 1..Len(ab) : abc[x] = ab[x]
      /\ \A x \in 1..Len(c) : abc[Len(ab) + x] = c[x]
  <2>1. ab \in Seq(Nat)
    BY <1>3
  <2> QED BY <1>2, <2>1, TwoParts
<1>5. /\ whole \in Seq(Nat) /\ Len(d) \in Nat /\ Len(whole) = Len(abc) + Len(d)
      /\ \A x \in 1..Len(abc) : whole[x] = abc[x]
      /\ \A x \in 1..Len(d) : whole[Len(abc) + x] = d[x]
  <2>1. whole = abc \o d
    BY <1>1, <1>2
  <2>2. abc \in Seq(Nat)
    BY <1>4
  <2> QED BY <2>1, <2>2, TwoParts
<1>6. ASSUME NEW x \in 1..Len(b) PROVE whole[Len(a) + x] = b[x]
  <2>1. PICK y : y = Len(a) + x
    OBVIOUS
  <2>2. y \in 1..Len(ab) /\ y \in 1..Len(abc)
    BY <1>3, <1>4, <2>1
  <2> QED BY <1>3, <1>4, <1>5, <2>1, <2>2
<1>7. ASSUME NEW x \in 1..Len(c) PROVE whole[Len(a) + Len(b) + x] = c[x]
  <2>1. PICK y : y = Len(ab) + x
    OBVIOUS
  <2>2. y \in 1..Len(abc)
    BY <1>3, <1>4, <2>1
  <2>3. whole[y] = c[x]
    BY <1>4, <1>5, <2>1, <2>2
  <2> QED BY <1>3, <2>1, <2>3
<1>8. ASSUME NEW x \in 1..Len(d) PROVE whole[Len(a) + Len(b) + Len(c) + x] = d[x]
  <2>1. whole[Len(abc) + x] = d[x]
    BY <1>5
  <2>2. Len(abc) = Len(a) + Len(b) + Len(c)
    BY <1>3, <1>4
  <2> QED BY <2>1, <2>2
<1>9. Len(whole) = Len(a) + Len(b) + Len(c) + Len(d)
  BY <1>3, <1>4, <1>5
<1> QED BY <1>3, <1>4, <1>5, <1>6, <1>7, <1>8, <1>9 DEF EndToEnd

\* The directory's place, the tables', and what an entry says of its ILT.
Directory == dirs[2][1]
Behind    == Directory + ENTRY * (Len(imports) + 1)
IltAt(k)  == Behind + (k - 1) * (2 * Table)
IatAt(k)  == IltAt(k) + Table
TablesEnd == Behind + Len(imports) * (2 * Table)
IltOf(k)  == CASE imports[k].ilt = "none" -> 0
               [] imports[k].ilt = "outside" -> TablesEnd + 3
               [] OTHER -> IltAt(k)

\* A table, as much of it as is in the image.
Holds(at, library) ==
  \A w \in 1..Table : at + w <= Len(words) => words[at + w] = ImportTable(library)[w]

\* The image: the directory in its place, the tables behind it.
ImportsLaidOut ==
  /\ imports \in Seq(Libraries) /\ thunk \in {0, 1, 2} /\ words \in Seq(Nat)
  /\ Directory \in Nat
  /\ dirs = << <<0, 0>>, <<Directory, ENTRY * (Len(imports) + 1)>>, <<1, 1>> >>
  /\ Len(words) <= TablesEnd + 3 /\ TablesEnd <= Len(words) + thunk
  /\ tail = "cut" \/ TablesEnd <= Len(words)
  /\ \A k \in 1..Len(imports) :
       /\ Directory + ENTRY * k < Len(words)
       /\ words[Directory + ENTRY * (k - 1) + 1] = IltOf(k)
       /\ words[Directory + ENTRY * (k - 1) + 2] = IatAt(k)
       /\ Holds(IltAt(k), imports[k]) /\ Holds(IatAt(k), imports[k])
  /\ Directory + ENTRY * Len(imports) < Len(words) =>
       words[Directory + ENTRY * Len(imports) + 1] = 0

\* The tables' places, in order.
LEMMA Places ==
  ASSUME imports \in Seq(Libraries), thunk \in {0, 1, 2}, Directory \in Nat
  PROVE  /\ Len(imports) \in Nat /\ Table \in Nat /\ Behind \in Nat /\ TablesEnd \in Nat
         /\ Behind = Directory + 2 * Len(imports) + 2
         /\ Len(imports) * (2 * Table) \in Nat /\ Behind <= TablesEnd
         /\ \A k \in 1..Len(imports) :
              /\ (k - 1) * (2 * Table) \in Nat
              /\ IltAt(k) \in Nat /\ IatAt(k) \in Nat /\ Behind <= IltAt(k)
              /\ IatAt(k) = IltAt(k) + Table /\ IatAt(k) + Table <= TablesEnd
<1>1. Len(imports) \in Nat /\ Table \in Nat
  BY LenProperties, TableSize
<1>2. Behind \in Nat /\ Behind = Directory + 2 * Len(imports) + 2
  BY <1>1 DEF Behind, ENTRY
<1>3. PICK size \in Nat : size = 2 * Table
  BY <1>1
<1>4. Len(imports) * size \in Nat
  BY <1>1
<1>5. ASSUME NEW k \in 1..Len(imports)
      PROVE  /\ (k - 1) * size \in Nat /\ (k - 1) * size + size <= Len(imports) * size
  <2>1. PICK e \in Nat : Len(imports) = k + e
    <3>1. Len(imports) - k \in Nat
      BY <1>1
    <3> QED BY <1>1, <3>1
  <2>2. PICK m \in Nat : m = k - 1
    OBVIOUS
  <2>3. Len(imports) = m + 1 + e
    BY <2>1, <2>2
  <2>4. Len(imports) * size = m * size + size + e * size
    BY <2>3
  <2>5. m * size \in Nat /\ e * size \in Nat
    OBVIOUS
  <2> QED BY <2>2, <2>4, <2>5
<1>6. TablesEnd \in Nat /\ Behind <= TablesEnd /\ TablesEnd = Behind + Len(imports) * size
  BY <1>2, <1>3, <1>4 DEF TablesEnd
<1>7. ASSUME NEW k \in 1..Len(imports)
      PROVE  /\ IltAt(k) \in Nat /\ IatAt(k) \in Nat /\ Behind <= IltAt(k)
             /\ IatAt(k) = IltAt(k) + Table /\ IatAt(k) + Table <= TablesEnd
  <2>1. PICK p \in Nat : p = (k - 1) * size
    BY <1>5
  <2>2. IltAt(k) = Behind + p /\ IatAt(k) = Behind + p + Table
    BY <1>3, <2>1 DEF IltAt, IatAt
  <2>3. PICK q \in Nat : q = Len(imports) * size
    BY <1>4
  <2>4. p + size <= q /\ TablesEnd = Behind + q
    BY <1>5, <1>6, <2>1, <2>3
  <2> QED BY <1>1, <1>2, <1>3, <2>2, <2>4
<1> QED BY <1>1, <1>2, <1>3, <1>4, <1>5, <1>6, <1>7

\* The places as the layout computes them.
LEMMA Rvas ==
  ASSUME imports \in Seq(Libraries), thunk \in {0, 1, 2}, Directory \in Nat,
         NEW header, Len(header) = Directory, NEW k \in 1..Len(imports)
  PROVE  IltRva(header, k) = IltOf(k) /\ IatRva(header, k) = IatAt(k)
         /\ IltOf(k) \in Nat /\ IatAt(k) \in Nat
<1>1. Len(imports) \in Nat /\ Table \in Nat /\ Behind \in Nat /\ TablesEnd \in Nat
      /\ IltAt(k) \in Nat /\ IatAt(k) \in Nat
  BY Places
<1>2. Len(header) + ENTRY * (Len(imports) + 1) = Behind
  BY DEF Behind
<1>3. /\ 2 * Len(imports) * Table = Len(imports) * (2 * Table)
      /\ 2 * (k - 1) * Table = (k - 1) * (2 * Table)
      /\ (2 * k - 1) * Table = (k - 1) * (2 * Table) + Table
  <2>1. PICK m \in Nat : k = m + 1
    <3>1. k - 1 \in Nat
      OBVIOUS
    <3> QED BY <3>1
  <2>2. 2 * k - 1 = 2 * m + 1 /\ k - 1 = m
    BY <2>1
  <2>3. /\ 2 * m * Table = m * (2 * Table)
        /\ (2 * m + 1) * Table = m * (2 * Table) + Table
        /\ 2 * Len(imports) * Table = Len(imports) * (2 * Table)
    BY <1>1
  <2> QED BY <2>2, <2>3
<1>4. Len(Code) = 3
  BY DEF Code
<1>5. IatRva(header, k) = IatAt(k)
  <2>1. IatRva(header, k) = Behind + ((k - 1) * (2 * Table) + Table)
    BY <1>2, <1>3 DEF IatRva
  <2>2. (k - 1) * (2 * Table) \in Nat
    BY Places
  <2> QED BY <1>1, <2>1, <2>2 DEF IatAt, IltAt
<1>6. IltRva(header, k) = IltOf(k)
  <2>1. Behind + 2 * Len(imports) * Table + Len(Code) = TablesEnd + 3
    BY <1>3, <1>4 DEF TablesEnd
  <2>2. Behind + 2 * (k - 1) * Table = IltAt(k)
    BY <1>3 DEF IltAt
  <2> QED BY <1>2, <2>1, <2>2 DEF IltRva, IltOf
<1>7. IltOf(k) \in Nat
  BY <1>1 DEF IltOf
<1> QED BY <1>1, <1>5, <1>6, <1>7

\* Where the layout has what.
LEMMA LayoutIs ==
  ASSUME imports \in Seq(Libraries), thunk \in {0, 1, 2}, Directory \in Nat,
         NEW header \in Seq(Nat), Len(header) = Directory,
         NEW all, all = Layout(header)
  PROVE  /\ all \in Seq(Nat) /\ Len(all) = TablesEnd
         /\ all[Directory + ENTRY * Len(imports) + 1] = 0
         /\ \A k \in 1..Len(imports) :
              /\ all[Directory + ENTRY * (k - 1) + 1] = IltOf(k)
              /\ all[Directory + ENTRY * (k - 1) + 2] = IatAt(k)
              /\ \A w \in 1..Table :
                   /\ all[IltAt(k) + w] = ImportTable(imports[k])[w]
                   /\ all[IatAt(k) + w] = ImportTable(imports[k])[w]
<1>1. /\ Len(imports) \in Nat /\ Table \in Nat /\ Behind \in Nat
      /\ Behind = Directory + 2 * Len(imports) + 2
      /\ Len(imports) * (2 * Table) \in Nat
      /\ \A k \in 1..Len(imports) : (k - 1) * (2 * Table) \in Nat
  BY Places
<1>2. PICK size \in Nat : size = 2 * Table
  BY <1>1
<1>3. PICK es : es = [k \in 1..Len(imports) |-> <<IltRva(header, k), IatRva(header, k)>>]
  OBVIOUS
<1>4. /\ es \in [1..Len(imports) -> Seq(Nat)]
      /\ \A k \in 1..Len(imports) :
           Len(es[k]) = 2 /\ es[k][1] = IltOf(k) /\ es[k][2] = IatAt(k)
  <2>1. ASSUME NEW k \in 1..Len(imports)
        PROVE  es[k] = <<IltOf(k), IatAt(k)>> /\ IltOf(k) \in Nat /\ IatAt(k) \in Nat
    BY <1>3, Rvas
  <2>2. \A k \in 1..Len(imports) : es[k] \in Seq(Nat)
    <3>1. \A x, y \in Nat : <<x, y>> \in Seq(Nat)
      OBVIOUS
    <3> QED BY <2>1, <3>1
  <2> QED BY <1>3, <2>1, <2>2
<1>5. PICK ts : ts = [k \in 1..Len(imports) |->
                        ImportTable(imports[k]) \o ImportTable(imports[k])]
  OBVIOUS
<1>6. /\ ts \in [1..Len(imports) -> Seq(Nat)]
      /\ \A k \in 1..Len(imports) :
           /\ Len(ts[k]) = size
           /\ \A w \in 1..Table : /\ ts[k][w] = ImportTable(imports[k])[w]
                                  /\ ts[k][Table + w] = ImportTable(imports[k])[w]
  <2>1. ASSUME NEW k \in 1..Len(imports)
        PROVE  /\ ts[k] \in Seq(Nat) /\ Len(ts[k]) = size
               /\ \A w \in 1..Table : /\ ts[k][w] = ImportTable(imports[k])[w]
                                      /\ ts[k][Table + w] = ImportTable(imports[k])[w]
    <3>1. imports[k] \in Libraries
      BY ElementOfSeq
    <3>2. PICK t : t = ImportTable(imports[k]) /\ t \in Seq(Nat) /\ Len(t) = Table
      BY <3>1, ImportTableIs
    <3>3. ts[k] = t \o t
      BY <1>5, <3>2
    <3>4. /\ t \o t \in Seq(Nat) /\ Len(t \o t) = Len(t) + Len(t)
          /\ \A x \in 1..Len(t) : (t \o t)[x] = t[x]
          /\ \A x \in 1..Len(t) : (t \o t)[Len(t) + x] = t[x]
      BY <3>2, TwoParts
    <3>5. Len(t \o t) = size
      BY <1>1, <1>2, <3>2, <3>4
    <3> QED BY <3>2, <3>3, <3>4, <3>5
  <2>2. \A k \in 1..Len(imports) : ts[k] \in Seq(Nat)
    BY <2>1
  <2> QED BY <1>5, <2>1, <2>2
<1>7. PICK b : b = FlattenSeq(es) /\ b \in Seq(Nat) /\ \E pos : InPlace(Len(imports), es, b, pos)
  BY <1>1, <1>4, FlattenParts
<1>8. PICK d : d = FlattenSeq(ts) /\ d \in Seq(Nat) /\ \E pos : InPlace(Len(imports), ts, d, pos)
  BY <1>1, <1>6, FlattenParts
<1>9. /\ Len(b) = Len(imports) * 2
      /\ \A k \in 1..Len(imports) : \A j \in 1..2 :
           (k - 1) * 2 + j <= Len(imports) * 2 /\ b[(k - 1) * 2 + j] = es[k][j]
  <2>1. PICK pos : InPlace(Len(imports), es, b, pos)
    BY <1>7
  <2>2. \A k \in 1..Len(imports) : Len(es[k]) = 2
    BY <1>4
  <2>3. Len(imports) \in Nat /\ 2 \in Nat
    BY <1>1
  <2>4. Even(Len(imports), 2, es, b)
    BY <2>1, <2>2, <2>3, EvenParts
  <2> QED BY <2>4 DEF Even
<1>10. /\ Len(d) = Len(imports) * size
       /\ \A k \in 1..Len(imports) : \A j \in 1..size :
            (k - 1) * size + j <= Len(imports) * size /\ d[(k - 1) * size + j] = ts[k][j]
  <2>1. PICK pos : InPlace(Len(imports), ts, d, pos)
    BY <1>8
  <2>2. \A k \in 1..Len(imports) : Len(ts[k]) = size
    BY <1>6
  <2>3. Len(imports) \in Nat
    BY <1>1
  <2>4. Even(Len(imports), size, ts, d)
    BY <2>1, <2>2, <2>3, EvenParts
  <2> QED BY <2>4 DEF Even
<1>11. PICK c : c = <<0, 0>>
  OBVIOUS
<1>12. c \in Seq(Nat) /\ Len(c) = 2 /\ c[1] = 0
  BY <1>11
<1>13. all = header \o b \o c \o d
  BY <1>3, <1>5, <1>7, <1>8, <1>11 DEF Layout
<1>14. /\ all \in Seq(Nat) /\ Len(all) = Len(header) + Len(b) + Len(c) + Len(d)
       /\ \A x \in 1..Len(b) : all[Len(header) + x] = b[x]
       /\ \A x \in 1..Len(c) : all[Len(header) + Len(b) + x] = c[x]
       /\ \A x \in 1..Len(d) : all[Len(header) + Len(b) + Len(c) + x] = d[x]
  <2>1. b \in Seq(Nat) /\ c \in Seq(Nat) /\ d \in Seq(Nat)
    BY <1>7, <1>8, <1>12
  <2>2. EndToEnd(header, b, c, d, all)
    BY <1>13, <2>1, FourParts
  <2> QED BY <2>2 DEF EndToEnd
<1>15. Directory + Len(imports) * 2 = Directory + ENTRY * Len(imports)
       /\ Directory + Len(imports) * 2 + 2 = Behind
  BY <1>1 DEF ENTRY
<1>16. Len(all) = TablesEnd
  BY <1>1, <1>2, <1>9, <1>10, <1>12, <1>14, <1>15 DEF TablesEnd
<1>17. all[Directory + ENTRY * Len(imports) + 1] = 0
  <2>1. 1 \in 1..Len(c)
    BY <1>12
  <2>2. all[Len(header) + Len(b) + 1] = c[1]
    BY <1>14, <2>1
  <2> QED BY <1>9, <1>12, <1>15, <2>2
<1>18. ASSUME NEW k \in 1..Len(imports), NEW j \in 1..2
       PROVE  all[Directory + ENTRY * (k - 1) + j] = es[k][j]
  <2>1. PICK x : x = (k - 1) * 2 + j
    OBVIOUS
  <2>2. x \in 1..Len(b) /\ b[x] = es[k][j]
    <3>1. (k - 1) * 2 + j <= Len(imports) * 2 /\ b[(k - 1) * 2 + j] = es[k][j]
      BY ONLY <1>9, k \in 1..Len(imports), j \in 1..2
    <3>2. x \in Nat /\ 1 <= x
      BY ONLY <2>1, k \in 1..Len(imports), j \in 1..2
    <3>3. Len(imports) * 2 \in Nat /\ Len(b) = Len(imports) * 2
      BY ONLY <1>1, <1>9
    <3> QED BY ONLY <2>1, <3>1, <3>2, <3>3
  <2>3. all[Directory + x] = es[k][j]
    BY <1>14, <2>2
  <2>4. Directory + x = Directory + ENTRY * (k - 1) + j
    BY <2>1 DEF ENTRY
  <2> QED BY <2>3, <2>4
<1>19. ASSUME NEW k \in 1..Len(imports), NEW j \in 1..size
       PROVE  all[IltAt(k) + j] = ts[k][j]
  <2>1. PICK p \in Nat : p = (k - 1) * size
    BY <1>1, <1>2
  <2>2. (k - 1) * size + j <= Len(imports) * size /\ d[(k - 1) * size + j] = ts[k][j]
    BY <1>10
  <2>3. PICK x : x = p + j
    OBVIOUS
  <2>4. x \in 1..Len(d) /\ d[x] = ts[k][j]
    <3>1. Len(d) = Len(imports) * size /\ Len(d) \in Nat
      BY <1>8, <1>10, LenProperties
    <3>2. p + j <= Len(d) /\ d[p + j] = ts[k][j]
      BY <2>1, <2>2, <3>1
    <3>3. p + j \in Nat /\ p + j >= 1
      OBVIOUS
    <3> QED BY <2>3, <3>1, <3>2, <3>3
  <2>5. all[Len(header) + Len(b) + Len(c) + x] = ts[k][j]
    BY <1>14, <2>4
  <2>6. Len(header) + Len(b) + Len(c) + x = IltAt(k) + j
    <3>1. IltAt(k) = Behind + p
      BY <1>2, <2>1 DEF IltAt
    <3>2. Len(header) + Len(b) + Len(c) = Behind
      BY <1>9, <1>12, <1>15
    <3> QED BY <1>1, <2>3, <3>1, <3>2
  <2> QED BY <2>5, <2>6
<1>20. ASSUME NEW k \in 1..Len(imports), NEW w \in 1..Table
       PROVE  /\ all[IltAt(k) + w] = ImportTable(imports[k])[w]
              /\ all[IatAt(k) + w] = ImportTable(imports[k])[w]
  <2>1. w \in 1..size
    BY <1>1, <1>2
  <2>2. all[IltAt(k) + w] = ts[k][w]
    BY <1>19, <2>1
  <2>3. PICK y \in 1..size : y = Table + w
    BY <1>1, <1>2
  <2>4. all[IltAt(k) + y] = ts[k][y]
    BY <1>19
  <2>5. IltAt(k) + y = IatAt(k) + w
    <3>1. IltAt(k) \in Nat /\ IatAt(k) = IltAt(k) + Table
      BY Places
    <3> QED BY <1>1, <2>3, <3>1
  <2>6. /\ ts[k][w] = ImportTable(imports[k])[w]
        /\ ts[k][Table + w] = ImportTable(imports[k])[w]
    BY <1>6
  <2>7. all[IatAt(k) + w] = ts[k][y]
    BY <2>4, <2>5
  <2>8. ts[k][y] = ImportTable(imports[k])[w]
    BY <2>3, <2>6
  <2> QED BY <2>2, <2>6, <2>7, <2>8
<1>21. ASSUME NEW k \in 1..Len(imports)
       PROVE  /\ all[Directory + ENTRY * (k - 1) + 1] = IltOf(k)
              /\ all[Directory + ENTRY * (k - 1) + 2] = IatAt(k)
  BY <1>4, <1>18
<1> QED BY <1>14, <1>16, <1>17, <1>20, <1>21

\* So the image is laid out, if it has an import directory.
LEMMA ImportLaysOut ==
  ASSUME ImportInit, dirs[2] # <<0, 0>>
  PROVE  ImportsLaidOut
<1>1. thunk \in {0, 1, 2} /\ tail \in {"code", "packed", "none", "cut"} /\ imports \in Seq(Libraries)
  <2>1. PICK n \in 0..MaxImports : imports \in [1..n -> Libraries]
    BY DEF ImportInit
  <2>2. n \in Nat
    BY ImportWalkAssumption
  <2>3. imports \in Seq(Libraries)
    BY <2>1, <2>2
  <2> QED BY <2>3 DEF ImportInit
<1>2. PICK header \in Headers, listed \in BOOLEAN :
        LET layout == Layout(header)
        IN /\ words = CASE tail = "code" -> layout \o Code
                        [] tail = "packed" -> layout \o PackedCode
                        [] tail = "none" -> layout
                        [] tail = "cut"  -> SubSeq(layout, 1, Len(layout) - thunk)
           /\ dirs = << <<0, 0>>,
                        IF listed THEN <<Len(header), ENTRY * (Len(imports) + 1)>>
                                  ELSE <<0, 0>>,
                        <<1, 1>> >>
  BY DEF ImportInit
<1>3. PICK all : all = Layout(header)
  OBVIOUS
<1>4. header \in Seq(Nat) /\ Len(header) \in Nat
  BY ImportWalkAssumption, LenProperties
<1>5. /\ Directory = Len(header)
      /\ dirs = << <<0, 0>>, <<Directory, ENTRY * (Len(imports) + 1)>>, <<1, 1>> >>
  <2>1. listed
    BY <1>2
  <2>2. dirs = << <<0, 0>>, <<Len(header), ENTRY * (Len(imports) + 1)>>, <<1, 1>> >>
    BY <1>2, <2>1
  <2> QED BY <2>2 DEF Directory
<1>6. Directory \in Nat
  BY <1>4, <1>5
<1>7. /\ Len(imports) \in Nat /\ Table \in Nat /\ Behind \in Nat /\ TablesEnd \in Nat
      /\ Behind = Directory + 2 * Len(imports) + 2 /\ Behind <= TablesEnd
      /\ \A k \in 1..Len(imports) :
           /\ IltAt(k) \in Nat /\ IatAt(k) \in Nat /\ Behind <= IltAt(k)
           /\ IatAt(k) = IltAt(k) + Table /\ IatAt(k) + Table <= TablesEnd
  BY <1>1, <1>6, Places
<1>8. /\ all \in Seq(Nat) /\ Len(all) = TablesEnd
      /\ all[Directory + ENTRY * Len(imports) + 1] = 0
      /\ \A k \in 1..Len(imports) :
           /\ all[Directory + ENTRY * (k - 1) + 1] = IltOf(k)
           /\ all[Directory + ENTRY * (k - 1) + 2] = IatAt(k)
           /\ \A w \in 1..Table :
                /\ all[IltAt(k) + w] = ImportTable(imports[k])[w]
                /\ all[IatAt(k) + w] = ImportTable(imports[k])[w]
  BY <1>1, <1>3, <1>4, <1>5, <1>6, LayoutIs
<1>9. /\ words = CASE tail = "code" -> all \o Code
                   [] tail = "packed" -> all \o PackedCode
                   [] tail = "none" -> all
                   [] tail = "cut"  -> SubSeq(all, 1, Len(all) - thunk)
  BY <1>2, <1>3
<1>10. /\ words \in Seq(Nat) /\ Len(words) \in Nat
       /\ Len(words) <= TablesEnd + 3 /\ TablesEnd <= Len(words) + thunk
       /\ tail = "cut" \/ TablesEnd <= Len(words)
       /\ \A x \in 1..Len(words) : x <= TablesEnd => words[x] = all[x]
  <2>1. CASE tail \in {"code", "packed"}
    <3>1. PICK behind \in Seq(Nat) : Len(behind) = 3 /\ words = all \o behind
      <4>1. Code \in Seq(Nat) /\ Len(Code) = 3 /\ PackedCode \in Seq(Nat) /\ Len(PackedCode) = 3
        BY DEF Code, PackedCode
      <4>2. words = all \o Code \/ words = all \o PackedCode
        BY <1>9, <2>1
      <4> QED BY <4>1, <4>2
    <3>2. /\ words \in Seq(Nat) /\ Len(words) = TablesEnd + 3
          /\ \A x \in 1..Len(all) : words[x] = all[x]
      <4>1. all \in Seq(Nat) /\ Len(all) = TablesEnd
        BY <1>8
      <4>2. /\ all \o behind \in Seq(Nat) /\ Len(all \o behind) = Len(all) + Len(behind)
            /\ \A x \in 1..Len(all) : (all \o behind)[x] = all[x]
        BY <4>1, TwoParts
      <4> QED BY <3>1, <4>1, <4>2
    <3>3. Len(words) \in Nat /\ TablesEnd <= Len(words) /\ TablesEnd <= Len(words) + thunk
      BY <1>1, <1>7, <3>2
    <3>4. \A x \in 1..Len(words) : x <= TablesEnd => words[x] = all[x]
      BY <1>7, <1>8, <3>2, <3>3
    <3> QED BY <1>7, <3>2, <3>3, <3>4
  <2>2. CASE tail = "none"
    BY <1>1, <1>7, <1>8, <1>9, <2>2
  <2>3. CASE tail = "cut"
    <3>1. PICK last : last = Len(all) - thunk
      OBVIOUS
    <3>2. last \in Nat /\ last <= TablesEnd /\ TablesEnd = last + thunk
      BY <1>1, <1>6, <1>7, <1>8, <3>1
    <3>3. words = SubSeq(all, 1, last)
      BY <1>9, <2>3, <3>1
    <3>4. \A x \in 1..last : all[x] \in Nat
      BY <1>8, <3>2, ElementOfSeq
    <3>5. /\ SubSeq(all, 1, last) \in Seq(Nat)
          /\ Len(SubSeq(all, 1, last)) = IF 1 <= last THEN last - 1 + 1 ELSE 0
          /\ \A x \in 1..(last - 1 + 1) : SubSeq(all, 1, last)[x] = all[1 + x - 1]
      <4>1. 1 \in Int /\ last \in Int
        BY <3>2
      <4> QED BY <3>4, <4>1, SubSeqProperties
    <3>6. words \in Seq(Nat) /\ Len(words) = last
      BY <3>2, <3>3, <3>5
    <3>7. \A x \in 1..last : words[x] = all[x]
      BY <3>2, <3>3, <3>5
    <3> QED BY <1>1, <1>7, <2>3, <3>2, <3>6, <3>7
  <2> QED BY <1>1, <2>1, <2>2, <2>3
<1>11. ASSUME NEW k \in 1..Len(imports)
       PROVE  /\ Directory + ENTRY * k < Len(words)
              /\ words[Directory + ENTRY * (k - 1) + 1] = IltOf(k)
              /\ words[Directory + ENTRY * (k - 1) + 2] = IatAt(k)
              /\ Holds(IltAt(k), imports[k]) /\ Holds(IatAt(k), imports[k])
  <2>1. /\ IltAt(k) \in Nat /\ IatAt(k) \in Nat /\ Behind <= IltAt(k)
        /\ IatAt(k) = IltAt(k) + Table /\ IatAt(k) + Table <= TablesEnd
    BY <1>7
  <2>2. thunk <= Table
    <3>1. MaxCount * thunk \in Nat
      BY <1>1, ImportWalkAssumption
    <3> QED BY <1>1, <3>1, TableSize
  <2>3. Behind <= Len(words)
    BY <1>1, <1>7, <1>10, <2>1, <2>2
  <2>4. Directory + 2 * k < Len(words)
    <3>1. PICK d \in Nat, n \in Nat, b \in Nat, l \in Nat :
            d = Directory /\ n = Len(imports) /\ b = Behind /\ l = Len(words)
      BY ONLY <1>6, <1>7, <1>10
    <3>2. b = d + 2 * n + 2 /\ b <= l /\ k \in 1..n
      BY ONLY <1>7, <2>3, <3>1, k \in 1..Len(imports)
    <3>3. d + 2 * k < l
      BY ONLY <3>2
    <3> QED BY ONLY <3>1, <3>3
  <2>5. ASSUME NEW j \in {1, 2}
        PROVE  words[Directory + ENTRY * (k - 1) + j] = all[Directory + ENTRY * (k - 1) + j]
    <3>1. PICK x : x = Directory + ENTRY * (k - 1) + j
      OBVIOUS
    <3>2. x = Directory + 2 * (k - 1) + j
      BY <3>1 DEF ENTRY
    <3>3. x \in Nat /\ 1 <= x /\ x <= Behind
      <4>1. PICK d \in Nat, n \in Nat, b \in Nat : d = Directory /\ n = Len(imports) /\ b = Behind
        BY ONLY <1>6, <1>7
      <4>2. b = d + 2 * n + 2 /\ k \in 1..n /\ x = d + 2 * (k - 1) + j
        BY ONLY <1>7, <3>2, <4>1, k \in 1..Len(imports)
      <4>3. x \in Nat /\ 1 <= x /\ x <= b
        BY ONLY <4>2, j \in {1, 2}
      <4> QED BY ONLY <4>1, <4>3
    <3>4. x \in 1..Len(words) /\ x <= TablesEnd
      <4>1. /\ Behind \in Nat /\ TablesEnd \in Nat /\ Len(words) \in Nat
            /\ Behind <= TablesEnd /\ Behind <= Len(words)
        BY <1>7, <1>10, <2>3
      <4> QED BY ONLY <3>3, <4>1
    <3> QED BY <1>10, <3>1, <3>4
  <2>6. ASSUME NEW at \in Nat, at + Table <= TablesEnd,
               \A w \in 1..Table : all[at + w] = ImportTable(imports[k])[w]
        PROVE  Holds(at, imports[k])
    <3> SUFFICES ASSUME NEW w \in 1..Table, at + w <= Len(words)
                 PROVE  words[at + w] = ImportTable(imports[k])[w]
      BY DEF Holds
    <3>1. PICK x : x = at + w
      OBVIOUS
    <3>2. x \in 1..Len(words) /\ x <= TablesEnd
      BY <1>7, <1>10, <2>6, <3>1
    <3> QED BY <1>10, <2>6, <3>1, <3>2
  <2>7. IltAt(k) + Table <= TablesEnd
    BY <1>7, <2>1
  <2>8. Holds(IltAt(k), imports[k]) /\ Holds(IatAt(k), imports[k])
    BY <1>8, <2>1, <2>6, <2>7
  <2> QED BY <1>8, <2>4, <2>5, <2>8 DEF ENTRY
<1>12. ASSUME Directory + ENTRY * Len(imports) < Len(words)
       PROVE  words[Directory + ENTRY * Len(imports) + 1] = 0
  <2>1. PICK x : x = Directory + ENTRY * Len(imports) + 1
    OBVIOUS
  <2>2. x \in 1..Len(words) /\ x <= TablesEnd
    BY <1>6, <1>7, <1>10, <1>12, <2>1 DEF ENTRY
  <2> QED BY <1>8, <1>10, <2>1, <2>2
<1> QED BY <1>1, <1>5, <1>6, <1>10, <1>11, <1>12 DEF ImportsLaidOut

\* What the walk reads of the entries of the directory.
LEMMA EntryReads ==
  ASSUME ImportsLaidOut, NEW e \in 1..Len(imports), NEW addr,
         addr = m_address + Directory + ENTRY * (e - 1)
  PROVE  /\ Readable(addr, 1) /\ Readable(addr, ENTRY)
         /\ Doubleword(addr) = IltOf(e) /\ Doubleword(addr + 1) = IatAt(e)
<1>1. /\ Len(imports) \in Nat /\ Directory \in Nat /\ m_address \in Nat /\ Len(words) \in Nat
      /\ Directory + 2 * e < Len(words)
      /\ words[Directory + 2 * (e - 1) + 1] = IltOf(e)
      /\ words[Directory + 2 * (e - 1) + 2] = IatAt(e)
  BY LenProperties, LoadedImageAssumption DEF ImportsLaidOut, ENTRY
<1>2. PICK x \in Nat : x = Directory + 2 * (e - 1)
  BY <1>1
<1>3. /\ addr = m_address + x /\ addr \in Nat /\ x + 2 < Len(words)
      /\ words[x + 1] = IltOf(e) /\ words[x + 2] = IatAt(e)
  BY <1>1, <1>2 DEF ENTRY
<1>4. \A a \in addr..(addr + 1) : InImage(a)
  BY <1>1, <1>3 DEF InImage, IsAddrMapped_Imp
<1>5. Readable(addr, 1) /\ Readable(addr, ENTRY)
  <2>1. addr + 1 - 1 = addr /\ addr + 2 - 1 = addr + 1
    BY <1>3
  <2> QED BY <1>3, <1>4, <2>1 DEF Readable, ENTRY
<1>6. addr - m_address + 1 = x + 1 /\ (addr + 1) - m_address + 1 = x + 2
  BY <1>1, <1>3
<1>7. Doubleword(addr) = IltOf(e) /\ Doubleword(addr + 1) = IatAt(e)
  BY <1>3, <1>6 DEF Doubleword
<1> QED BY <1>5, <1>7

LEMMA EndReads ==
  ASSUME ImportsLaidOut, Directory < Len(words), NEW addr,
         addr = m_address + Directory + ENTRY * Len(imports)
  PROVE  Readable(addr, 1) /\ Doubleword(addr) = 0
<1>1. /\ Len(imports) \in Nat /\ Directory \in Nat /\ m_address \in Nat /\ Len(words) \in Nat
      /\ Directory + 2 * Len(imports) < Len(words) =>
           words[Directory + 2 * Len(imports) + 1] = 0
      /\ \A k \in 1..Len(imports) : Directory + 2 * k < Len(words)
  BY LenProperties, LoadedImageAssumption DEF ImportsLaidOut, ENTRY
<1>2. PICK x \in Nat : x = Directory + 2 * Len(imports)
  BY <1>1
<1>3. x < Len(words)
  <2>1. CASE Len(imports) = 0
    BY <1>1, <1>2, <2>1
  <2>2. CASE Len(imports) # 0
    <3>1. Len(imports) \in 1..Len(imports)
      BY <1>1, <2>2
    <3> QED BY <1>1, <1>2, <3>1
  <2> QED BY <2>1, <2>2
<1>4. addr = m_address + x /\ addr \in Nat /\ words[x + 1] = 0
  BY <1>1, <1>2, <1>3 DEF ENTRY
<1>5. Readable(addr, 1)
  <2>1. addr + 1 - 1 = addr
    BY <1>4
  <2> QED BY <1>1, <1>3, <1>4, <2>1 DEF Readable, InImage, IsAddrMapped_Imp
<1>6. addr - m_address + 1 = x + 1
  BY <1>1, <1>4
<1> QED BY <1>4, <1>5, <1>6 DEF Doubleword

\* A loop over a table counts its entries.
LEMMA LoopCounts ==
  ASSUME ImportsLaidOut, thunk # 0, NEW at \in Nat, NEW lib \in Libraries,
         Holds(at, lib), at + Table <= TablesEnd, NEW j \in 0..lib.count,
         NEW addr, addr = m_address + at, NEW size, size = j * thunk
  PROVE  /\ Ends(addr, size) => j = lib.count
         /\ GoesOn(addr, size) => j + 1 \in 0..lib.count /\ size + thunk = (j + 1) * thunk
         /\ RunsOut(addr, size) => tail = "cut"
         /\ GoesOn(addr, size) /\ ReadsEndless(addr + size) =>
              lib.count > 0 /\ lib.symbol < ORDINAL_FLAG /\ Endless(lib.symbol)
<1>1. /\ thunk \in {1, 2} /\ words \in Seq(Nat) /\ Len(words) \in Nat /\ m_address \in Nat
      /\ TablesEnd <= Len(words) + thunk /\ (tail = "cut" \/ TablesEnd <= Len(words))
      /\ MaxCount \in Nat /\ Table \in Nat /\ Table = MaxCount * thunk + thunk
      /\ TablesEnd \in Nat /\ lib.count \in 0..MaxCount
      /\ lib.symbol \in Nat /\ lib.symbol # 0
  BY LenProperties, TableSize, Places, LibraryFields DEF ImportsLaidOut
<1>2. PICK n \in Nat : n = j * thunk /\ n + thunk = (j + 1) * thunk
  <2>1. CASE thunk = 1
    BY <2>1
  <2>2. CASE thunk = 2
    BY <2>2
  <2> QED BY <1>1, <2>1, <2>2
<1>3. j \in 0..MaxCount /\ n + thunk <= Table
  <2>1. CASE thunk = 1
    BY <1>1, <1>2, <2>1
  <2>2. CASE thunk = 2
    BY <1>1, <1>2, <2>2
  <2> QED BY <1>1, <2>1, <2>2
<1>4. addr \in Nat /\ addr + size = m_address + at + n
  BY <1>1, <1>2
<1>5. InImage(addr) <=> at < Len(words)
  BY <1>1, <1>4 DEF InImage, IsAddrMapped_Imp
<1>6. Readable(addr + size, thunk) <=> at + n + thunk <= Len(words)
  <2>1. PICK a \in Nat : a = m_address + at + n
    BY <1>1
  <2>2. \A y \in Nat : InImage(m_address + at + n + y) <=> at + n + y < Len(words)
    BY <1>1 DEF InImage, IsAddrMapped_Imp
  <2>3. ASSUME at + n + thunk <= Len(words), NEW b \in a..(a + thunk - 1) PROVE InImage(b)
    <3>1. PICK y \in Nat : b = a + y /\ y < thunk
      <4>1. b - a \in Nat /\ b - a < thunk
        BY <1>1, <2>3
      <4> QED BY <2>1, <4>1
    <3>2. at + n + y < Len(words)
      BY <1>1, <2>3, <3>1
    <3> QED BY <2>1, <2>2, <3>1, <3>2
  <2>4. ASSUME \A b \in a..(a + thunk - 1) : InImage(b) PROVE at + n + thunk <= Len(words)
    <3>1. PICK y \in Nat : y = thunk - 1
      BY <1>1
    <3>2. InImage(a + y)
      BY <1>1, <2>1, <2>4, <3>1
    <3>3. at + n + y < Len(words)
      BY <2>1, <2>2, <3>2
    <3> QED BY <1>1, <3>1, <3>3
  <2> QED BY <1>4, <2>1, <2>3, <2>4 DEF Readable
<1>7. ASSUME NEW x \in 0..(thunk - 1), at + n + thunk <= Len(words)
      PROVE  Doubleword(addr + size + x) =
               IF j < lib.count /\ (thunk = 1 \/ x = Half(lib.symbol)) THEN lib.symbol ELSE 0
  <2>1. PICK w : w = n + x + 1
    OBVIOUS
  <2>2. w = j * thunk + x + 1
    BY <1>2, <2>1
  <2>3. /\ w \in 1..Table
        /\ ImportTable(lib)[w] =
             IF j < lib.count /\ (thunk = 1 \/ x = Half(lib.symbol)) THEN lib.symbol ELSE 0
    <3>1. thunk \in {1, 2} /\ j \in 0..MaxCount
      BY <1>1, <1>3
    <3> QED BY <2>2, <3>1, TableEntry
  <2>4. at + w <= Len(words)
    BY <1>1, <1>7, <2>1
  <2>5. words[at + w] = ImportTable(lib)[w]
    BY <2>3, <2>4 DEF Holds
  <2>6. (addr + size + x) - m_address + 1 = at + w
    BY <1>1, <1>4, <2>1
  <2> QED BY <2>3, <2>5, <2>6 DEF Doubleword
<1>8. ASSUME at + n + thunk <= Len(words)
      PROVE  Zero(addr + size, thunk) <=> ~(j < lib.count)
  <2>1. PICK a \in Nat : a = addr + size
    BY <1>1, <1>4
  <2>2. \A x \in 0..(thunk - 1) : Doubleword(a + x) =
          IF j < lib.count /\ (thunk = 1 \/ x = Half(lib.symbol)) THEN lib.symbol ELSE 0
    BY <1>7, <1>8, <2>1
  <2>3. ASSUME ~(j < lib.count), NEW b \in a..(a + thunk - 1) PROVE Doubleword(b) = 0
    <3>1. PICK x \in 0..(thunk - 1) : b = a + x
      <4>1. b - a \in 0..(thunk - 1) /\ b = a + (b - a)
        BY <1>1, <2>1
      <4> QED BY <4>1
    <3> QED BY <2>2, <2>3, <3>1
  <2>4. ASSUME j < lib.count PROVE \E b \in a..(a + thunk - 1) : Doubleword(b) # 0
    <3>1. PICK x \in 0..(thunk - 1) : thunk = 1 \/ x = Half(lib.symbol)
      <4>1. Half(lib.symbol) \in 0..1
        BY DEF Half
      <4>2. CASE thunk = 1
        <5>1. 0 \in 0..(thunk - 1)
          BY <4>2
        <5> QED BY <4>2, <5>1
      <4>3. CASE thunk = 2
        BY <4>1, <4>3
      <4> QED BY <1>1, <4>2, <4>3
    <3>2. Doubleword(a + x) = lib.symbol
      BY <2>2, <2>4, <3>1
    <3>3. a + x \in a..(a + thunk - 1)
      BY <1>1
    <3> QED BY <1>1, <3>2, <3>3
  <2> QED BY <2>1, <2>3, <2>4 DEF Zero
<1>9. ASSUME Ends(addr, size) PROVE j = lib.count
  <2>1. CASE InImage(addr)
    <3>1. Readable(addr + size, thunk) /\ Zero(addr + size, thunk)
      BY <1>9, <2>1 DEF Ends, WholeEntry
    <3> QED BY <1>1, <1>3, <1>6, <1>8, <3>1
  <2>2. CASE ~InImage(addr)
    <3>1. MaxCount * thunk = 0
      <4>1. MaxCount * thunk \in Nat
        BY <1>1
      <4> QED BY <1>1, <1>5, <2>2, <4>1
    <3>2. MaxCount = 0
      <4>1. CASE thunk = 1
        BY <1>1, <3>1, <4>1
      <4>2. CASE thunk = 2
        BY <1>1, <3>1, <4>2
      <4> QED BY <1>1, <4>1, <4>2
    <3> QED BY <1>1, <1>3, <3>2
  <2> QED BY <2>1, <2>2
<1>10. ASSUME GoesOn(addr, size) PROVE j + 1 \in 0..lib.count /\ size + thunk = (j + 1) * thunk
  <2>1. at + n + thunk <= Len(words) /\ ~Zero(addr + size, thunk)
    BY <1>6, <1>10 DEF GoesOn, WholeEntry
  <2>2. j < lib.count
    BY <1>8, <2>1
  <2> QED BY <1>1, <1>2, <1>3, <2>2
<1>11. ASSUME RunsOut(addr, size) PROVE tail = "cut"
  <2>1. ~(at + n + thunk <= Len(words))
    BY <1>6, <1>11 DEF RunsOut
  <2>2. at + n + thunk <= TablesEnd
    BY <1>1, <1>3
  <2> QED BY <1>1, <2>1, <2>2
<1>12. ASSUME GoesOn(addr, size), ReadsEndless(addr + size)
       PROVE  lib.count > 0 /\ lib.symbol < ORDINAL_FLAG /\ Endless(lib.symbol)
  <2>1. at + n + thunk <= Len(words) /\ ~Zero(addr + size, thunk)
    BY <1>6, <1>12 DEF GoesOn, WholeEntry
  <2>2. j < lib.count
    BY <1>8, <2>1
  <2>3. \A x \in 0..(thunk - 1) : Doubleword(addr + size + x) =
          IF thunk = 1 \/ x = Half(lib.symbol) THEN lib.symbol ELSE 0
    BY <1>7, <2>1, <2>2
  <2>4. PICK a \in Nat : a = addr + size
    BY <1>1, <1>4
  <2>5. Doubleword(a + thunk - 1) < ORDINAL_FLAG /\ Endless(Doubleword(a))
    BY <1>12, <2>4 DEF ReadsEndless
  <2>6. lib.symbol < ORDINAL_FLAG /\ Doubleword(a) = lib.symbol
    <3>1. CASE thunk = 1
      <4>1. 0 \in 0..(thunk - 1) /\ a + 0 = a /\ a + thunk - 1 = a
        BY <3>1
      <4>2. Doubleword(a + 0) = lib.symbol
        BY <2>3, <2>4, <3>1, <4>1
      <4> QED BY <2>5, <4>1, <4>2
    <3>2. CASE thunk = 2
      <4>1. 0 \in 0..(thunk - 1) /\ 1 \in 0..(thunk - 1) /\ a + 0 = a /\ a + thunk - 1 = a + 1
        BY <3>2
      <4>2. /\ Doubleword(a + 0) = IF 0 = Half(lib.symbol) THEN lib.symbol ELSE 0
            /\ Doubleword(a + 1) = IF 1 = Half(lib.symbol) THEN lib.symbol ELSE 0
        BY <2>3, <2>4, <3>2, <4>1
      <4>3. Doubleword(a + 1) < ORDINAL_FLAG
        BY <2>5, <4>1
      <4>4. lib.symbol < ORDINAL_FLAG
        <5>1. PICK half : half = Half(lib.symbol)
          OBVIOUS
        <5>2. lib.symbol >= ORDINAL_FLAG => half = 1
          BY <5>1 DEF Half
        <5>3. half = 1 => lib.symbol < ORDINAL_FLAG
          BY <4>2, <4>3, <5>1
        <5>4. lib.symbol \in Nat /\ ORDINAL_FLAG \in Nat
          BY <1>1 DEF ORDINAL_FLAG
        <5> QED BY ONLY <5>2, <5>3, <5>4
      <4>5. Half(lib.symbol) = 0
        BY <1>1, <4>4 DEF Half, ORDINAL_FLAG
      <4> QED BY <4>1, <4>2, <4>4, <4>5
    <3> QED BY <1>1, <3>1, <3>2
  <2>7. lib.count > 0
    BY <1>1, <1>3, <2>2
  <2> QED BY <2>5, <2>6, <2>7
<1> QED BY <1>9, <1>10, <1>11, <1>12
-----------------------------------------------------------------------------
(***************************************************************************)
(* The walk over the imports.  It is at entry e of the directory; all in   *)
(* front of it have an ILT, and their tables are grey.                     *)
(***************************************************************************)
Areas == Seq(Nat \X Nat)

AreasUpTo(n) == DirectoryAreas \o FlattenSeq([k \in 1..n |-> AreasOf(k)])

\* The entries of the ILT that the walk counts.
IltCount(k) == IF imports[k].ilt = "table" THEN imports[k].count ELSE 0

LEMMA LibraryIs ==
  ASSUME ImportsLaidOut, NEW k \in 1..Len(imports)
  PROVE  /\ imports[k].ilt \in {"table", "none", "outside"} /\ imports[k].count \in 0..MaxCount
         /\ IltCount(k) \in 0..MaxCount /\ MaxCount \in Nat /\ imports[k] \in Libraries
<1>1. imports[k] \in Libraries
  BY ElementOfSeq DEF ImportsLaidOut
<1>2. /\ imports[k].ilt \in {"table", "none", "outside"} /\ imports[k].count \in 0..MaxCount
      /\ MaxCount \in Nat
  BY <1>1, LibraryFields
<1> QED BY <1>1, <1>2 DEF IltCount

LEMMA AreasAre ==
  ASSUME ImportsLaidOut, NEW k \in 1..Len(imports)
  PROVE  /\ AreasOf(k) = << <<m_address + IltOf(k), IltCount(k) * thunk>>,
                            <<m_address + IatAt(k), imports[k].count * thunk>> >>
         /\ AreasOf(k) \in Areas
<1>1. PICK addr : addr = m_address + Directory + ENTRY * (k - 1)
  OBVIOUS
<1>2. Doubleword(addr) = IltOf(k) /\ Doubleword(addr + 1) = IatAt(k)
  BY <1>1, EntryReads
<1>3. addr = m_address + dirs[2][1] + ENTRY * (k - 1)
  BY <1>1 DEF Directory
<1>4. imports[k].count \in Nat /\ thunk \in {0, 1, 2} /\ MaxCount \in Nat /\ m_address \in Nat
  <2>1. imports[k].count \in 0..MaxCount /\ MaxCount \in Nat
    BY LibraryIs
  <2>2. thunk \in {0, 1, 2}
    BY DEF ImportsLaidOut
  <2> QED BY <2>1, <2>2, LoadedImageAssumption
<1>5. IltCount(k) * thunk = IF imports[k].ilt = "table" THEN imports[k].count * thunk ELSE 0
  <2>1. 0 * thunk = 0
    BY <1>4
  <2> QED BY <2>1 DEF IltCount
<1>6. AreasOf(k) = << <<m_address + IltOf(k), IltCount(k) * thunk>>,
                      <<m_address + IatAt(k), imports[k].count * thunk>> >>
  BY <1>2, <1>3, <1>5 DEF AreasOf
<1>7. IltOf(k) \in Nat /\ IatAt(k) \in Nat
  <2>1. IltAt(k) \in Nat /\ IatAt(k) \in Nat /\ TablesEnd \in Nat
    BY Places DEF ImportsLaidOut
  <2>2. IltOf(k) \in {0, TablesEnd + 3, IltAt(k)}
    BY LibraryIs DEF IltOf
  <2> QED BY <2>1, <2>2
<1>8. PICK a \in Nat, b \in Nat, c \in Nat, d \in Nat :
        /\ a = m_address + IltOf(k) /\ b = IltCount(k) * thunk
        /\ c = m_address + IatAt(k) /\ d = imports[k].count * thunk
  <2>1. IltCount(k) \in Nat /\ imports[k].count * thunk \in Nat
    BY <1>4, LibraryIs
  <2>2. IltCount(k) * thunk \in Nat
    BY <1>4, <2>1
  <2>3. m_address + IltOf(k) \in Nat /\ m_address + IatAt(k) \in Nat
    BY <1>4, <1>7
  <2> QED BY <2>1, <2>2, <2>3
<1>9. << <<a, b>>, <<c, d>> >> \in Areas
  BY DEF Areas
<1> QED BY <1>6, <1>8, <1>9

\* What the data directories make grey.
LEMMA DirectoriesAre ==
  ASSUME ImportsLaidOut
  PROVE  /\ FlattenSeq([k \in 1..Len(dirs) |->
              IF dirs[k] = <<0, 0>> THEN <<>>
              ELSE << <<m_address + dirs[k][1], dirs[k][2]>> >>]) = DirectoryAreas
         /\ DirectoryAreas \in Areas
<1>1. /\ dirs = << <<0, 0>>, <<Directory, ENTRY * (Len(imports) + 1)>>, <<1, 1>> >>
      /\ Directory \in Nat /\ m_address \in Nat /\ Len(imports) \in Nat
  BY LenProperties, LoadedImageAssumption DEF ImportsLaidOut
<1>2. PICK size \in Nat : size = ENTRY * (Len(imports) + 1) /\ size # 0
  BY <1>1 DEF ENTRY
<1>3. PICK a \in Nat \X Nat, b \in Nat \X Nat :
        a = <<m_address + Directory, size>> /\ b = <<m_address + 1, 1>>
  <2>1. m_address + Directory \in Nat /\ m_address + 1 \in Nat
    BY <1>1
  <2>2. <<m_address + Directory, size>> \in Nat \X Nat /\ <<m_address + 1, 1>> \in Nat \X Nat
    BY <2>1
  <2> QED BY <2>2
<1>4. PICK seqs : seqs = [k \in 1..Len(dirs) |->
                            IF dirs[k] = <<0, 0>> THEN <<>>
                            ELSE << <<m_address + dirs[k][1], dirs[k][2]>> >>]
  OBVIOUS
<1>5. /\ Len(dirs) = 3 /\ dirs[1] = <<0, 0>> /\ dirs[2] = <<Directory, size>>
      /\ dirs[3] = <<1, 1>>
  BY <1>1, <1>2
<1>6. <<Directory, size>> # <<0, 0>> /\ <<1, 1>> # <<0, 0>>
  BY <1>2
<1>7. seqs[1] = <<>> /\ seqs[2] = <<a>> /\ seqs[3] = <<b>> /\ DOMAIN seqs = 1..3
  BY <1>3, <1>4, <1>5, <1>6
<1>8. <<>> \in Areas /\ <<a>> \in Areas /\ <<b>> \in Areas /\ <<a, b>> \in Areas
  BY DEF Areas
<1>9. seqs \in [1..3 -> Areas]
  BY <1>4, <1>5, <1>7, <1>8
<1> DEFINE f == [k \in 0..3 |-> IF k = 3 THEN <<a, b>> ELSE IF k = 2 THEN <<a>> ELSE <<>>]
<1>10. f \in [0..3 -> Areas] /\ f[0] = <<>> /\ f[1] = <<>> /\ f[2] = <<a>> /\ f[3] = <<a, b>>
  BY <1>8
<1>11. <<>> \o <<>> = <<>> /\ <<>> \o <<a>> = <<a>> /\ <<a>> \o <<b>> = <<a, b>>
  <2>1. <<>> \o <<>> = <<>> /\ <<>> \o <<a>> = <<a>>
    BY <1>8, ConcatEmptySeq DEF Areas
  <2>2. PICK s \in Areas, t \in Areas : s = <<a>> /\ t = <<b>>
    BY <1>8
  <2>3. Len(s) = 1 /\ s[1] = a /\ Len(t) = 1 /\ t[1] = b
    BY <2>2
  <2>4. /\ s \o t \in Areas /\ Len(s \o t) = Len(s) + Len(t)
        /\ \A n \in 1..(Len(s) + Len(t)) :
             (s \o t)[n] = IF n <= Len(s) THEN s[n] ELSE t[n - Len(s)]
    BY ConcatProperties DEF Areas
  <2>5. Len(s \o t) = 2 /\ (s \o t)[1] = a /\ (s \o t)[2] = b
    BY <2>3, <2>4
  <2>6. PICK u \in Areas : u = <<a, b>> /\ Len(u) = 2 /\ u[1] = a /\ u[2] = b
    BY <1>8
  <2>7. s \o t = u
    <3>1. \A n \in 1..Len(s \o t) : (s \o t)[n] = u[n]
      BY <2>5, <2>6
    <3>2. PICK S : S = Nat \X Nat
      OBVIOUS
    <3>3. s \o t \in Seq(S) /\ u \in Seq(S) /\ Len(s \o t) = Len(u)
      BY <2>4, <2>5, <2>6, <3>2 DEF Areas
    <3> QED BY ONLY <3>1, <3>3, SeqEqual
  <2> QED BY <2>1, <2>2, <2>6, <2>7
<1> HIDE DEF f
<1>12. \A k \in 1..3 : f[k] = f[k - 1] \o seqs[k]
  <2> SUFFICES ASSUME NEW k \in 1..3 PROVE f[k] = f[k - 1] \o seqs[k]
    OBVIOUS
  <2>1. f[1] = f[0] \o seqs[1] /\ f[2] = f[1] \o seqs[2] /\ f[3] = f[2] \o seqs[3]
    BY <1>7, <1>10, <1>11
  <2>2. 1 - 1 = 0 /\ 2 - 1 = 1 /\ 3 - 1 = 2 /\ k \in {1, 2, 3}
    OBVIOUS
  <2>3. \A m \in {1, 2, 3} : f[m] = f[m - 1] \o seqs[m]
    BY <2>1, <2>2
  <2> QED BY <2>2, <2>3
<1>13. Sums(Nat \X Nat, 3, seqs, f)
  BY <1>10, <1>12 DEF Sums, Areas
<1>14. FlattenSeq(seqs) = f[3]
  <2>1. PICK S : S = Nat \X Nat
    OBVIOUS
  <2>2. 3 \in Nat /\ seqs \in [1..3 -> Seq(S)] /\ Sums(S, 3, seqs, f)
    BY <1>9, <1>13, <2>1 DEF Areas
  <2> QED BY ONLY <2>2, FlattenIs
<1>15. DirectoryAreas = <<a, b>>
  BY <1>3, <1>5 DEF DirectoryAreas
<1> QED BY <1>4, <1>8, <1>10, <1>14, <1>15

LEMMA NoAreas ==
  ASSUME ImportsLaidOut PROVE AreasUpTo(0) = DirectoryAreas
<1>1. [k \in 1..0 |-> AreasOf(k)] = <<>>
  OBVIOUS
<1>2. FlattenSeq(<<>>) = <<>>
  BY DEF FlattenSeq
<1>3. DirectoryAreas \o <<>> = DirectoryAreas
  BY DirectoriesAre, ConcatEmptySeq DEF Areas
<1> QED BY <1>1, <1>2, <1>3 DEF AreasUpTo

LEMMA AreasStep ==
  ASSUME ImportsLaidOut, NEW e \in 1..Len(imports)
  PROVE  AreasUpTo(e) = AreasUpTo(e - 1) \o AreasOf(e)
<1>1. PICK n \in Nat : n + 1 = e /\ n = e - 1
  OBVIOUS
<1>2. PICK seqs : seqs = [k \in 1..(n + 1) |-> AreasOf(k)]
  OBVIOUS
<1>3. \A k \in 1..(n + 1) : AreasOf(k) \in Areas
  <2>1. \A k \in 1..(n + 1) : k \in 1..Len(imports)
    BY <1>1
  <2> QED BY <2>1, AreasAre
<1>4. seqs \in [1..(n + 1) -> Seq(Nat \X Nat)]
  BY <1>2, <1>3 DEF Areas
<1>5. PICK front : front = [k \in 1..n |-> AreasOf(k)]
  OBVIOUS
<1>6. front = [k \in 1..n |-> seqs[k]] /\ seqs[n + 1] = AreasOf(e)
  <2>1. \A k \in 1..n : seqs[k] = AreasOf(k)
    BY <1>2
  <2>2. seqs[n + 1] = AreasOf(n + 1)
    BY <1>2
  <2> QED BY <1>1, <1>5, <2>1, <2>2
<1>7. FlattenSeq(seqs) = FlattenSeq(front) \o AreasOf(e)
  BY <1>4, <1>6, FlattenStep
<1>8. FlattenSeq(front) \in Areas
  <2>1. \A k \in 1..n : AreasOf(k) \in Areas
    BY <1>3
  <2>2. front \in [1..n -> Seq(Nat \X Nat)]
    BY <1>5, <2>1 DEF Areas
  <2> QED BY <2>2, FlattenParts DEF Areas
<1>9. DirectoryAreas \o (FlattenSeq(front) \o AreasOf(e))
        = (DirectoryAreas \o FlattenSeq(front)) \o AreasOf(e)
  <2>1. PICK s \in Areas, t \in Areas, u \in Areas :
          s = DirectoryAreas /\ t = FlattenSeq(front) /\ u = AreasOf(e)
    BY <1>8, AreasAre, DirectoriesAre
  <2>2. (s \o t) \o u = s \o (t \o u)
    <3>1. PICK S : S = Nat \X Nat
      OBVIOUS
    <3>2. s \in Seq(S) /\ t \in Seq(S) /\ u \in Seq(S)
      BY <3>1 DEF Areas
    <3> QED BY ONLY <3>2, ConcatAssociative
  <2> QED BY <2>1, <2>2
<1>10. AreasUpTo(e) = DirectoryAreas \o FlattenSeq(seqs)
  BY <1>1, <1>2 DEF AreasUpTo
<1>11. AreasUpTo(e - 1) = DirectoryAreas \o FlattenSeq(front)
  BY <1>1, <1>5 DEF AreasUpTo
<1> QED BY <1>7, <1>9, <1>10, <1>11

\* The walk stops at the first import without an ILT, or behind the last.
LEMMA ListedIs ==
  ASSUME ImportsLaidOut, NEW e \in 1..(Len(imports) + 1),
         \A k \in 1..(e - 1) : imports[k].ilt # "none",
         e <= Len(imports) => imports[e].ilt = "none"
  PROVE  Listed = e - 1
<1>1. Len(imports) \in Nat
  BY LenProperties DEF ImportsLaidOut
<1>2. PICK stops : stops = {k \in 1..(Len(imports) + 1) :
                              k <= Len(imports) => imports[k].ilt = "none"}
  OBVIOUS
<1>3. e \in stops /\ \A k \in stops : e <= k
  <2>1. ASSUME NEW k \in stops, k < e PROVE FALSE
    <3>1. k \in 1..(Len(imports) + 1) /\ (k <= Len(imports) => imports[k].ilt = "none")
      BY <1>2
    <3>2. k \in 1..(e - 1) /\ k <= Len(imports)
      BY <1>1, <2>1, <3>1
    <3> QED BY <3>1, <3>2
  <2>2. \A k \in stops : k \in Nat
    BY <1>2
  <2>3. e \in stops
    BY <1>2
  <2> QED BY <2>1, <2>2, <2>3
<1>4. Min(stops) = e
  <2>1. \A k \in stops : k \in Nat
    BY <1>2
  <2>2. PICK least : least = Min(stops)
    OBVIOUS
  <2>3. least \in stops /\ \A k \in stops : least <= k
    BY <1>3, <2>2 DEF Min
  <2> QED BY <1>3, <2>1, <2>2, <2>3
<1> QED BY <1>2, <1>4 DEF Listed

AtEntry(e) ==
  /\ thunk # 0 /\ Directory < Len(words)
  /\ \A k \in 1..(e - 1) : imports[k].ilt # "none"
  /\ import_directory_entry = m_address + Directory + ENTRY * (e - 1)
  /\ grey_areas = AreasUpTo(e - 1)

AtTables(e) ==
  /\ AtEntry(e) /\ imports[e].ilt # "none"
  /\ ilt_addr = m_address + IltOf(e) /\ iat_addr = m_address + IatAt(e)

InIlt(e, j) ==
  AtTables(e) /\ j <= IltCount(e) /\ ilt_size = j * thunk /\ iat_size = 0

InIat(e, j) ==
  AtTables(e) /\ j <= imports[e].count /\ ilt_size = IltCount(e) * thunk /\ iat_size = j * thunk

ImportWalking ==
  \/ pc = "dirs" /\ grey_areas = <<>>
  \/ pc = "entry" /\ \E e \in 1..(Len(imports) + 1) : AtEntry(e)
  \/ pc = "ilt" /\ \E e \in 1..Len(imports), j \in Nat : InIlt(e, j)
  \/ pc = "iat" /\ \E e \in 1..Len(imports), j \in Nat : InIat(e, j)
  \/ pc = "done" /\ grey_areas = IF thunk = 0 THEN <<>> ELSE AreasUpTo(Listed)
  \/ pc = "outside" /\ (tail = "cut" \/ NameUnended)

\* With no import directory the walk may go anywhere.
ImportInv == dirs[2] # <<0, 0>> => ImportsLaidOut /\ ImportWalking

\* The image does not change.
LEMMA ImportImageStays ==
  ASSUME UNCHANGED import_image
  PROVE  /\ imports' = imports /\ words' = words /\ dirs' = dirs /\ thunk' = thunk
         /\ tail' = tail /\ Directory' = Directory /\ Listed' = Listed
         /\ NameUnended' = NameUnended
         /\ ImportsLaidOut => ImportsLaidOut'
         /\ \A k : /\ IltOf(k)' = IltOf(k) /\ IatAt(k)' = IatAt(k)
                   /\ IltCount(k)' = IltCount(k) /\ AreasUpTo(k)' = AreasUpTo(k)
<1>1. imports' = imports /\ words' = words /\ dirs' = dirs /\ thunk' = thunk /\ tail' = tail
  BY DEF import_image
<1>2. Directory' = Directory /\ Listed' = Listed
  BY <1>1 DEF Directory, Listed
<1>3. Table' = Table /\ Behind' = Behind /\ TablesEnd' = TablesEnd
  BY <1>1, <1>2 DEF Table, Behind, TablesEnd
<1>4. \A k : IltAt(k)' = IltAt(k) /\ IatAt(k)' = IatAt(k)
  BY <1>3 DEF IltAt, IatAt
<1>5. \A k : IltOf(k)' = IltOf(k) /\ IltCount(k)' = IltCount(k)
  BY <1>1, <1>3, <1>4 DEF IltOf, IltCount
<1>6. \A a : Doubleword(a)' = Doubleword(a)
  BY <1>1 DEF Doubleword
<1>7. DirectoryAreas' = DirectoryAreas /\ \A k : AreasOf(k)' = AreasOf(k)
  BY <1>1, <1>6 DEF DirectoryAreas, AreasOf
<1>8. \A k : AreasUpTo(k)' = AreasUpTo(k)
  BY <1>7 DEF AreasUpTo
<1>9. \A c : ImportTable(c)' = ImportTable(c)
  BY <1>1, <1>3 DEF ImportTable
<1>10. \A a, c : Holds(a, c) => Holds(a, c)'
  BY <1>1, <1>3, <1>9 DEF Holds
<1>12. NameUnended' = NameUnended
  <2>1. \A a : Endless(a)' = Endless(a)
    BY <1>1, <1>6 DEF Endless, InImage
  <2> QED BY <1>1, <1>2, <2>1 DEF NameUnended
<1>11. ASSUME ImportsLaidOut PROVE ImportsLaidOut'
  <2>1. \A k \in 1..Len(imports) :
          /\ Holds(IltAt(k), imports[k])' /\ Holds(IatAt(k), imports[k])'
    <3> SUFFICES ASSUME NEW k \in 1..Len(imports)
                 PROVE  Holds(IltAt(k), imports[k])' /\ Holds(IatAt(k), imports[k])'
      OBVIOUS
    <3>1. PICK a, b, c : a = IltAt(k) /\ b = IatAt(k) /\ c = imports[k]
      OBVIOUS
    <3>2. Holds(a, c) /\ Holds(b, c)
      BY <1>11, <3>1 DEF ImportsLaidOut
    <3>3. Holds(a, c)' /\ Holds(b, c)'
      BY <1>10, <3>2
    <3>4. IltAt(k)' = a /\ IatAt(k)' = b /\ imports'[k] = c
      BY <1>1, <1>4, <3>1
    <3> QED BY <3>3, <3>4 DEF Holds
  <2> QED BY <1>1, <1>2, <1>3, <1>4, <1>5, <1>11, <2>1 DEF ImportsLaidOut
<1> QED BY <1>1, <1>2, <1>4, <1>5, <1>8, <1>11, <1>12

\* The two loops of an entry.
LEMMA IltCounts ==
  ASSUME ImportsLaidOut, NEW e \in 1..Len(imports), NEW j \in Nat, InIlt(e, j)
  PROVE  /\ Ends(ilt_addr, ilt_size) => j = IltCount(e)
         /\ GoesOn(ilt_addr, ilt_size) =>
              j + 1 <= IltCount(e) /\ ilt_size + thunk = (j + 1) * thunk
         /\ RunsOut(ilt_addr, ilt_size) => tail = "cut"
         /\ GoesOn(ilt_addr, ilt_size) /\ ReadsEndless(ilt_addr + ilt_size) =>
              /\ imports[e].ilt = "table" /\ imports[e].count > 0
              /\ imports[e].symbol < ORDINAL_FLAG /\ Endless(imports[e].symbol)
<1>1. /\ thunk # 0 /\ imports[e].ilt # "none" /\ j <= IltCount(e) /\ ilt_size = j * thunk
      /\ ilt_addr = m_address + IltOf(e)
  BY DEF InIlt, AtTables, AtEntry
<1>2. /\ imports[e].ilt \in {"table", "none", "outside"} /\ imports[e].count \in 0..MaxCount
      /\ IltCount(e) \in 0..MaxCount /\ MaxCount \in Nat /\ imports[e] \in Libraries
  BY LibraryIs
<1>3. CASE imports[e].ilt = "table"
  <2>1. IltOf(e) = IltAt(e) /\ IltCount(e) = imports[e].count
    BY <1>3 DEF IltOf, IltCount
  <2>2. IltAt(e) \in Nat /\ IltAt(e) + Table <= TablesEnd
    <3>1. /\ IltAt(e) \in Nat /\ IatAt(e) = IltAt(e) + Table /\ Table \in Nat
          /\ IatAt(e) + Table <= TablesEnd /\ TablesEnd \in Nat
      BY Places DEF ImportsLaidOut
    <3> QED BY <3>1
  <2>3. Holds(IltAt(e), imports[e])
    BY DEF ImportsLaidOut
  <2>4. j \in 0..imports[e].count
    BY <1>1, <1>2, <2>1
  <2>5. /\ Ends(ilt_addr, ilt_size) => j = imports[e].count
        /\ GoesOn(ilt_addr, ilt_size) =>
             j + 1 \in 0..imports[e].count /\ ilt_size + thunk = (j + 1) * thunk
        /\ RunsOut(ilt_addr, ilt_size) => tail = "cut"
        /\ GoesOn(ilt_addr, ilt_size) /\ ReadsEndless(ilt_addr + ilt_size) =>
             /\ imports[e].count > 0
             /\ imports[e].symbol < ORDINAL_FLAG /\ Endless(imports[e].symbol)
    <3>1. ilt_addr = m_address + IltAt(e)
      BY <1>1, <2>1
    <3> QED BY <1>1, <1>2, <2>2, <2>3, <2>4, <3>1, LoopCounts
  <2> QED BY <1>3, <2>1, <2>5
<1>4. CASE imports[e].ilt = "outside"
  <2>1. IltOf(e) = TablesEnd + 3 /\ IltCount(e) = 0
    BY <1>4 DEF IltOf, IltCount
  <2>2. /\ Len(words) <= TablesEnd + 3 /\ TablesEnd \in Nat /\ Len(words) \in Nat
        /\ m_address \in Nat
    BY Places, LenProperties, LoadedImageAssumption DEF ImportsLaidOut
  <2>3. ~InImage(ilt_addr)
    BY <1>1, <2>1, <2>2 DEF InImage, IsAddrMapped_Imp
  <2>4. j = IltCount(e)
    BY <1>1, <2>1
  <2> QED BY <2>3, <2>4 DEF GoesOn, RunsOut
<1> QED BY <1>1, <1>2, <1>3, <1>4

LEMMA IatCounts ==
  ASSUME ImportsLaidOut, NEW e \in 1..Len(imports), NEW j \in Nat, InIat(e, j)
  PROVE  /\ Ends(iat_addr, iat_size) => j = imports[e].count
         /\ GoesOn(iat_addr, iat_size) =>
              j + 1 <= imports[e].count /\ iat_size + thunk = (j + 1) * thunk
         /\ RunsOut(iat_addr, iat_size) => tail = "cut"
<1>1. /\ thunk # 0 /\ j <= imports[e].count /\ iat_size = j * thunk
      /\ iat_addr = m_address + IatAt(e)
  BY DEF InIat, AtTables, AtEntry
<1>2. imports[e].count \in 0..MaxCount /\ MaxCount \in Nat /\ imports[e] \in Libraries
  BY LibraryIs
<1>3. IatAt(e) \in Nat /\ IatAt(e) + Table <= TablesEnd
  BY Places DEF ImportsLaidOut
<1>4. Holds(IatAt(e), imports[e])
  BY DEF ImportsLaidOut
<1>5. j \in 0..imports[e].count
  BY <1>1, <1>2
<1>6. /\ Ends(iat_addr, iat_size) => j = imports[e].count
      /\ GoesOn(iat_addr, iat_size) =>
           j + 1 \in 0..imports[e].count /\ iat_size + thunk = (j + 1) * thunk
      /\ RunsOut(iat_addr, iat_size) => tail = "cut"
  BY <1>1, <1>2, <1>3, <1>4, <1>5, LoopCounts
<1> QED BY <1>6

\* The walk's place is unchanged where its variables and its image are.
LEMMA EntryStays ==
  ASSUME UNCHANGED import_image, import_directory_entry' = import_directory_entry,
         grey_areas' = grey_areas, NEW e, AtEntry(e)
  PROVE  AtEntry(e)'
<1>1. PICK n : n = e - 1
  OBVIOUS
<1>2. /\ imports' = imports /\ words' = words /\ thunk' = thunk /\ Directory' = Directory
      /\ AreasUpTo(n)' = AreasUpTo(n)
  BY ImportImageStays
<1>3. /\ thunk # 0 /\ Directory < Len(words)
      /\ \A k \in 1..n : imports[k].ilt # "none"
      /\ import_directory_entry = m_address + Directory + ENTRY * n
      /\ grey_areas = AreasUpTo(n)
  BY <1>1 DEF AtEntry
<1> QED BY <1>1, <1>2, <1>3 DEF AtEntry

LEMMA TablesStay ==
  ASSUME UNCHANGED import_image, import_directory_entry' = import_directory_entry,
         grey_areas' = grey_areas, ilt_addr' = ilt_addr, iat_addr' = iat_addr,
         NEW e, AtTables(e)
  PROVE  AtTables(e)'
<1>1. AtEntry(e)'
  BY EntryStays DEF AtTables
<1>2. imports' = imports /\ IltOf(e)' = IltOf(e) /\ IatAt(e)' = IatAt(e)
  BY ImportImageStays
<1> QED BY <1>1, <1>2 DEF AtTables

\* The directory of an image that has one is looked at first.
LEMMA DirectoriesKeeps ==
  ASSUME ImportsLaidOut, ImportWalking, Directories
  PROVE  ImportWalking'
<1>1. UNCHANGED import_image /\ import_directory_entry' = m_address + Directory
  BY DEF Directories, IMAGE_DIRECTORY_ENTRY_IMPORT, Directory
<1>2. grey_areas' = IF thunk = 0 THEN <<>> ELSE DirectoryAreas
  BY DirectoriesAre DEF Directories
<1>3. /\ imports' = imports /\ words' = words /\ thunk' = thunk /\ Directory' = Directory
      /\ Listed' = Listed /\ AreasUpTo(0)' = AreasUpTo(0)
      /\ AreasUpTo(Listed)' = AreasUpTo(Listed)
  <2>1. PICK n : n = Listed
    OBVIOUS
  <2>2. Listed' = n /\ AreasUpTo(n)' = AreasUpTo(n)
    BY <1>1, <2>1, ImportImageStays
  <2> QED BY <1>1, <2>1, <2>2, ImportImageStays DEF AreasUpTo
<1>4. /\ m_address \in Nat /\ Directory \in Nat /\ Len(words) \in Nat /\ Len(imports) \in Nat
  BY LenProperties, LoadedImageAssumption DEF ImportsLaidOut
<1>5. InImage(import_directory_entry') <=> Directory < Len(words)
  BY <1>1, <1>4 DEF InImage, IsAddrMapped_Imp
<1>6. pc' = IF thunk # 0 /\ Directory < Len(words) THEN "entry" ELSE "done"
  BY <1>5 DEF Directories
<1>7. CASE thunk = 0
  BY <1>2, <1>3, <1>6, <1>7 DEF ImportWalking
<1>8. CASE thunk # 0 /\ Directory < Len(words)
  <2>1. \A k \in 1..(1 - 1) : imports[k].ilt # "none"
    OBVIOUS
  <2>2. m_address + Directory + ENTRY * (1 - 1) = m_address + Directory /\ 1 - 1 = 0
    BY <1>4 DEF ENTRY
  <2>3. grey_areas' = AreasUpTo(0)
    BY <1>2, <1>8, NoAreas
  <2>4. PICK n : n = 0 /\ n = 1 - 1
    OBVIOUS
  <2>5. AreasUpTo(n)' = AreasUpTo(n)
    BY <1>1, ImportImageStays
  <2>6. AtEntry(1)'
    BY <1>1, <1>3, <1>8, <2>1, <2>2, <2>3, <2>4, <2>5 DEF AtEntry
  <2>7. 1 \in 1..(Len(imports') + 1)
    BY <1>3, <1>4
  <2> QED BY <1>6, <1>8, <2>6, <2>7 DEF ImportWalking
<1>9. CASE thunk # 0 /\ ~(Directory < Len(words))
  <2>1. Len(imports) = 0
    <3>1. CASE 1 \in 1..Len(imports)
      <4>1. Directory + ENTRY * 1 < Len(words)
        BY <3>1 DEF ImportsLaidOut
      <4> QED BY <1>4, <1>9, <4>1 DEF ENTRY
    <3> QED BY <1>4, <3>1
  <2>2. Listed = 0
    <3>1. PICK e \in 1..(Len(imports) + 1) : e = 1
      BY <2>1
    <3>2. Listed = e - 1
      BY <2>1, <3>1, ListedIs
    <3> QED BY <3>1, <3>2
  <2>3. grey_areas' = AreasUpTo(Listed)
    BY <1>2, <1>9, <2>2, NoAreas
  <2> QED BY <1>3, <1>6, <1>9, <2>3 DEF ImportWalking
<1> QED BY <1>7, <1>8, <1>9

\* What an entry's first doubleword says.
LEMMA IltOfIs ==
  ASSUME ImportsLaidOut, NEW e \in 1..Len(imports)
  PROVE  IltOf(e) = 0 <=> imports[e].ilt = "none"
<1>1. /\ Len(imports) \in Nat /\ Behind \in Nat /\ TablesEnd \in Nat /\ Directory \in Nat
      /\ Behind = Directory + 2 * Len(imports) + 2 /\ IltAt(e) \in Nat /\ Behind <= IltAt(e)
  BY Places DEF ImportsLaidOut
<1>2. TablesEnd + 3 # 0 /\ IltAt(e) # 0
  BY <1>1
<1> QED BY <1>2 DEF IltOf

LEMMA LastEntryKeeps ==
  ASSUME ImportsLaidOut, ImportWalking, LastEntry
  PROVE  ImportWalking'
<1>1. /\ pc = "entry" /\ pc' = "done" /\ UNCHANGED import_image /\ grey_areas' = grey_areas
      /\ Doubleword(import_directory_entry) = 0
  BY DEF LastEntry
<1>2. PICK e \in 1..(Len(imports) + 1) : AtEntry(e)
  BY <1>1 DEF ImportWalking
<1>3. /\ thunk # 0 /\ \A k \in 1..(e - 1) : imports[k].ilt # "none"
      /\ import_directory_entry = m_address + Directory + ENTRY * (e - 1)
      /\ grey_areas = AreasUpTo(e - 1)
  BY <1>2 DEF AtEntry
<1>4. e <= Len(imports) => imports[e].ilt = "none"
  <2>1. ASSUME e \in 1..Len(imports) PROVE imports[e].ilt = "none"
    <3>1. IltOf(e) = 0
      BY <1>1, <1>3, <2>1, EntryReads
    <3> QED BY <2>1, <3>1, IltOfIs
  <2>2. Len(imports) \in Nat
    BY LenProperties DEF ImportsLaidOut
  <2> QED BY <2>1, <2>2
<1>5. Listed = e - 1
  BY <1>3, <1>4, ListedIs
<1>6. PICK n : n = Listed
  OBVIOUS
<1>7. grey_areas = AreasUpTo(n)
  BY <1>3, <1>5, <1>6
<1>8. thunk' = thunk /\ Listed' = n /\ AreasUpTo(n)' = AreasUpTo(n)
  BY <1>1, <1>6, ImportImageStays
<1>9. grey_areas' = AreasUpTo(Listed)'
  BY <1>1, <1>7, <1>8 DEF AreasUpTo
<1> QED BY <1>1, <1>3, <1>8, <1>9 DEF ImportWalking

LEMMA EntryKeeps ==
  ASSUME ImportsLaidOut, ImportWalking, Entry
  PROVE  ImportWalking'
<1>1. /\ pc = "entry" /\ pc' = "ilt" /\ UNCHANGED import_image /\ grey_areas' = grey_areas
      /\ import_directory_entry' = import_directory_entry
      /\ Doubleword(import_directory_entry) # 0
      /\ ilt_addr' = m_address + Doubleword(import_directory_entry)
      /\ iat_addr' = m_address + Doubleword(import_directory_entry + 1)
      /\ ilt_size' = 0 /\ iat_size' = 0
  BY DEF Entry
<1>2. PICK e \in 1..(Len(imports) + 1) : AtEntry(e)
  BY <1>1 DEF ImportWalking
<1>3. /\ thunk # 0 /\ Directory < Len(words)
      /\ import_directory_entry = m_address + Directory + ENTRY * (e - 1)
      /\ Len(imports) \in Nat /\ thunk \in {0, 1, 2}
  BY <1>2, LenProperties DEF AtEntry, ImportsLaidOut
<1>4. e \in 1..Len(imports)
  <2>1. ASSUME e = Len(imports) + 1 PROVE FALSE
    <3>1. e - 1 = Len(imports)
      BY <1>3, <2>1
    <3>2. Doubleword(import_directory_entry) = 0
      BY <1>3, <3>1, EndReads
    <3> QED BY <1>1, <3>2
  <2> QED BY <1>3, <2>1
<1>5. /\ Doubleword(import_directory_entry) = IltOf(e)
      /\ Doubleword(import_directory_entry + 1) = IatAt(e)
  BY <1>3, <1>4, EntryReads
<1>6. imports[e].ilt # "none"
  BY <1>1, <1>4, <1>5, IltOfIs
<1>7. AtEntry(e)' /\ imports' = imports /\ IltOf(e)' = IltOf(e) /\ IatAt(e)' = IatAt(e)
      /\ IltCount(e)' = IltCount(e) /\ thunk' = thunk
  BY <1>1, <1>2, EntryStays, ImportImageStays
<1>8. AtTables(e)'
  BY <1>1, <1>5, <1>6, <1>7 DEF AtTables
<1>9. 0 <= IltCount(e) /\ 0 = 0 * thunk
  BY <1>3, <1>4, LibraryIs
<1>10. InIlt(e, 0)'
  BY <1>1, <1>7, <1>8, <1>9 DEF InIlt
<1> QED BY <1>1, <1>4, <1>7, <1>10 DEF ImportWalking

LEMMA IltItemKeeps ==
  ASSUME ImportsLaidOut, ImportWalking, IltItem
  PROVE  ImportWalking'
<1>1. /\ pc = "ilt" /\ pc' = "ilt" /\ UNCHANGED import_image /\ grey_areas' = grey_areas
      /\ import_directory_entry' = import_directory_entry
      /\ ilt_addr' = ilt_addr /\ iat_addr' = iat_addr /\ iat_size' = iat_size
      /\ ilt_size' = ilt_size + thunk /\ GoesOn(ilt_addr, ilt_size)
  BY DEF IltItem
<1>2. PICK e \in 1..Len(imports), j \in Nat : InIlt(e, j)
  BY <1>1 DEF ImportWalking
<1>3. j + 1 \in Nat /\ j + 1 <= IltCount(e) /\ ilt_size + thunk = (j + 1) * thunk
  BY <1>1, <1>2, IltCounts
<1>4. AtTables(e)' /\ imports' = imports /\ IltCount(e)' = IltCount(e) /\ thunk' = thunk
  BY <1>1, <1>2, TablesStay, ImportImageStays DEF InIlt
<1>5. InIlt(e, j + 1)'
  BY <1>1, <1>2, <1>3, <1>4 DEF InIlt
<1> QED BY <1>1, <1>3, <1>4, <1>5 DEF ImportWalking

LEMMA IltEndKeeps ==
  ASSUME ImportsLaidOut, ImportWalking, IltEnd
  PROVE  ImportWalking'
<1>1. /\ pc = "ilt" /\ pc' = "iat" /\ UNCHANGED import_image /\ grey_areas' = grey_areas
      /\ import_directory_entry' = import_directory_entry
      /\ ilt_addr' = ilt_addr /\ iat_addr' = iat_addr /\ iat_size' = iat_size
      /\ ilt_size' = ilt_size /\ Ends(ilt_addr, ilt_size)
  BY DEF IltEnd, import_locals
<1>2. PICK e \in 1..Len(imports), j \in Nat : InIlt(e, j)
  BY <1>1 DEF ImportWalking
<1>3. j = IltCount(e)
  <2>1. Ends(ilt_addr, ilt_size) => j = IltCount(e)
    BY <1>2, IltCounts
  <2> QED BY <1>1, <2>1
<1>4. AtTables(e)' /\ imports' = imports /\ IltCount(e)' = IltCount(e) /\ thunk' = thunk
  BY <1>1, <1>2, TablesStay, ImportImageStays DEF InIlt
<1>5. 0 <= imports[e].count /\ 0 = 0 * thunk
  <2>1. imports[e].count \in 0..MaxCount /\ MaxCount \in Nat
    BY LibraryIs
  <2>2. thunk \in {0, 1, 2}
    BY DEF ImportsLaidOut
  <2> QED BY <2>1, <2>2
<1>6. InIat(e, 0)'
  BY <1>1, <1>2, <1>3, <1>4, <1>5 DEF InIlt, InIat
<1> QED BY <1>1, <1>4, <1>6 DEF ImportWalking

LEMMA IatItemKeeps ==
  ASSUME ImportsLaidOut, ImportWalking, IatItem
  PROVE  ImportWalking'
<1>1. /\ pc = "iat" /\ pc' = "iat" /\ UNCHANGED import_image /\ grey_areas' = grey_areas
      /\ import_directory_entry' = import_directory_entry
      /\ ilt_addr' = ilt_addr /\ iat_addr' = iat_addr /\ ilt_size' = ilt_size
      /\ iat_size' = iat_size + thunk /\ GoesOn(iat_addr, iat_size)
  BY DEF IatItem
<1>2. PICK e \in 1..Len(imports), j \in Nat : InIat(e, j)
  BY <1>1 DEF ImportWalking
<1>3. j + 1 \in Nat /\ j + 1 <= imports[e].count /\ iat_size + thunk = (j + 1) * thunk
  BY <1>1, <1>2, IatCounts
<1>4. AtTables(e)' /\ imports' = imports /\ IltCount(e)' = IltCount(e) /\ thunk' = thunk
  BY <1>1, <1>2, TablesStay, ImportImageStays DEF InIat
<1>5. InIat(e, j + 1)'
  BY <1>1, <1>2, <1>3, <1>4 DEF InIat
<1> QED BY <1>1, <1>3, <1>4, <1>5 DEF ImportWalking

\* Both tables become grey areas, and the next entry follows.
LEMMA IatEndKeeps ==
  ASSUME ImportsLaidOut, ImportWalking, IatEnd
  PROVE  ImportWalking'
<1>1. /\ pc = "iat" /\ pc' = "entry" /\ UNCHANGED import_image
      /\ grey_areas' = grey_areas \o << <<ilt_addr, ilt_size>>, <<iat_addr, iat_size>> >>
      /\ import_directory_entry' = import_directory_entry + ENTRY
      /\ Ends(iat_addr, iat_size)
  BY DEF IatEnd
<1>2. PICK e \in 1..Len(imports), j \in Nat : InIat(e, j)
  BY <1>1 DEF ImportWalking
<1>3. j = imports[e].count
  BY <1>1, <1>2, IatCounts
<1>4. /\ thunk # 0 /\ Directory < Len(words)
      /\ \A k \in 1..(e - 1) : imports[k].ilt # "none"
      /\ import_directory_entry = m_address + Directory + ENTRY * (e - 1)
      /\ grey_areas = AreasUpTo(e - 1) /\ imports[e].ilt # "none"
      /\ << <<ilt_addr, ilt_size>>, <<iat_addr, iat_size>> >> = AreasOf(e)
  BY <1>2, <1>3, AreasAre DEF InIat, AtTables, AtEntry
<1>5. PICK n : n = e + 1
  OBVIOUS
<1>6. /\ Len(imports) \in Nat /\ Directory \in Nat /\ m_address \in Nat
      /\ n \in 1..(Len(imports) + 1) /\ n - 1 = e
  BY <1>5, LenProperties, LoadedImageAssumption DEF ImportsLaidOut
<1>7. grey_areas' = AreasUpTo(n - 1)
  BY <1>1, <1>4, <1>6, AreasStep
<1>8. \A k \in 1..(n - 1) : imports[k].ilt # "none"
  <2> SUFFICES ASSUME NEW k \in 1..e PROVE imports[k].ilt # "none"
    BY <1>6
  <2>1. k = e \/ k \in 1..(e - 1)
    BY <1>6
  <2> QED BY <1>4, <2>1
<1>9. import_directory_entry' = m_address + Directory + ENTRY * (n - 1)
  BY <1>1, <1>4, <1>6 DEF ENTRY
<1>10. PICK m : m = n - 1
  OBVIOUS
<1>11. /\ imports' = imports /\ words' = words /\ thunk' = thunk /\ Directory' = Directory
       /\ AreasUpTo(m)' = AreasUpTo(m)
  BY <1>1, ImportImageStays
<1>12. AtEntry(n)'
  BY <1>4, <1>7, <1>8, <1>9, <1>10, <1>11 DEF AtEntry
<1> QED BY <1>1, <1>6, <1>11, <1>12 DEF ImportWalking

\* An import the walk comes to is in front of the first without ILT.
LEMMA ComesToListed ==
  ASSUME ImportsLaidOut, NEW e \in 1..Len(imports), AtTables(e)
  PROVE  e \in 1..Listed
<1>1. Len(imports) \in Nat
  BY LenProperties DEF ImportsLaidOut
<1>2. PICK stops : stops = {k \in 1..(Len(imports) + 1) :
                              k <= Len(imports) => imports[k].ilt = "none"}
  OBVIOUS
<1>3. Len(imports) + 1 \in stops /\ \A k \in stops : k \in Nat
  BY <1>1, <1>2
<1>4. PICK least \in stops : least = Min(stops) /\ \A k \in stops : least <= k
  <2>1. PICK least \in stops : \A k \in stops : least <= k
    <3>1. stops \subseteq Nat /\ stops # {}
      BY <1>3
    <3> QED BY <3>1, LeastElement
  <2>2. PICK m : m = Min(stops)
    OBVIOUS
  <2>3. m \in stops /\ \A k \in stops : m <= k
    BY <2>1, <2>2 DEF Min
  <2> QED BY <2>2, <2>3
<1>5. Listed = least - 1
  BY <1>2, <1>4 DEF Listed
<1>6. ASSUME least <= e PROVE FALSE
  <2>1. least \in 1..Len(imports) /\ imports[least].ilt = "none"
    BY <1>1, <1>2, <1>4, <1>6
  <2>2. imports[e].ilt # "none" /\ \A k \in 1..(e - 1) : imports[k].ilt # "none"
    BY DEF AtTables, AtEntry
  <2>3. least = e \/ least \in 1..(e - 1)
    BY <1>6, <2>1
  <2> QED BY <2>1, <2>2, <2>3
<1>7. least \in Nat
  BY <1>3, <1>4
<1> QED BY <1>5, <1>6, <1>7

\* The walk leaves the image at the end of a table that is cut off, or behind a name
\* that is not ended.
LEMMA OutsideKeeps ==
  ASSUME ImportsLaidOut, ImportWalking, Outside
  PROVE  ImportWalking'
<1>1. pc' = "outside" /\ UNCHANGED import_image
  BY DEF Outside
<1>2. CASE pc = "entry"
  <2>1. PICK e \in 1..(Len(imports) + 1) : AtEntry(e)
    BY <1>2 DEF ImportWalking
  <2>2. /\ import_directory_entry = m_address + Directory + ENTRY * (e - 1)
        /\ Directory < Len(words) /\ Len(imports) \in Nat
    BY <2>1, LenProperties DEF AtEntry, ImportsLaidOut
  <2>3. CASE e \in 1..Len(imports)
    <3>1. Readable(import_directory_entry, 1) /\ Readable(import_directory_entry, ENTRY)
      BY <2>2, <2>3, EntryReads
    <3> QED BY <1>2, <3>1 DEF Outside
  <2>4. CASE e = Len(imports) + 1
    <3>1. e - 1 = Len(imports)
      BY <2>2, <2>4
    <3>2. Readable(import_directory_entry, 1) /\ Doubleword(import_directory_entry) = 0
      BY <2>2, <3>1, EndReads
    <3> QED BY <1>2, <3>2 DEF Outside
  <2> QED BY <2>2, <2>3, <2>4
<1>3. CASE pc = "ilt"
  <2>1. PICK e \in 1..Len(imports), j \in Nat : InIlt(e, j)
    BY <1>3 DEF ImportWalking
  <2>2. \/ RunsOut(ilt_addr, ilt_size)
        \/ GoesOn(ilt_addr, ilt_size) /\ ReadsEndless(ilt_addr + ilt_size)
    BY <1>3 DEF Outside
  <2>3. tail = "cut" \/ NameUnended
    <3>1. CASE RunsOut(ilt_addr, ilt_size)
      BY <2>1, <3>1, IltCounts
    <3>2. CASE GoesOn(ilt_addr, ilt_size) /\ ReadsEndless(ilt_addr + ilt_size)
      <4>1. /\ imports[e].ilt = "table" /\ imports[e].count > 0
            /\ imports[e].symbol < ORDINAL_FLAG /\ Endless(imports[e].symbol)
        BY <2>1, <3>2, IltCounts
      <4>2. e \in 1..Listed
        BY <2>1, ComesToListed DEF InIlt
      <4> QED BY <4>1, <4>2 DEF NameUnended
    <3> QED BY <2>2, <3>1, <3>2
  <2> QED BY <1>1, <2>3, ImportImageStays DEF ImportWalking
<1>4. CASE pc = "iat"
  <2>1. PICK e \in 1..Len(imports), j \in Nat : InIat(e, j)
    BY <1>4 DEF ImportWalking
  <2>2. tail = "cut"
    BY <1>4, <2>1, IatCounts DEF Outside
  <2> QED BY <1>1, <2>2 DEF ImportWalking, import_image
<1> QED BY <1>2, <1>3, <1>4 DEF Outside

\* A step of something else.
LEMMA ImportWalkRests ==
  ASSUME ImportsLaidOut, ImportWalking, UNCHANGED import_vars
  PROVE  ImportWalking'
<1>1. /\ UNCHANGED import_image /\ pc' = pc /\ grey_areas' = grey_areas
      /\ import_directory_entry' = import_directory_entry /\ ilt_addr' = ilt_addr
      /\ iat_addr' = iat_addr /\ ilt_size' = ilt_size /\ iat_size' = iat_size
  BY DEF import_vars, import_locals
<1>2. /\ imports' = imports /\ thunk' = thunk /\ tail' = tail
      /\ NameUnended' = NameUnended
  BY <1>1, ImportImageStays
<1>3. CASE pc = "dirs"
  BY <1>1, <1>3 DEF ImportWalking
<1>4. CASE pc = "entry"
  <2>1. PICK e \in 1..(Len(imports) + 1) : AtEntry(e)
    BY <1>4 DEF ImportWalking
  <2>2. AtEntry(e)'
    BY <1>1, <2>1, EntryStays
  <2> QED BY <1>1, <1>2, <1>4, <2>2 DEF ImportWalking
<1>5. CASE pc = "ilt"
  <2>1. PICK e \in 1..Len(imports), j \in Nat : InIlt(e, j)
    BY <1>5 DEF ImportWalking
  <2>2. AtTables(e)' /\ IltCount(e)' = IltCount(e)
    BY <1>1, <2>1, TablesStay, ImportImageStays DEF InIlt
  <2>3. InIlt(e, j)'
    BY <1>1, <1>2, <2>1, <2>2 DEF InIlt
  <2> QED BY <1>1, <1>2, <1>5, <2>3 DEF ImportWalking
<1>6. CASE pc = "iat"
  <2>1. PICK e \in 1..Len(imports), j \in Nat : InIat(e, j)
    BY <1>6 DEF ImportWalking
  <2>2. AtTables(e)' /\ IltCount(e)' = IltCount(e)
    BY <1>1, <2>1, TablesStay, ImportImageStays DEF InIat
  <2>3. InIat(e, j)'
    BY <1>1, <1>2, <2>1, <2>2 DEF InIat
  <2> QED BY <1>1, <1>2, <1>6, <2>3 DEF ImportWalking
<1>7. CASE pc = "done"
  <2>1. PICK n : n = Listed
    OBVIOUS
  <2>2. Listed' = n /\ AreasUpTo(n)' = AreasUpTo(n)
    BY <1>1, <2>1, ImportImageStays
  <2>3. AreasUpTo(Listed)' = AreasUpTo(Listed)
    BY <2>1, <2>2 DEF AreasUpTo
  <2> QED BY <1>1, <1>2, <1>7, <2>3 DEF ImportWalking
<1>8. CASE pc = "outside"
  BY <1>1, <1>2, <1>8 DEF ImportWalking
<1> QED BY <1>3, <1>4, <1>5, <1>6, <1>7, <1>8 DEF ImportWalking

\* ImportInv, the inductive invariant: at entry e of the directory the grey areas are
\* the data directories and the tables of the imports before, and in a table as much
\* has been counted as it has (ImageInfo.cpp:325-463).
THEOREM ImportInvariance == ImportSpec => []ImportInv
<1>1. ImportInit => ImportInv
  <2>1. ImportInit => pc = "dirs" /\ grey_areas = <<>>
    BY DEF ImportInit
  <2> QED BY <2>1, ImportLaysOut DEF ImportInv, ImportWalking
<1>2. ImportInv /\ [ImportNext]_import_vars => ImportInv'
  <2> SUFFICES ASSUME ImportInv, [ImportNext]_import_vars PROVE ImportInv'
    OBVIOUS
  <2>1. UNCHANGED import_image
    BY DEF ImportNext, AnalyzeDataDirectory, Returned, Directories, LastEntry, Entry,
           IltItem, IltEnd, IatItem, IatEnd, Outside, import_vars
  <2>2. dirs' = dirs
    BY <2>1, ImportImageStays
  <2>3. CASE dirs[2] = <<0, 0>>
    BY <2>2, <2>3 DEF ImportInv
  <2>4. CASE dirs[2] # <<0, 0>>
    <3>1. ImportsLaidOut /\ ImportWalking
      BY <2>4 DEF ImportInv
    <3>2. ImportsLaidOut'
      BY <2>1, <3>1, ImportImageStays
    <3>3. ImportWalking'
      BY <3>1, DirectoriesKeeps, LastEntryKeeps, EntryKeeps, IltItemKeeps, IltEndKeeps,
         IatItemKeeps, IatEndKeeps, OutsideKeeps, ImportWalkRests
         DEF ImportNext, AnalyzeDataDirectory, Returned
    <3> QED BY <3>2, <3>3 DEF ImportInv
  <2> QED BY <2>3, <2>4
<1> QED BY <1>1, <1>2, PTL DEF ImportSpec

\* With an import directory the walk that ends has found all directories and the
\* tables of all imports in front of the first without an ILT, in order, entry for
\* entry (ImageInfo.cpp:225, 325-463).
THEOREM GreyAreasExactCorrect == ImportSpec => []GreyAreasExact
<1>1. ImportInv => GreyAreasExact
  BY DEF ImportInv, ImportWalking, GreyAreasExact, AreasUpTo
<1> QED BY <1>1, ImportInvariance, PTL

\* The walk leaves the image only for want of a table's last zero, behind a symbol's
\* name that is not ended in it, or where there is no import directory
\* (ImageInfo.cpp:317-325, 345-410).
THEOREM OutsideOnlyBrokenCorrect == ImportSpec => []OutsideOnlyBroken
<1>1. ImportInv => OutsideOnlyBroken
  BY DEF ImportInv, ImportWalking, OutsideOnlyBroken
<1> QED BY <1>1, ImportInvariance, PTL
-----------------------------------------------------------------------------
(***************************************************************************)
(* That the walk over the imports ends, but for the fairness it takes:     *)
(* whatever it takes for a directory, it goes on to the end of the image   *)
(* at most, and so it does in each table.                                  *)
(***************************************************************************)

\* The steps that one entry takes at most, and what is left.
Turn == 2 * Len(words) + 4

ImportLeft ==
  LET behind == (m_address + Len(words) - import_directory_entry) * Turn
  IN CASE pc = "dirs"  -> Len(words) * Turn + Turn
       [] pc = "entry" -> behind + Turn - 1
       [] pc = "ilt"   -> behind + (Len(words) - ilt_size) + Len(words) + 2
       [] pc = "iat"   -> behind + (Len(words) - iat_size) + 1
       [] OTHER        -> 0

LessOfImports == ImportLeft \in Nat /\ ImportLeft' < ImportLeft

\* The inductive invariant: what is read are numbers, at places in the image.
ImportBounds ==
  /\ words \in Seq(Nat) /\ thunk \in {0, 1, 2} /\ dirs[2][1] \in Nat
  /\ pc \in {"dirs", "entry", "ilt", "iat", "done", "outside"}
  /\ pc \in {"entry", "ilt", "iat"} =>
       thunk # 0 /\ import_directory_entry \in m_address..(m_address + Len(words))
  /\ pc \in {"ilt", "iat"} =>
       /\ import_directory_entry + ENTRY <= m_address + Len(words)
       /\ ilt_addr \in Nat /\ ilt_size \in 0..Len(words)
       /\ iat_addr \in Nat /\ iat_size \in 0..Len(words)
  /\ pc = "ilt" => iat_size = 0

\* The image consists of numbers, with and without an import directory.
LEMMA LayoutNumbers ==
  ASSUME imports \in Seq(Libraries), thunk \in {0, 1, 2}, NEW header \in Seq(Nat)
  PROVE  Layout(header) \in Seq(Nat)
<1>1. Len(imports) \in Nat /\ Table \in Nat /\ Len(header) \in Nat
  BY LenProperties, TableSize
<1>2. PICK base \in Nat : base = Len(header) + ENTRY * (Len(imports) + 1)
  BY <1>1 DEF ENTRY
<1>3. ASSUME NEW k \in 1..Len(imports)
      PROVE  IltRva(header, k) \in Nat /\ IatRva(header, k) \in Nat
  <2>1. PICK a \in Nat, b \in Nat, c \in Nat :
          a = 2 * Len(imports) /\ b = 2 * (k - 1) /\ c = 2 * k - 1
    BY <1>1
  <2>2. a * Table \in Nat /\ b * Table \in Nat /\ c * Table \in Nat
    BY <1>1
  <2>3. Len(Code) = 3
    BY DEF Code
  <2>4. IltRva(header, k) \in {0, base + a * Table + 3, base + b * Table}
    BY <1>2, <2>1, <2>3 DEF IltRva
  <2>5. IatRva(header, k) = base + c * Table
    BY <1>2, <2>1 DEF IatRva
  <2>6. PICK x \in Nat, y \in Nat, z \in Nat : x = a * Table /\ y = b * Table /\ z = c * Table
    BY ONLY <2>2
  <2>7. base + x + 3 \in Nat /\ base + y \in Nat /\ base + z \in Nat /\ 0 \in Nat
    OBVIOUS
  <2> QED BY ONLY <2>4, <2>5, <2>6, <2>7
<1>4. PICK es : es = [k \in 1..Len(imports) |-> <<IltRva(header, k), IatRva(header, k)>>]
  OBVIOUS
<1>5. PICK ts : ts = [k \in 1..Len(imports) |->
                        ImportTable(imports[k]) \o ImportTable(imports[k])]
  OBVIOUS
<1>6. es \in [1..Len(imports) -> Seq(Nat)]
  <2>1. \A x, y \in Nat : <<x, y>> \in Seq(Nat)
    OBVIOUS
  <2> QED BY <1>3, <1>4, <2>1
<1>7. ts \in [1..Len(imports) -> Seq(Nat)]
  <2>1. ASSUME NEW k \in 1..Len(imports)
        PROVE  ImportTable(imports[k]) \in Seq(Nat)
    <3>1. imports[k] \in Libraries
      BY ElementOfSeq
    <3> QED BY <3>1, ImportTableIs
  <2>2. ASSUME NEW s \in Seq(Nat), NEW t \in Seq(Nat) PROVE s \o t \in Seq(Nat)
    BY TwoParts
  <2> QED BY <1>5, <2>1, <2>2
<1>8. FlattenSeq(es) \in Seq(Nat)
  BY <1>1, <1>6, FlattenParts
<1>9. FlattenSeq(ts) \in Seq(Nat)
  BY <1>1, <1>7, FlattenParts
<1>10. Layout(header) = header \o FlattenSeq(es) \o <<0, 0>> \o FlattenSeq(ts)
  BY <1>4, <1>5 DEF Layout
<1>11. PICK b, c, d : b = FlattenSeq(es) /\ c = <<0, 0>> /\ d = FlattenSeq(ts)
  OBVIOUS
<1>12. b \in Seq(Nat) /\ c \in Seq(Nat) /\ d \in Seq(Nat)
  BY <1>8, <1>9, <1>11
<1>13. header \o b \in Seq(Nat) /\ (header \o b) \o c \in Seq(Nat)
       /\ ((header \o b) \o c) \o d \in Seq(Nat)
  BY <1>12, TwoParts
<1> QED BY <1>10, <1>11, <1>13

LEMMA ImportBegins == ImportInit => ImportBounds
<1> SUFFICES ASSUME ImportInit PROVE ImportBounds
  OBVIOUS
<1>1. thunk \in {0, 1, 2} /\ tail \in {"code", "packed", "none", "cut"} /\ imports \in Seq(Libraries)
  <2>1. PICK n \in 0..MaxImports : imports \in [1..n -> Libraries]
    BY DEF ImportInit
  <2>2. n \in Nat
    BY ImportWalkAssumption
  <2>3. imports \in Seq(Libraries)
    BY <2>1, <2>2
  <2> QED BY <2>3 DEF ImportInit
<1>2. PICK header \in Headers, listed \in BOOLEAN :
        LET layout == Layout(header)
        IN /\ words = CASE tail = "code" -> layout \o Code
                        [] tail = "packed" -> layout \o PackedCode
                        [] tail = "none" -> layout
                        [] tail = "cut"  -> SubSeq(layout, 1, Len(layout) - thunk)
           /\ dirs = << <<0, 0>>,
                        IF listed THEN <<Len(header), ENTRY * (Len(imports) + 1)>>
                                  ELSE <<0, 0>>,
                        <<1, 1>> >>
  BY DEF ImportInit
<1>3. header \in Seq(Nat) /\ Len(header) \in Nat
  BY ImportWalkAssumption, LenProperties
<1>4. dirs[2][1] \in Nat
  <2>1. dirs[2] = <<Len(header), ENTRY * (Len(imports) + 1)>> \/ dirs[2] = <<0, 0>>
    BY <1>2
  <2> QED BY <1>3, <2>1
<1>5. PICK all : all = Layout(header) /\ all \in Seq(Nat)
  BY <1>1, <1>3, LayoutNumbers
<1>6. words = CASE tail = "code" -> all \o Code
                [] tail = "packed" -> all \o PackedCode
                [] tail = "none" -> all
                [] tail = "cut"  -> SubSeq(all, 1, Len(all) - thunk)
  BY <1>2, <1>5
<1>7. words \in Seq(Nat)
  <2>1. CASE tail \in {"code", "packed"}
    <3>1. PICK behind \in Seq(Nat) : words = all \o behind
      <4>1. Code \in Seq(Nat) /\ PackedCode \in Seq(Nat)
        BY DEF Code, PackedCode
      <4>2. words = all \o Code \/ words = all \o PackedCode
        BY <1>6, <2>1
      <4> QED BY <4>1, <4>2
    <3>2. all \o behind \in Seq(Nat)
      BY <1>5, TwoParts
    <3> QED BY <3>1, <3>2
  <2>2. CASE tail = "none"
    BY <1>5, <1>6, <2>2
  <2>3. CASE tail = "cut"
    <3>1. PICK last \in Int : last = Len(all) - thunk /\ last <= Len(all)
      <4>1. Len(all) \in Nat
        BY ONLY <1>5, LenProperties
      <4>2. Len(all) - thunk \in Int /\ Len(all) - thunk <= Len(all)
        BY ONLY <1>1, <4>1
      <4> QED BY ONLY <4>2
    <3>2. \A x \in 1..last : all[x] \in Nat
      <4>1. ASSUME NEW x \in 1..last PROVE x \in 1..Len(all)
        <5>1. Len(all) \in Nat
          BY ONLY <1>5, LenProperties
        <5> QED BY ONLY <3>1, <5>1, x \in 1..last
      <4> QED BY <1>5, <4>1, ElementOfSeq
    <3>3. SubSeq(all, 1, last) \in Seq(Nat)
      BY <3>2, SubSeqProperties
    <3> QED BY <1>6, <2>3, <3>1, <3>3
  <2> QED BY <1>1, <2>1, <2>2, <2>3
<1> QED BY <1>1, <1>4, <1>7 DEF ImportBounds, ImportInit

\* The numbers that the measure is made of.
LEMMA Sizes ==
  ASSUME ImportBounds
  PROVE  /\ m_address \in Nat /\ Len(words) \in Nat /\ Turn \in Nat
         /\ Turn = 2 * Len(words) + 4 /\ ENTRY = 2
         /\ pc \in {"entry", "ilt", "iat"} =>
              import_directory_entry \in Nat /\ thunk \in {1, 2}
<1>1. m_address \in Nat /\ Len(words) \in Nat
  BY LenProperties, LoadedImageAssumption DEF ImportBounds
<1>2. Turn \in Nat /\ Turn = 2 * Len(words) + 4
  BY <1>1 DEF Turn
<1>3. pc \in {"entry", "ilt", "iat"} => import_directory_entry \in Nat /\ thunk \in {1, 2}
  BY <1>1 DEF ImportBounds
<1> QED BY <1>1, <1>2, <1>3 DEF ENTRY

\* What can be read lies in the image.
LEMMA ReadableInImage ==
  ASSUME ImportBounds, NEW addr \in Nat, NEW n \in Nat \ {0}, Readable(addr, n)
  PROVE  m_address <= addr /\ addr + n <= m_address + Len(words)
<1>1. m_address \in Nat /\ Len(words) \in Nat
  BY Sizes
<1>2. addr \in addr..(addr + n - 1) /\ addr + n - 1 \in addr..(addr + n - 1)
  OBVIOUS
<1>3. InImage(addr) /\ InImage(addr + n - 1)
  BY <1>2 DEF Readable
<1>4. m_address <= addr /\ addr + n - 1 < m_address + Len(words)
  BY <1>3 DEF InImage, IsAddrMapped_Imp
<1> QED BY <1>1, <1>4

LEMMA DoublewordIsNumber ==
  ASSUME ImportBounds, NEW addr \in Nat, m_address <= addr, addr < m_address + Len(words)
  PROVE  Doubleword(addr) \in Nat
<1>1. m_address \in Nat /\ Len(words) \in Nat
  BY Sizes
<1>2. PICK x : x = addr - m_address + 1
  OBVIOUS
<1>3. x \in 1..Len(words)
  BY <1>1, <1>2
<1>4. words[x] \in Nat
  BY <1>3, ElementOfSeq DEF ImportBounds
<1> QED BY <1>2, <1>4 DEF Doubleword

\* A table that goes on is not longer than the image.
LEMMA TableGoesOn ==
  ASSUME ImportBounds, thunk # 0, NEW addr \in Nat, NEW size \in Nat, GoesOn(addr, size)
  PROVE  size + thunk <= Len(words)
<1>1. m_address \in Nat /\ Len(words) \in Nat /\ thunk \in Nat \ {0}
  BY Sizes DEF ImportBounds
<1>2. m_address <= addr
  BY DEF GoesOn, InImage, IsAddrMapped_Imp
<1>3. addr + size + thunk <= m_address + Len(words)
  <2>1. addr + size \in Nat /\ Readable(addr + size, thunk)
    BY DEF GoesOn
  <2> QED BY <1>1, <2>1, ReadableInImage
<1> QED BY <1>1, <1>2, <1>3

\* What is left of the directory's entries.
LEMMA BehindIs ==
  ASSUME ImportBounds, pc \in {"entry", "ilt", "iat"},
         NEW behind, behind = (m_address + Len(words) - import_directory_entry) * Turn
  PROVE  /\ behind \in Nat /\ behind <= Len(words) * Turn /\ Len(words) * Turn \in Nat
         /\ import_directory_entry + ENTRY <= m_address + Len(words) =>
              LET next == import_directory_entry + ENTRY
              IN (m_address + Len(words) - next) * Turn = behind - 2 * Turn
<1>1. /\ m_address \in Nat /\ Len(words) \in Nat /\ Turn \in Nat /\ ENTRY = 2
      /\ import_directory_entry \in Nat
  BY Sizes
<1>2. PICK d \in Nat : d = m_address + Len(words) - import_directory_entry /\ d <= Len(words)
  <2>1. import_directory_entry \in m_address..(m_address + Len(words))
    BY DEF ImportBounds
  <2>2. /\ m_address + Len(words) - import_directory_entry \in Nat
        /\ m_address + Len(words) - import_directory_entry <= Len(words)
    BY ONLY <1>1, <2>1
  <2> QED BY ONLY <2>2
<1>3. PICK e \in Nat : Len(words) = d + e
  <2>1. Len(words) - d \in Nat
    BY <1>1, <1>2
  <2> QED BY <1>1, <2>1
<1>4. behind = d * Turn /\ d * Turn \in Nat /\ e * Turn \in Nat
  BY <1>1, <1>2
<1>5. Len(words) * Turn = d * Turn + e * Turn
  BY <1>1, <1>3
<1>6. ASSUME import_directory_entry + ENTRY <= m_address + Len(words)
      PROVE  (m_address + Len(words) - (import_directory_entry + ENTRY)) * Turn
               = behind - 2 * Turn
  <2>1. PICK f \in Nat : d = f + 2
    <3>1. d - 2 \in Nat
      BY <1>1, <1>2, <1>6
    <3> QED BY <3>1
  <2>2. m_address + Len(words) - (import_directory_entry + ENTRY) = f
    BY <1>1, <1>2, <2>1
  <2>3. d * Turn = f * Turn + 2 * Turn /\ f * Turn \in Nat
    BY <1>1, <2>1
  <2> QED BY <1>1, <1>4, <2>2, <2>3
<1> QED BY <1>4, <1>5, <1>6

\* The measure is a number, and not 0 before the end.
LEMMA ImportLeftIsNumber ==
  ASSUME ImportBounds
  PROVE  /\ ImportLeft \in Nat
         /\ pc \notin {"done", "outside"} => ImportLeft > 0
<1>1. Len(words) \in Nat /\ Turn \in Nat /\ Turn = 2 * Len(words) + 4
  BY Sizes
<1>2. CASE pc = "dirs"
  <2>1. ImportLeft = Len(words) * Turn + Turn /\ Len(words) * Turn \in Nat
    BY <1>1, <1>2 DEF ImportLeft
  <2> QED BY <1>1, <2>1
<1>3. CASE pc \in {"entry", "ilt", "iat"}
  <2>1. PICK behind : behind = (m_address + Len(words) - import_directory_entry) * Turn
    OBVIOUS
  <2>2. behind \in Nat
    BY <1>3, <2>1, BehindIs
  <2>3. CASE pc = "entry"
    <3>1. ImportLeft = behind + Turn - 1
      BY <2>1, <2>3 DEF ImportLeft
    <3> QED BY <1>1, <2>2, <3>1
  <2>4. CASE pc = "ilt"
    <3>1. ImportLeft = behind + (Len(words) - ilt_size) + Len(words) + 2
      BY <2>1, <2>4 DEF ImportLeft
    <3>2. ilt_size \in 0..Len(words)
      BY <2>4 DEF ImportBounds
    <3> QED BY <1>1, <2>2, <3>1, <3>2
  <2>5. CASE pc = "iat"
    <3>1. ImportLeft = behind + (Len(words) - iat_size) + 1
      BY <2>1, <2>5 DEF ImportLeft
    <3>2. iat_size \in 0..Len(words)
      BY <2>5 DEF ImportBounds
    <3> QED BY <1>1, <2>2, <3>1, <3>2
  <2> QED BY <1>3, <2>3, <2>4, <2>5
<1>4. CASE pc \in {"done", "outside"}
  BY <1>4 DEF ImportLeft
<1> QED BY <1>2, <1>3, <1>4 DEF ImportBounds

\* Each step keeps the bounds and leaves less.
LEMMA StopShrinks ==
  ASSUME ImportBounds, Outside \/ LastEntry PROVE ImportBounds' /\ LessOfImports
<1>1. pc = "entry" \/ pc = "ilt" \/ pc = "iat"
  BY DEF Outside, LastEntry
<1>2. pc' \in {"done", "outside"} /\ UNCHANGED <<words, thunk, dirs>>
  BY DEF Outside, LastEntry, import_image
<1>3. ImportBounds'
  BY <1>2 DEF ImportBounds
<1>4. ImportLeft' = 0
  BY <1>2 DEF ImportLeft
<1> QED BY <1>1, <1>3, <1>4, ImportLeftIsNumber DEF LessOfImports

LEMMA DirectoriesShrinks ==
  ASSUME ImportBounds, Directories PROVE ImportBounds' /\ LessOfImports
<1>1. /\ pc = "dirs" /\ UNCHANGED <<words, thunk, dirs>>
      /\ import_directory_entry' = m_address + dirs[2][1]
      /\ pc' \in {"entry", "done"}
      /\ pc' = "entry" => thunk # 0 /\ InImage(import_directory_entry')
  BY DEF Directories, import_image, IMAGE_DIRECTORY_ENTRY_IMPORT, InImage
<1>2. Len(words) \in Nat /\ Turn \in Nat /\ Turn = 2 * Len(words) + 4 /\ m_address \in Nat
  BY Sizes
<1>3. Turn' = Turn
  BY <1>1 DEF Turn
<1>4. ImportLeft = Len(words) * Turn + Turn /\ Len(words) * Turn \in Nat
  BY <1>1, <1>2 DEF ImportLeft
<1>5. CASE pc' = "done"
  <2>1. ImportBounds'
    BY <1>1, <1>5 DEF ImportBounds
  <2>2. ImportLeft' = 0
    BY <1>5 DEF ImportLeft
  <2> QED BY <1>1, <2>1, <2>2, ImportLeftIsNumber DEF LessOfImports
<1>6. CASE pc' = "entry"
  <2>1. import_directory_entry' \in m_address..(m_address + Len(words))
    <3>1. dirs[2][1] \in Nat
      BY DEF ImportBounds
    <3>2. import_directory_entry' < m_address + Len(words)
      BY <1>1, <1>6 DEF InImage, IsAddrMapped_Imp
    <3> QED BY <1>1, <1>2, <3>1, <3>2
  <2>2. ImportBounds'
    BY <1>1, <1>6, <2>1 DEF ImportBounds
  <2>3. PICK behind : behind = (m_address + Len(words) - import_directory_entry') * Turn
    OBVIOUS
  <2>4. behind \in Nat /\ behind <= Len(words) * Turn
    <3>1. PICK d \in Nat, e \in Nat :
            d = m_address + Len(words) - import_directory_entry' /\ Len(words) = d + e
      <4>1. /\ m_address + Len(words) - import_directory_entry' \in Nat
            /\ Len(words) - (m_address + Len(words) - import_directory_entry') \in Nat
        BY ONLY <1>2, <2>1
      <4>2. /\ Len(words) = (m_address + Len(words) - import_directory_entry')
                   + (Len(words) - (m_address + Len(words) - import_directory_entry'))
        BY ONLY <1>2, <2>1
      <4> QED BY ONLY <4>1, <4>2
    <3>2. d * Turn \in Nat /\ e * Turn \in Nat
      BY <1>2
    <3>3. Len(words) * Turn = d * Turn + e * Turn
      BY <1>2, <3>1
    <3> QED BY <2>3, <3>1, <3>2, <3>3
  <2>5. ImportLeft' = behind + Turn - 1
    BY <1>1, <1>3, <1>6, <2>3 DEF ImportLeft
  <2>6. ImportLeft' < ImportLeft
    BY ONLY <1>2, <1>4, <2>4, <2>5
  <2> QED BY <2>2, <2>6, ImportLeftIsNumber DEF LessOfImports
<1> QED BY <1>1, <1>5, <1>6

LEMMA EntryShrinks ==
  ASSUME ImportBounds, Entry PROVE ImportBounds' /\ LessOfImports
<1>1. /\ pc = "entry" /\ pc' = "ilt" /\ UNCHANGED <<words, thunk, dirs, import_directory_entry>>
      /\ Readable(import_directory_entry, ENTRY) /\ ilt_size' = 0 /\ iat_size' = 0
      /\ ilt_addr' = m_address + Doubleword(import_directory_entry)
      /\ iat_addr' = m_address + Doubleword(import_directory_entry + 1)
  BY DEF Entry, import_image
<1>2. /\ Len(words) \in Nat /\ Turn \in Nat /\ Turn = 2 * Len(words) + 4 /\ m_address \in Nat
      /\ ENTRY = 2 /\ import_directory_entry \in Nat
  BY <1>1, Sizes
<1>3. /\ m_address <= import_directory_entry
      /\ import_directory_entry + ENTRY <= m_address + Len(words)
  BY <1>1, <1>2, ReadableInImage
<1>4. /\ Doubleword(import_directory_entry) \in Nat
      /\ Doubleword(import_directory_entry + 1) \in Nat
  BY <1>2, <1>3, DoublewordIsNumber
<1>5. ImportBounds'
  <2>1. /\ ilt_addr' \in Nat /\ iat_addr' \in Nat
        /\ ilt_size' \in 0..Len(words) /\ iat_size' \in 0..Len(words)
    BY ONLY <1>1, <1>2, <1>4
  <2>2. thunk # 0 /\ import_directory_entry \in m_address..(m_address + Len(words))
    BY <1>1 DEF ImportBounds
  <2> QED BY <1>1, <1>3, <2>1, <2>2 DEF ImportBounds
<1>6. PICK behind : behind = (m_address + Len(words) - import_directory_entry) * Turn
  OBVIOUS
<1>7. behind \in Nat
  BY <1>1, <1>6, BehindIs
<1>8. ImportLeft = behind + Turn - 1
  BY <1>1, <1>6 DEF ImportLeft
<1>9. ImportLeft' = behind + (Len(words) - 0) + Len(words) + 2
  BY <1>1, <1>6 DEF ImportLeft, Turn
<1>10. ImportLeft' < ImportLeft
  BY ONLY <1>2, <1>7, <1>8, <1>9
<1> QED BY <1>5, <1>10, ImportLeftIsNumber DEF LessOfImports

LEMMA IltShrinks ==
  ASSUME ImportBounds, IltItem \/ IltEnd PROVE ImportBounds' /\ LessOfImports
<1>1. /\ pc = "ilt"
      /\ UNCHANGED <<words, thunk, dirs, import_directory_entry, ilt_addr, iat_addr, iat_size>>
  BY DEF IltItem, IltEnd, import_image, import_locals
<1>2. Len(words) \in Nat /\ Turn \in Nat /\ thunk \in {1, 2} /\ Turn' = Turn
  BY <1>1, Sizes DEF Turn
<1>3. /\ ilt_addr \in Nat /\ ilt_size \in 0..Len(words) /\ iat_size = 0
  BY <1>1 DEF ImportBounds
<1>4. PICK behind : behind = (m_address + Len(words) - import_directory_entry) * Turn
  OBVIOUS
<1>5. behind \in Nat
  BY <1>1, <1>4, BehindIs
<1>6. ImportLeft = behind + (Len(words) - ilt_size) + Len(words) + 2
  BY <1>1, <1>4 DEF ImportLeft
<1>7. CASE IltItem
  <2>1. pc' = "ilt" /\ ilt_size' = ilt_size + thunk /\ GoesOn(ilt_addr, ilt_size)
    BY <1>1, <1>7 DEF IltItem
  <2>2. ilt_size + thunk <= Len(words)
    BY <1>2, <1>3, <2>1, TableGoesOn
  <2>3. ilt_size' \in 0..Len(words) /\ ilt_size' > ilt_size
    BY ONLY <1>2, <1>3, <2>1, <2>2
  <2>4. ImportBounds'
    BY <1>1, <2>1, <2>3 DEF ImportBounds
  <2>5. ImportLeft' = behind + (Len(words) - ilt_size') + Len(words) + 2
    BY <1>1, <1>2, <1>4, <2>1 DEF ImportLeft
  <2>6. ImportLeft' < ImportLeft
    BY ONLY <1>2, <1>3, <1>5, <1>6, <2>3, <2>5
  <2> QED BY <2>4, <2>6, ImportLeftIsNumber DEF LessOfImports
<1>8. CASE IltEnd
  <2>1. pc' = "iat" /\ ilt_size' = ilt_size
    BY <1>8 DEF IltEnd, import_locals
  <2>2. ImportBounds'
    BY <1>1, <2>1 DEF ImportBounds
  <2>3. ImportLeft' = behind + (Len(words) - 0) + 1
    BY <1>1, <1>2, <1>3, <1>4, <2>1 DEF ImportLeft
  <2>4. ImportLeft' < ImportLeft
    BY ONLY <1>2, <1>3, <1>5, <1>6, <2>3
  <2> QED BY <2>2, <2>4, ImportLeftIsNumber DEF LessOfImports
<1> QED BY <1>7, <1>8

LEMMA IatShrinks ==
  ASSUME ImportBounds, IatItem \/ IatEnd PROVE ImportBounds' /\ LessOfImports
<1>1. pc = "iat" /\ UNCHANGED <<words, thunk, dirs, ilt_addr, ilt_size, iat_addr>>
  BY DEF IatItem, IatEnd, import_image
<1>2. /\ Len(words) \in Nat /\ Turn \in Nat /\ thunk \in {1, 2} /\ Turn' = Turn
      /\ Turn = 2 * Len(words) + 4 /\ m_address \in Nat /\ ENTRY = 2
      /\ import_directory_entry \in Nat
  BY <1>1, Sizes DEF Turn
<1>3. /\ iat_addr \in Nat /\ iat_size \in 0..Len(words)
      /\ import_directory_entry + ENTRY <= m_address + Len(words)
  BY <1>1 DEF ImportBounds
<1>4. PICK behind : behind = (m_address + Len(words) - import_directory_entry) * Turn
  OBVIOUS
<1>5. behind \in Nat
  BY <1>1, <1>4, BehindIs
<1>6. ImportLeft = behind + (Len(words) - iat_size) + 1
  BY <1>1, <1>4 DEF ImportLeft
<1>7. CASE IatItem
  <2>1. /\ pc' = "iat" /\ iat_size' = iat_size + thunk /\ GoesOn(iat_addr, iat_size)
        /\ import_directory_entry' = import_directory_entry
    BY <1>1, <1>7 DEF IatItem
  <2>2. iat_size + thunk <= Len(words)
    BY <1>2, <1>3, <2>1, TableGoesOn
  <2>3. iat_size' \in 0..Len(words) /\ iat_size' > iat_size
    BY ONLY <1>2, <1>3, <2>1, <2>2
  <2>4. ImportBounds'
    BY <1>1, <2>1, <2>3 DEF ImportBounds
  <2>5. ImportLeft' = behind + (Len(words) - iat_size') + 1
    BY <1>1, <1>2, <1>4, <2>1 DEF ImportLeft
  <2>6. ImportLeft' < ImportLeft
    BY ONLY <1>2, <1>3, <1>5, <1>6, <2>3, <2>5
  <2> QED BY <2>4, <2>6, ImportLeftIsNumber DEF LessOfImports
<1>8. CASE IatEnd
  <2>1. pc' = "entry" /\ import_directory_entry' = import_directory_entry + ENTRY
    BY <1>8 DEF IatEnd
  <2>2. import_directory_entry' \in m_address..(m_address + Len(words))
    <3>1. import_directory_entry \in m_address..(m_address + Len(words))
      BY <1>1 DEF ImportBounds
    <3> QED BY ONLY <1>2, <1>3, <2>1, <3>1
  <2>3. ImportBounds'
    BY <1>1, <2>1, <2>2 DEF ImportBounds
  <2>4. (m_address + Len(words) - (import_directory_entry + ENTRY)) * Turn = behind - 2 * Turn
    BY <1>1, <1>3, <1>4, BehindIs
  <2>5. ImportLeft' = (behind - 2 * Turn) + Turn - 1
    BY <1>1, <1>2, <2>1, <2>4 DEF ImportLeft
  <2>6. ImportLeft' < ImportLeft
    BY ONLY <1>2, <1>3, <1>5, <1>6, <2>5
  <2> QED BY <2>3, <2>6, ImportLeftIsNumber DEF LessOfImports
<1> QED BY <1>7, <1>8

LEMMA ImportStepShrinks ==
  ASSUME ImportBounds, [ImportNext]_import_vars
  PROVE  ImportBounds' /\ [LessOfImports]_import_vars
<1>1. CASE AnalyzeDataDirectory
  BY <1>1, StopShrinks, DirectoriesShrinks, EntryShrinks, IltShrinks, IatShrinks
     DEF AnalyzeDataDirectory
<1>2. CASE UNCHANGED import_vars
  <2>1. UNCHANGED <<words, thunk, dirs, pc, import_directory_entry, ilt_addr, ilt_size,
                    iat_addr, iat_size>>
    BY <1>2 DEF import_vars, import_image, import_locals
  <2>2. ImportBounds'
    BY <2>1 DEF ImportBounds
  <2> QED BY <1>2, <2>2
<1> QED BY <1>1, <1>2 DEF ImportNext, Returned

\* With every step less of the image is left to walk over, a number, so that the walk
\* ends, whatever it walks over, no directory included (ImageInfo.cpp:325-463).
THEOREM ImportWalkAdvances == ImportSpec => [][LessOfImports]_import_vars
<1>1. ImportInit => ImportBounds
  BY ImportBegins
<1>2. ImportBounds /\ [ImportNext]_import_vars =>
        ImportBounds' /\ [LessOfImports]_import_vars
  BY ImportStepShrinks
<1> QED BY <1>1, <1>2, PTL DEF ImportSpec
=============================================================================
