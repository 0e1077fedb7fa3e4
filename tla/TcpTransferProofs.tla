-------------------------- MODULE TcpTransferProofs --------------------------
(***************************************************************************)
(* Theorems about TcpTransfer, for every file and block length, any base   *)
(* and width of the headers, any window and any faults: type correctness,  *)
(* that a header read is the length written, and that the server is in     *)
(* step with the client and reports a whole file or none.                  *)
(***************************************************************************)
EXTENDS TcpTransfer, Integers, FiniteSetTheorems, TLAPS

USE SizesAssumption, HeaderAssumption, WindowAssumption DEF Filler

\* A set of numbers that has 0, and with a number the next, has all of them.
LEMMA NatSetInduction ==
  ASSUME NEW T, 0 \in T, \A n \in Nat : n \in T => n + 1 \in T
  PROVE  Nat \subseteq T
<1> DEFINE B == Nat \ T
<1>1. SUFFICES ASSUME B # {} PROVE FALSE
  OBVIOUS
<1>2. PICK m \in B : \A k \in B : <<k, m>> \notin OpToRel(<, Nat)
  <2>1. B \subseteq Nat
    OBVIOUS
  <2> HIDE DEF B
  <2>2. QED
    BY <1>1, <2>1, WFMin, NatLessThanWellFounded
<1>3. m - 1 \in Nat /\ m - 1 \in B
  OBVIOUS
<1>4. <<m - 1, m>> \in OpToRel(<, Nat)
  BY <1>3 DEF OpToRel
<1>5. QED
  BY <1>2, <1>3, <1>4

\* Quotient and remainder are the only ones.
LEMMA DivisionIs ==
  ASSUME NEW b \in Nat \ {0}, NEW q \in Nat, NEW r \in 0 .. b - 1
  PROVE  (b * q + r) \div b = q
<1> DEFINE n == b * q + r
           d == n \div b
           e == n % b
<1>1. n \in Nat /\ d \in Nat /\ e \in 0 .. b - 1 /\ n = b * d + e
  OBVIOUS
<1>2. ASSUME NEW x \in Nat, NEW y \in Nat, x < y PROVE b * x + b <= b * y
  <2>1. y - x - 1 \in Nat
    BY <1>2
  <2>2. b * (y - x - 1) >= 0
    BY <2>1
  <2>3. QED
    BY <2>2
<1> HIDE DEF d, e
<1>3. ~ d < q
  BY <1>1, <1>2
<1>4. ~ q < d
  BY <1>1, <1>2
<1>5. QED
  BY <1>1, <1>3, <1>4 DEF d

\* More divided by the same is no less.
LEMMA DivisionMonotone ==
  ASSUME NEW b \in Nat \ {0}, NEW m \in Nat, NEW n \in Nat, m <= n
  PROVE  m \div b <= n \div b
<1> DEFINE x == m \div b
           y == n \div b
<1>1. x \in Nat /\ y \in Nat /\ b * x <= m /\ n < b * y + b
  OBVIOUS
<1> HIDE DEF x, y
<1>2. ASSUME y < x PROVE FALSE
  <2>1. x - y - 1 \in Nat
    BY <1>1, <1>2
  <2>2. b * (x - y - 1) >= 0
    BY <2>1
  <2>3. QED
    BY <1>1, <2>2
<1>3. QED
  BY <1>1, <1>2 DEF x, y

-----------------------------------------------------------------------------
\* What is left of a length when its digits are taken one by one.
LEMMA LeftIs ==
  ASSUME NEW n \in Nat
  PROVE  /\ \A i \in 0..HeaderBytes : Left(n)[i] \in Nat
         /\ Left(n)[0] = n
         /\ \A i \in 1..HeaderBytes : Left(n)[i] = Left(n)[i - 1] \div Base
<1> DEFINE IsLeft(g, m) == g = [i \in 0..m |-> IF i = 0 THEN n ELSE g[i - 1] \div Base]
           T == {m \in Nat : \E g : IsLeft(g, m)}
<1>1. 0 \in T
  <2> DEFINE g == [i \in 0..0 |-> n]
  <2>1. IsLeft(g, 0)
    OBVIOUS
  <2>2. QED
    BY <2>1
<1>2. ASSUME NEW m \in Nat, m \in T PROVE m + 1 \in T
  <2>1. PICK g : IsLeft(g, m)
    BY <1>2
  <2> DEFINE h == [i \in 0..m + 1 |-> IF i = 0 THEN n ELSE g[i - 1] \div Base]
  <2>2. ASSUME NEW i \in 0..m PROVE h[i] = g[i]
    <3>1. g[i] = IF i = 0 THEN n ELSE g[i - 1] \div Base
      BY <2>1
    <3>2. h[i] = IF i = 0 THEN n ELSE g[i - 1] \div Base
      OBVIOUS
    <3>3. QED
      BY <3>1, <3>2
  <2>3. \A i \in 0..m + 1 : i # 0 => i - 1 \in 0..m
    OBVIOUS
  <2>4. \A i \in 0..m + 1 : i # 0 => g[i - 1] = h[i - 1]
    <3> HIDE DEF h
    <3>1. QED
      BY <2>2, <2>3
  <2>5. h = [i \in 0..m + 1 |-> IF i = 0 THEN n ELSE g[i - 1] \div Base]
    OBVIOUS
  <2> HIDE DEF h
  <2>6. IsLeft(h, m + 1)
    BY <2>4, <2>5
  <2> HIDE DEF IsLeft
  <2>7. QED
    BY <2>6
<1>3. HeaderBytes \in T
  <2> HIDE DEF T
  <2>1. QED
    BY <1>1, <1>2, NatSetInduction
<1>4. IsLeft(Left(n), HeaderBytes)
  BY <1>3 DEF Left
<1>5. ASSUME NEW i \in 0..HeaderBytes
      PROVE  Left(n)[i] = IF i = 0 THEN n ELSE Left(n)[i - 1] \div Base
  BY <1>4
<1> DEFINE N == {m \in Nat : m <= HeaderBytes => Left(n)[m] \in Nat}
<1>6. 0 \in N
  BY <1>5
<1>7. ASSUME NEW m \in Nat, m \in N PROVE m + 1 \in N
  <2>1. ASSUME m + 1 <= HeaderBytes PROVE Left(n)[m + 1] \in Nat
    <3>1. Left(n)[m] \in Nat /\ m + 1 \in 0..HeaderBytes /\ m + 1 # 0 /\ m + 1 - 1 = m
      BY <1>7, <2>1
    <3>2. Left(n)[m + 1] = Left(n)[m] \div Base
      BY <1>5, <3>1
    <3>3. QED
      BY <3>1, <3>2
  <2>2. QED
    BY <2>1
<1>8. Nat \subseteq N
  <2> HIDE DEF N
  <2>1. QED
    BY <1>6, <1>7, NatSetInduction
<1>9. QED
  BY <1>5, <1>8

\* A shorter length leaves no more, so that every chunk fits its header.
LEMMA Fits ==
  ASSUME NEW n \in 0..MaxBlock
  PROVE  Left(n)[HeaderBytes] = 0 /\ HeaderBytes > 0
<1> DEFINE T == {m \in Nat : m <= HeaderBytes => Left(n)[m] <= Left(MaxBlock)[m]}
<1>1. n \in Nat /\ MaxBlock \in Nat \ {0} /\ n <= MaxBlock /\ Base \in Nat \ {0}
  OBVIOUS
<1>2. 0 \in T
  BY <1>1, LeftIs
<1>3. ASSUME NEW m \in Nat, m \in T PROVE m + 1 \in T
  <2>1. ASSUME m + 1 <= HeaderBytes PROVE Left(n)[m + 1] <= Left(MaxBlock)[m + 1]
    <3>1. m \in 0..HeaderBytes /\ m + 1 \in 1..HeaderBytes /\ m + 1 - 1 = m
      BY <2>1
    <3>2. Left(n)[m] \in Nat /\ Left(MaxBlock)[m] \in Nat /\ Left(n)[m] <= Left(MaxBlock)[m]
      BY <1>1, <1>3, <3>1, LeftIs
    <3>3. /\ Left(n)[m + 1] = Left(n)[m] \div Base
          /\ Left(MaxBlock)[m + 1] = Left(MaxBlock)[m] \div Base
      <4>1. \A i \in 1..HeaderBytes : /\ Left(n)[i] = Left(n)[i - 1] \div Base
                                      /\ Left(MaxBlock)[i] = Left(MaxBlock)[i - 1] \div Base
        BY <1>1, LeftIs
      <4>2. QED
        BY <3>1, <4>1
    <3>4. QED
      BY <1>1, <3>2, <3>3, DivisionMonotone
  <2>2. QED
    BY <2>1
<1>4. HeaderBytes \in T
  <2> HIDE DEF T
  <2>1. QED
    BY <1>2, <1>3, NatSetInduction
<1>5. Left(n)[HeaderBytes] \in Nat
  BY <1>1, LeftIs
<1>6. HeaderBytes # 0
  BY <1>1, LeftIs
<1>7. QED
  BY <1>4, <1>5, <1>6

\* A header is read as the length it was written for.
THEOREM HeaderRoundTrip ==
  ASSUME NEW n \in 0..MaxBlock
  PROVE  /\ ToBytes(n) \in Seq(0..(Base - 1)) /\ Len(ToBytes(n)) = HeaderBytes
         /\ FromBytes(ToBytes(n)) = n
<1> DEFINE s == ToBytes(n)
<1>1. n \in Nat /\ Base \in Nat \ {0} /\ HeaderBytes \in Nat
  OBVIOUS
<1>2. ASSUME NEW i \in 1..HeaderBytes
      PROVE  /\ Left(n)[i - 1] \in Nat /\ s[i] = Left(n)[i - 1] % Base /\ s[i] \in 0..(Base - 1)
             /\ Left(n)[i - 1] = s[i] + Base * Left(n)[i]
  <2>1. i - 1 \in 0..HeaderBytes /\ Left(n)[i] = Left(n)[i - 1] \div Base
    BY <1>1, LeftIs
  <2>2. Left(n)[i - 1] \in Nat /\ s[i] = Left(n)[i - 1] % Base
    BY <1>1, <2>1, LeftIs DEF ToBytes
  <2> DEFINE l == Left(n)[i - 1]
             d == Left(n)[i]
             r == s[i]
  <2>3. l \in Nat /\ d = l \div Base /\ r = l % Base
    BY <2>1, <2>2
  <2> HIDE DEF l, d, r
  <2>4. r \in 0..(Base - 1) /\ l = Base * d + r /\ d \in Nat
    BY <1>1, <2>3
  <2>5. l = r + Base * d
    BY <1>1, <2>4
  <2>6. QED
    BY <2>2, <2>4, <2>5 DEF l, d, r
<1>3. s \in Seq(0..(Base - 1)) /\ Len(s) = HeaderBytes
  <2>1. s = [i \in 1..HeaderBytes |-> s[i]]
    BY DEF ToBytes
  <2> HIDE DEF s
  <2>2. QED
    BY SMTT(60), <1>1, <1>2, <2>1
<1> DEFINE H == HeaderBytes
           g == [i \in 1..(Len(s) + 1) |-> Left(n)[i - 1]]
           v == CHOOSE v : v = [i \in 1..(Len(s) + 1) |->
                                  IF i > Len(s) THEN 0 ELSE s[i] + Base * v[i + 1]]
<1>4. g = [i \in 1..(Len(s) + 1) |-> IF i > Len(s) THEN 0 ELSE s[i] + Base * g[i + 1]]
  <2>1. ASSUME NEW i \in 1..(Len(s) + 1)
        PROVE  g[i] = IF i > Len(s) THEN 0 ELSE s[i] + Base * g[i + 1]
    <3> HIDE DEF s
    <3>1. CASE i > Len(s)
      BY <1>3, <3>1, Fits
    <3>2. CASE i <= Len(s)
      <4>1. i \in 1..HeaderBytes /\ i + 1 \in 1..(Len(s) + 1) /\ i + 1 - 1 = i
        BY <1>3, <3>2
      <4>2. g[i] = Left(n)[i - 1] /\ g[i + 1] = Left(n)[i]
        BY <4>1
      <4>3. QED
        BY <1>2, <3>2, <4>1, <4>2
    <3>3. QED
      BY <1>3, <3>1, <3>2
  <2> HIDE DEF s
  <2>2. QED
    BY <2>1
<1>5. v = [i \in 1..(Len(s) + 1) |-> IF i > Len(s) THEN 0 ELSE s[i] + Base * v[i + 1]]
  <2> HIDE DEF g, s
  <2>1. QED
    BY <1>4
<1>6. FromBytes(s) = v[1]
  BY DEF FromBytes
<1> HIDE DEF v
<1> DEFINE T == {k \in Nat : k <= H => v[H + 1 - k] = Left(n)[H - k]}
<1>7. 0 \in T
  <2> HIDE DEF s
  <2>1. v[H + 1] = 0
    BY <1>1, <1>3, <1>5
  <2>2. QED
    BY <1>1, <2>1, Fits
<1>8. ASSUME NEW k \in Nat, k \in T PROVE k + 1 \in T
  <2>1. ASSUME k + 1 <= H PROVE v[H + 1 - (k + 1)] = Left(n)[H - (k + 1)]
    <3> DEFINE i == H - k
    <3>1. i \in 1..H /\ H + 1 - k = i + 1 /\ H + 1 - (k + 1) = i /\ H - (k + 1) = i - 1
      BY <1>1, <2>1
    <3>2. v[i + 1] = Left(n)[i]
      BY <1>8, <2>1, <3>1
    <3>3. v[i] = s[i] + Base * v[i + 1]
      <4> HIDE DEF s, i
      <4>1. QED
        BY <1>1, <1>3, <1>5, <3>1
    <3>4. Left(n)[i - 1] = s[i] + Base * Left(n)[i]
      BY <1>2, <3>1
    <3> HIDE DEF i, s
    <3>5. QED
      BY <3>1, <3>2, <3>3, <3>4
  <2>2. QED
    BY <2>1
<1>9. H \in T
  <2> HIDE DEF T
  <2>1. QED
    BY <1>1, <1>7, <1>8, NatSetInduction
<1>10. v[1] = n
  <2>1. H + 1 - H = 1 /\ H - H = 0 /\ H <= H
    BY <1>1
  <2>2. v[1] = Left(n)[0]
    BY <1>9, <2>1
  <2>3. QED
    BY <1>1, <2>2, LeftIs
<1>11. QED
  BY <1>3, <1>6, <1>10

-----------------------------------------------------------------------------
\* The transfer is a sequence of frames, numbered from 0: one for each chunk and, at the
\* end, one of length 0.  P(k) is the position in the file where frame k starts, and F(k)
\* how many bytes of the stream are before it.
P(k) == IF k * block < file THEN k * block ELSE file
F(k) == k * HeaderBytes + P(k)
Size(k) == P(k + 1) - P(k)

\* A frame k is sent only if k = 0 or the chunk before it is not the end.
Due(k) == k = 0 \/ P(k - 1) < file

\* As many of one as are no more than as many of the same.
LEMMA Multiples ==
  ASSUME NEW j \in Nat, NEW k \in Nat, NEW b \in Nat
  PROVE  /\ j * b \in Nat /\ (j + 1) * b = j * b + b
         /\ j <= k => j * b <= k * b
         /\ j < k => j * b + b <= k * b
<1>1. j * b \in Nat /\ (j + 1) * b = j * b + b
  OBVIOUS
<1>2. ASSUME j <= k PROVE j * b <= k * b
  <2>1. k - j \in Nat
    BY <1>2
  <2>2. (k - j) * b \in Nat /\ (k - j) * b = k * b - j * b
    BY <2>1
  <2>3. QED
    BY <2>2
<1>3. ASSUME j < k PROVE j * b + b <= k * b
  <2>1. k - j - 1 \in Nat
    BY <1>3
  <2>2. (k - j - 1) * b \in Nat /\ (k - j - 1) * b = k * b - j * b - b
    BY <2>1
  <2>3. QED
    BY <2>2
<1>4. QED
  BY <1>1, <1>2, <1>3

\* The positions rise to the length of the file and then stay.
LEMMA Positions ==
  ASSUME file \in Nat, block \in Nat \ {0}, NEW k \in Nat
  PROVE  /\ P(k) \in 0..file /\ P(k + 1) \in 0..file
         /\ P(0) = 0
         /\ Size(k) \in 0..block
         /\ P(k) < file => P(k + 1) = ChunkEnd(P(k), block, file) /\ Size(k) > 0
         /\ P(k) = file => Size(k) = 0
<1>1. k * block \in Nat /\ (k + 1) * block = k * block + block /\ 0 * block = 0
  BY Multiples
<1>2. QED
  BY <1>1 DEF P, Size, ChunkEnd

\* The frame of length 0 has the number of chunks as its number.
LEMMA LastFrame ==
  ASSUME file \in Nat, block \in Nat \ {0}, NEW k \in Nat, P(k) = file, Due(k)
  PROVE  k = NumChunks(file, block)
<1>1. k * block \in Nat /\ k * block >= file
  BY Multiples DEF P
<1> DEFINE r == file + block - 1 - k * block
<1>2. r \in 0 .. block - 1
  <2>1. CASE k = 0
    <3>1. k * block = 0
      BY <2>1
    <3>2. QED
      BY <1>1, <3>1
  <2>2. CASE k # 0
    <3>1. k - 1 \in Nat /\ P(k - 1) < file
      BY <2>2 DEF Due
    <3>2. (k - 1) * block < file
      BY <3>1, Multiples DEF P
    <3>3. (k - 1 + 1) * block = (k - 1) * block + block /\ k - 1 + 1 = k
      BY <3>1, Multiples
    <3>4. (k - 1) * block \in Nat
      BY <3>1, Multiples
    <3> DEFINE x == k * block
               y == (k - 1) * block
    <3>5. x \in Nat /\ y \in Nat /\ x = y + block /\ y < file /\ x >= file
      BY <1>1, <3>2, <3>3, <3>4
    <3> HIDE DEF x, y
    <3>6. file + block - 1 - x \in 0 .. block - 1
      BY <3>5
    <3>7. QED
      BY <3>6 DEF x
  <2>3. QED
    BY <2>1, <2>2
<1>3. file + block - 1 = block * k + r
  BY <1>1
<1> HIDE DEF r
<1>4. (block * k + r) \div block = k
  BY <1>2, DivisionIs
<1>5. QED
  BY <1>3, <1>4 DEF NumChunks

\* Frames do not overlap.
LEMMA Offsets ==
  ASSUME file \in Nat, block \in Nat \ {0}, NEW j \in Nat, NEW k \in Nat
  PROVE  /\ F(k) \in Nat /\ F(k + 1) = F(k) + HeaderBytes + Size(k)
         /\ j < k => F(j) + HeaderBytes <= F(k)
         /\ j <= k => F(j) <= F(k)
<1> HeaderBytes \in Nat
  OBVIOUS
<1>1. k * HeaderBytes \in Nat /\ (k + 1) * HeaderBytes = k * HeaderBytes + HeaderBytes
  BY Multiples
<1>2. j * block <= k * block \/ j > k
  BY Multiples
<1>3. P(j) \in Nat /\ P(k) \in Nat /\ P(k + 1) \in Nat
  BY SMTT(60), Positions
<1>4. j <= k => P(j) <= P(k)
  <2>1. j * block \in Nat /\ k * block \in Nat
    BY Multiples
  <2>2. QED
    BY <1>2, <2>1 DEF P
<1>5. /\ j < k => j * HeaderBytes + HeaderBytes <= k * HeaderBytes
      /\ j <= k => j * HeaderBytes <= k * HeaderBytes
      /\ j * HeaderBytes \in Nat
  BY Multiples
<1>6. QED
  BY <1>1, <1>3, <1>4, <1>5 DEF F, Size

-----------------------------------------------------------------------------
Digits == 0..(Base - 1)

\* The bytes q are those of the stream after the first front of them, as far as headers go.
Carries(q, front) ==
  \A k \in Nat : \A i \in 1..HeaderBytes :
    F(k) + i - front \in 1..Len(q) =>
      q[F(k) + i - front] = ToBytes(Size(k))[i] /\ Due(k)

\* Two lists, one after the other.
LEMMA Joined ==
  ASSUME NEW S, NEW a \in Seq(S), NEW b \in Seq(S)
  PROVE  /\ a \o b \in Seq(S) /\ Len(a \o b) = Len(a) + Len(b)
         /\ Len(a) \in Nat /\ Len(b) \in Nat
         /\ \A i \in 1..Len(a) : (a \o b)[i] = a[i]
         /\ \A i \in 1..Len(b) : (a \o b)[Len(a) + i] = b[i]
OBVIOUS

\* What is lost at the end of the bytes leaves the others.
LEMMA Cut ==
  ASSUME NEW a \in Seq(Digits), NEW b \in Seq(Digits), NEW front \in Int, Carries(a \o b, front)
  PROVE  Carries(a, front)
<1>1. ASSUME NEW k \in Nat, NEW i \in 1..HeaderBytes, F(k) + i - front \in 1..Len(a)
      PROVE  a[F(k) + i - front] = ToBytes(Size(k))[i] /\ Due(k)
  <2> DEFINE p == F(k) + i - front
  <2>1. p \in 1..Len(a) /\ p \in 1..Len(a \o b) /\ (a \o b)[p] = a[p]
    BY <1>1, Joined
  <2>2. (a \o b)[p] = ToBytes(Size(k))[i] /\ Due(k)
    BY <2>1 DEF Carries
  <2>3. QED
    BY <2>1, <2>2
<1>2. QED
  BY <1>1 DEF Carries

\* What is read from their front leaves the others in their places.
LEMMA Dropped ==
  ASSUME NEW a \in Seq(Digits), NEW b \in Seq(Digits), NEW front \in Int, Carries(a \o b, front),
         file \in Nat, block \in Nat \ {0}
  PROVE  Carries(b, front + Len(a))
<1>1. ASSUME NEW k \in Nat, NEW i \in 1..HeaderBytes, F(k) + i - (front + Len(a)) \in 1..Len(b)
      PROVE  b[F(k) + i - (front + Len(a))] = ToBytes(Size(k))[i] /\ Due(k)
  <2> DEFINE p == F(k) + i - (front + Len(a))
  <2>1. F(k) \in Nat /\ Len(a) \in Nat
    BY Offsets, Joined
  <2>2. p \in 1..Len(b) /\ F(k) + i - front = Len(a) + p
    BY <1>1, <2>1
  <2>3. Len(a) + p \in 1..Len(a \o b) /\ (a \o b)[Len(a) + p] = b[p]
    BY SMTT(60), <2>1, <2>2, Joined
  <2>4. (a \o b)[Len(a) + p] = ToBytes(Size(k))[i] /\ Due(k)
    BY <2>2, <2>3 DEF Carries
  <2>5. QED
    BY <2>3, <2>4
<1>2. QED
  BY <1>1 DEF Carries

\* Where a byte of the header at x is, if the bytes after front reach up to y or begin there.
LEMMA Place ==
  ASSUME NEW x \in Nat, NEW y \in Nat, NEW h \in Nat, NEW i \in 1..h, NEW front \in Int
  PROVE  /\ x + h <= y => x + i - front <= y - front
         /\ y <= x => x + i - front > y - front
OBVIOUS

\* And where it is if they begin at x behind l others.
LEMMA PlaceBehind ==
  ASSUME NEW x \in Nat, NEW h \in Nat, NEW n \in Nat, NEW i \in 1..h, NEW front \in Int,
         NEW l \in Nat, l = x - front
  PROVE  x + i - front = l + i /\ i \in 1..(h + n)
OBVIOUS

\* A frame that is written behind all that were written before it.
LEMMA Extended ==
  ASSUME NEW a \in Seq(Digits), NEW b \in Seq(Digits), NEW front \in Int, Carries(a, front),
         file \in Nat, block \in Nat \ {0},
         NEW m \in Nat, Len(a) = F(m) - front, Due(m),
         Len(b) = HeaderBytes + Size(m), \A i \in 1..HeaderBytes : b[i] = ToBytes(Size(m))[i]
  PROVE  Carries(a \o b, front) /\ Len(a \o b) = F(m + 1) - front
<1>a. Size(m) \in Nat
  BY Positions
<1>b. Len(a) \in Nat /\ Len(b) \in Nat /\ Len(a \o b) = Len(a) + Len(b)
  BY ZenonT(60), Joined
<1>c. F(m) \in Nat /\ F(m + 1) = F(m) + HeaderBytes + Size(m)
  BY Offsets
<1>0. /\ Size(m) \in Nat /\ HeaderBytes \in Nat /\ F(m) \in Nat /\ Len(a) \in Nat
      /\ F(m + 1) = F(m) + HeaderBytes + Size(m)
      /\ Len(a \o b) = Len(a) + Len(b) /\ Len(a \o b) \in Nat /\ F(m + 1) \in Nat
  BY SMTT(60), <1>a, <1>b, <1>c
<1>1. ASSUME NEW k \in Nat, NEW i \in 1..HeaderBytes, F(k) + i - front \in 1..Len(a \o b)
      PROVE  (a \o b)[F(k) + i - front] = ToBytes(Size(k))[i] /\ Due(k)
  <2> DEFINE p == F(k) + i - front
  <2>1. F(k) \in Nat
    BY Offsets
  <2>2. CASE k < m
    <3>1. F(k) + HeaderBytes <= F(m)
      BY <2>2, Offsets
    <3>2. p \in 1..Len(a)
      <4>1. p <= F(m) - front
        BY <1>0, <2>1, <3>1, Place
      <4>2. p \in 1..Len(a \o b)
        BY <1>1
      <4> HIDE DEF p
      <4>3. QED
        BY <1>0, <4>1, <4>2
    <3>3. (a \o b)[p] = a[p]
      BY <3>2, Joined
    <3>4. a[p] = ToBytes(Size(k))[i] /\ Due(k)
      BY <3>2 DEF Carries
    <3>5. QED
      BY <3>3, <3>4
  <2>3. CASE k = m
    <3>1. p = Len(a) + i /\ i \in 1..Len(b)
      <4>1. F(m) + i - front = Len(a) + i /\ i \in 1..(HeaderBytes + Size(m))
        <5> DEFINE x == F(m)
                   n == Size(m)
                   h == HeaderBytes
                   l == Len(a)
        <5>1. x \in Nat /\ n \in Nat /\ h \in Nat /\ l \in Nat /\ i \in 1..h /\ l = x - front
          BY <1>0
        <5> HIDE DEF x, n, h, l
        <5>2. x + i - front = l + i /\ i \in 1..(h + n)
          BY <5>1, PlaceBehind
        <5>3. QED
          BY <5>2 DEF x, n, h, l
      <4>2. QED
        BY <2>3, <4>1
    <3>2. (a \o b)[Len(a) + i] = b[i]
      BY <3>1, Joined
    <3>3. (a \o b)[p] = ToBytes(Size(k))[i] /\ Due(k)
      BY <2>3, <3>1, <3>2
    <3>4. QED
      BY <3>3
  <2>4. CASE k > m
    <3>1. F(m + 1) <= F(k)
      <4>1. m + 1 \in Nat /\ m + 1 <= k
        BY <2>4
      <4>2. QED
        BY <4>1, Offsets
    <3>2. p > F(m + 1) - front
      BY <1>0, <2>1, <3>1, Place
    <3>3. F(m + 1) - front = Len(a \o b)
      BY SMTT(60), <1>0
    <3>4. p \in 1..Len(a \o b)
      BY <1>1
    <3> HIDE DEF p
    <3>5. QED
      BY <1>0, <3>2, <3>3, <3>4
  <2>5. k < m \/ k = m \/ k > m
    OBVIOUS
  <2>6. QED
    BY <2>2, <2>3, <2>4, <2>5
<1>2. QED
  <2>1. Carries(a \o b, front)
    BY <1>1 DEF Carries
  <2>2. QED
    BY SMTT(60), <1>0, <2>1

-----------------------------------------------------------------------------
\* What is on its way between the two: read for the frame at hand, in the connection, and
\* still to be written, which a broken connection does not take.
Rest == IF reset THEN <<>> ELSE out
Pipe == buf \o (stream \o Rest)

\* How much of all that is sent was before it, and how many frames are sent.
Front == F(spackets) + (IF spc = "body" THEN HeaderBytes ELSE 0)
SentFrames == IF cpc = "next" THEN cpackets ELSE cpackets + 1

ClientInv ==
  /\ cpc # "failed" => Due(cpackets)
  /\ cpc = "next" => pos = P(cpackets) /\ out = <<>>
  /\ cpc = "write" => P(cpackets) < file /\ pos = P(cpackets + 1)
  /\ cpc \in {"end", "ok"} => P(cpackets) = file /\ pos = file
  /\ cpc = "ok" => out = <<>>

ServerInv ==
  /\ spc \in {"header", "body"} =>
       /\ sbytes = P(spackets)
       /\ need = IF spc = "header" THEN HeaderBytes ELSE Size(spackets)
  /\ spc = "body" => Size(spackets) > 0
  /\ ReportIsWhole

PipeInv ==
  spc \in {"header", "body"} =>
    /\ Carries(Pipe, Front)
    /\ ~reset /\ cpc # "failed" => Len(Pipe) = F(SentFrames) - Front

Inv == TypeOK /\ ClientInv /\ ServerInv /\ PipeInv

\* The steps of the two ends and of the connection, one by one.
LEMMA NextIs ==
  Next => \/ SendChunk \/ Write \/ Written \/ SendEnd \/ Shutdown \/ ClientError \/ Kill
          \/ Read \/ HeaderRead \/ BodyRead \/ Eof \/ Reset
BY DEF Next, ClientStep, ServerStep

\* A byte that moves on from one list to the next.
LEMMA Moved ==
  ASSUME NEW a \in Seq(Digits), NEW b \in Seq(Digits), NEW c \in Seq(Digits), b # <<>>
  PROVE  /\ Append(a, Head(b)) \in Seq(Digits) /\ Tail(b) \in Seq(Digits)
         /\ Append(a, Head(b)) \o Tail(b) = a \o b
         /\ Append(a, Head(b)) \o (Tail(b) \o c) = a \o (b \o c)
<1>1. Append(a, Head(b)) \in Seq(Digits) /\ Tail(b) \in Seq(Digits) /\ Len(b) \in Nat \ {0}
  OBVIOUS
<1>2. Append(a, Head(b)) \o Tail(b) = a \o b
  OBVIOUS
<1>3. Append(a, Head(b)) \o (Tail(b) \o c) = a \o (b \o c)
  <2>1. Append(a, Head(b)) \o (Tail(b) \o c) = (Append(a, Head(b)) \o Tail(b)) \o c
    BY SMTT(60), <1>1
  <2>2. (a \o b) \o c = a \o (b \o c)
    BY SMTT(60)
  <2>3. QED
    BY <1>2, <2>1, <2>2
<1>4. QED
  BY <1>1, <1>2, <1>3

-----------------------------------------------------------------------------
LEMMA InitInv == Init => Inv
<1> SUFFICES ASSUME Init PROVE Inv
  OBVIOUS
<1>1. file \in Nat /\ block \in Nat \ {0} /\ HeaderBytes \in Nat
  BY DEF Init
<1>2. TypeOK
  <2>1. out \in Seq(0..(Base - 1)) /\ stream \in Seq(0..(Base - 1)) /\ buf \in Seq(0..(Base - 1))
    BY DEF Init
  <2>2. Len(stream) = 0 /\ Len(buf) = 0 /\ 0 \in 0..file
    BY <1>1 DEF Init
  <2>3. Len(stream) <= Window /\ Len(buf) <= need /\ need \in 0..MaxBlock \cup {HeaderBytes}
    BY <1>1, <2>2 DEF Init
  <2>4. /\ file \in 0..MaxFile /\ block \in 1..MaxBlock /\ cpc = "next" /\ spc = "header"
        /\ pos = 0 /\ cpackets = 0 /\ cbytes = 0 /\ spackets = 0 /\ sbytes = 0
        /\ fin = FALSE /\ reset = FALSE
    BY DEF Init
  <2> HIDE DEF Init
  <2>5. QED
    BY <2>1, <2>2, <2>3, <2>4 DEF TypeOK
<1>3. P(0) = 0 /\ Due(0) /\ F(0) = 0
  BY <1>1, Positions DEF F, Due
<1>4. ClientInv /\ ServerInv
  BY <1>3 DEF Init, ClientInv, ServerInv, ReportIsWhole
<1>5. PipeInv
  <2>1. Pipe = <<>> /\ Front = 0 /\ SentFrames = 0
    BY <1>3 DEF Init, Pipe, Rest, Front, SentFrames
  <2>2. Carries(<<>>, 0)
    BY DEF Carries
  <2>3. QED
    BY <1>3, <2>1, <2>2 DEF PipeInv
<1>6. QED
  BY <1>2, <1>4, <1>5 DEF Inv

\* What a state with the right types lets the lemmas above be used for.
LEMMA Typed ==
  ASSUME TypeOK
  PROVE  /\ file \in Nat /\ block \in Nat \ {0} /\ block <= MaxBlock /\ HeaderBytes \in Nat
         /\ \A k \in Nat : Size(k) \in 0..MaxBlock
         /\ Rest \in Seq(Digits) /\ stream \in Seq(Digits) /\ buf \in Seq(Digits)
         /\ out \in Seq(Digits) /\ Pipe \in Seq(Digits)
         /\ Front \in Nat
<1>1. file \in Nat /\ block \in Nat \ {0} /\ block <= MaxBlock /\ HeaderBytes \in Nat
  BY DEF TypeOK
<1>2. ASSUME NEW k \in Nat PROVE Size(k) \in 0..MaxBlock
  BY <1>1, Positions
<1>3. Rest \in Seq(Digits) /\ stream \in Seq(Digits) /\ buf \in Seq(Digits) /\ out \in Seq(Digits)
  <2>1. stream \in Seq(Digits) /\ buf \in Seq(Digits) /\ out \in Seq(Digits)
    BY DEF TypeOK, Digits
  <2>2. <<>> \in Seq(Digits)
    OBVIOUS
  <2>3. QED
    BY <2>1, <2>2 DEF Rest
<1>4. Pipe \in Seq(Digits)
  BY <1>3, Joined DEF Pipe
<1>5. Front \in Nat
  <2>1. F(spackets) \in Nat
    BY <1>1, Offsets DEF TypeOK
  <2>2. QED
    BY <1>1, <2>1 DEF Front
<1>6. QED
  BY <1>1, <1>2, <1>3, <1>4, <1>5

\* Bytes that begin with a header begin with the length of the frame they are at.
LEMMA FirstHeader ==
  ASSUME NEW b \in Seq(Digits), NEW r \in Seq(Digits), file \in Nat, block \in Nat \ {0},
         NEW k \in Nat, Size(k) \in 0..MaxBlock, Carries(b \o r, F(k)), Len(b) = HeaderBytes
  PROVE  FromBytes(b) = Size(k) /\ Due(k) /\ Carries(r, F(k) + HeaderBytes)
<1>1. HeaderBytes \in Nat \ {0}
  BY Fits
<1>2. F(k) \in Nat
  BY Offsets
<1>3. ASSUME NEW i \in 1..HeaderBytes PROVE b[i] = ToBytes(Size(k))[i] /\ Due(k)
  <2> DEFINE p == F(k) + i - F(k)
  <2>1. p = i
    BY <1>2
  <2>2. i \in 1..Len(b \o r) /\ (b \o r)[i] = b[i]
    BY <1>1, Joined
  <2>3. (b \o r)[p] = ToBytes(Size(k))[i] /\ Due(k)
    BY <2>1, <2>2 DEF Carries
  <2>4. QED
    BY <2>1, <2>2, <2>3
<1>4. ToBytes(Size(k)) \in Seq(Digits) /\ Len(ToBytes(Size(k))) = HeaderBytes
  BY HeaderRoundTrip DEF Digits
<1>5. b = ToBytes(Size(k))
  <2> DEFINE s == ToBytes(Size(k))
  <2>1. s \in Seq(Digits) /\ Len(s) = HeaderBytes /\ \A i \in 1..HeaderBytes : b[i] = s[i]
    BY <1>3, <1>4
  <2> HIDE DEF s
  <2>2. b = s
    BY <2>1
  <2>3. QED
    BY <2>2 DEF s
<1>6. FromBytes(b) = Size(k)
  BY <1>5, HeaderRoundTrip
<1>7. Carries(r, F(k) + HeaderBytes)
  BY <1>2, Dropped
<1>8. 1 \in 1..HeaderBytes
  BY <1>1
<1>9. QED
  BY <1>3, <1>6, <1>7, <1>8

-----------------------------------------------------------------------------
\* The steps of the client keep the types.
LEMMA ClientTypes ==
  ASSUME Inv,
         \/ SendChunk \/ Write \/ Written \/ SendEnd \/ Shutdown \/ ClientError \/ Kill \/ Reset
  PROVE  TypeOK'
<1> USE DEF Inv
<1>1. TypeOK
  OBVIOUS
<1>2. CASE SendChunk
  <2> DEFINE n == ChunkEnd(pos, block, file) - pos
  <2>1. pos < file /\ pos \in 0..file /\ file \in Nat /\ block \in 1..MaxBlock
    BY <1>2 DEF SendChunk, HasNext, TypeOK
  <2>2. n \in 0..MaxBlock /\ ChunkEnd(pos, block, file) \in 0..file
    BY <2>1 DEF ChunkEnd
  <2> HIDE DEF n
  <2>3. ToBytes(n) \in Seq(0..(Base - 1))
    BY <2>2, HeaderRoundTrip
  <2>4. [i \in 1..n |-> 1] \in Seq(0..(Base - 1))
    BY <2>2
  <2>5. ToBytes(n) \o [i \in 1..n |-> 1] \in Seq(0..(Base - 1))
    BY <2>3, <2>4
  <2>6. out' \in Seq(0..(Base - 1)) /\ pos' \in 0..file
    BY <1>2, <2>2, <2>5 DEF SendChunk, n
  <2>7. QED
    BY <1>1, <1>2, <2>6 DEF SendChunk, TypeOK, connVars, serverVars
<1>3. CASE Write
  <2>1. stream' \in Seq(0..(Base - 1)) /\ out' \in Seq(0..(Base - 1))
    BY <1>3, Moved DEF Write, TypeOK, Digits
  <2>2. Len(stream') <= Window
    BY <1>3 DEF Write, TypeOK
  <2>3. QED
    BY <1>1, <1>3, <2>1, <2>2 DEF Write, TypeOK, serverVars
<1>4. CASE Written
  BY <1>4 DEF Written, TypeOK, connVars, serverVars
<1>5. CASE SendEnd
  <2>1. ToBytes(0) \in Seq(0..(Base - 1))
    BY HeaderRoundTrip
  <2>2. QED
    BY <1>1, <1>5, <2>1 DEF SendEnd, TypeOK, connVars, serverVars
<1>6. CASE Shutdown
  BY <1>1, <1>6 DEF Shutdown, TypeOK, serverVars
<1>7. CASE ClientError
  BY <1>1, <1>7 DEF ClientError, TypeOK, serverVars
<1>8. CASE Kill
  BY <1>1, <1>8 DEF Kill, TypeOK, serverVars
<1>9. CASE Reset
  <2>1. <<>> \in Seq(0..(Base - 1)) /\ Len(<<>>) <= Window
    OBVIOUS
  <2>2. QED
    BY <1>1, <1>9, <2>1 DEF Reset, TypeOK, clientVars, serverVars
<1>10. QED
  BY <1>2, <1>3, <1>4, <1>5, <1>6, <1>7, <1>8, <1>9

\* The steps of the server keep the types.
LEMMA ServerTypes ==
  ASSUME Inv, Read \/ HeaderRead \/ BodyRead \/ Eof
  PROVE  TypeOK'
<1> USE DEF Inv
<1>1. TypeOK
  OBVIOUS
<1>2. <<>> \in Seq(0..(Base - 1)) /\ Len(<<>>) = 0
  OBVIOUS
<1>3. CASE Read
  <2>1. stream' \in Seq(0..(Base - 1)) /\ buf' \in Seq(0..(Base - 1))
    BY <1>3, Moved DEF Read, TypeOK, Digits
  <2>2. Len(stream') <= Window /\ Len(buf') <= need
    BY <1>3 DEF Read, TypeOK
  <2>3. QED
    BY <1>1, <1>3, <2>1, <2>2 DEF Read, TypeOK, clientVars
<1>4. CASE HeaderRead
  <2>1. /\ file \in Nat /\ block \in Nat \ {0} /\ spackets \in Nat /\ Size(spackets) \in 0..MaxBlock
        /\ stream \o Rest \in Seq(Digits) /\ buf \in Seq(Digits)
    BY Typed, Joined DEF TypeOK
  <2>2. Carries(Pipe, F(spackets)) /\ Len(buf) = HeaderBytes
    <3>1. Front = F(spackets)
      BY <1>4, <2>1, Offsets DEF Front, HeaderRead
    <3>2. QED
      BY <1>4, <3>1 DEF HeaderRead, PipeInv, ServerInv
  <2>3. FromBytes(buf) \in 0..MaxBlock
    BY <2>1, <2>2, FirstHeader DEF Pipe
  <2>4. QED
    BY <1>1, <1>2, <1>4, <2>3 DEF HeaderRead, TypeOK, clientVars, connVars
<1>5. CASE BodyRead
  <2>1. sbytes' \in Nat /\ spackets' \in Nat
    BY <1>5 DEF BodyRead, TypeOK
  <2>2. QED
    BY <1>1, <1>2, <1>5, <2>1 DEF BodyRead, TypeOK, clientVars, connVars
<1>6. CASE Eof
  BY <1>1, <1>6 DEF Eof, TypeOK, clientVars, connVars
<1>7. QED
  BY <1>3, <1>4, <1>5, <1>6

\* The client's place in the file.
LEMMA ClientStays ==
  ASSUME Inv, Next
  PROVE  ClientInv'
<1> USE DEF Inv, ClientInv
<1>1. file \in Nat /\ block \in Nat \ {0} /\ cpackets \in Nat /\ cpackets + 1 \in Nat
  BY Typed DEF TypeOK
<1>2. CASE SendChunk
  <2>1. P(cpackets) < file
    BY <1>2 DEF SendChunk, HasNext
  <2>2. pos' = P(cpackets + 1)
    BY <1>1, <1>2, <2>1, Positions DEF SendChunk
  <2>3. QED
    BY <1>2, <2>1, <2>2 DEF SendChunk, P, Due
<1>3. CASE Written
  <2>1. Due(cpackets + 1)
    BY <1>1, <1>3 DEF Written, Due
  <2>2. QED
    BY <1>3, <2>1 DEF Written, P, Due
<1>4. CASE SendEnd
  <2>1. P(cpackets) = file
    BY SMTT(60), <1>1, <1>4, Positions DEF SendEnd, HasNext
  <2>2. QED
    BY <1>4, <2>1 DEF SendEnd, P, Due
<1>5. CASE Write
  BY <1>5 DEF Write, P, Due
<1>6. CASE Shutdown
  BY <1>6 DEF Shutdown, P, Due
<1>7. CASE ClientError \/ Kill
  BY <1>7 DEF ClientError, Kill, P, Due
<1>8. CASE Read \/ HeaderRead \/ BodyRead \/ Eof \/ Reset
  <2>1. UNCHANGED <<file, block, clientVars>>
    BY <1>8 DEF Read, HeaderRead, BodyRead, Eof, Reset
  <2>2. QED
    BY <2>1 DEF clientVars, P, Due
<1>9. QED
  BY <1>2, <1>3, <1>4, <1>5, <1>6, <1>7, <1>8, NextIs

\* The server's place in the file, and that it reports the whole of it.
LEMMA ServerStays ==
  ASSUME Inv, Next
  PROVE  ServerInv'
<1> USE DEF Inv
<1>1. file \in Nat /\ block \in Nat \ {0} /\ spackets \in Nat /\ Size(spackets) \in 0..MaxBlock
  BY Typed DEF TypeOK
<1>2. /\ stream \o Rest \in Seq(Digits) /\ buf \in Seq(Digits) /\ F(spackets) \in Nat
  BY <1>1, Typed, Joined, Offsets
<1>3. CASE HeaderRead
  <2>1. Carries(Pipe, F(spackets)) /\ Len(buf) = HeaderBytes /\ sbytes = P(spackets)
    <3>1. Front = F(spackets)
      BY <1>2, <1>3 DEF Front, HeaderRead
    <3>2. QED
      BY <1>3, <3>1 DEF HeaderRead, PipeInv, ServerInv
  <2>2. FromBytes(buf) = Size(spackets) /\ Due(spackets)
    BY <1>1, <1>2, <2>1, FirstHeader DEF Pipe
  <2>3. CASE Size(spackets) = 0
    <3>1. P(spackets) = file
      <4>1. P(spackets) \in 0..file /\ (P(spackets) < file => Size(spackets) > 0)
        BY <1>1, Positions
      <4>2. QED
        BY <1>1, <2>3, <4>1
    <3>2. spackets = NumChunks(file, block)
      BY <1>1, <2>2, <3>1, LastFrame
    <3>3. QED
      BY <1>3, <2>1, <2>2, <2>3, <3>1, <3>2
         DEF HeaderRead, ServerInv, ReportIsWhole, NumChunks, connVars, clientVars
  <2>4. CASE Size(spackets) # 0
    BY <1>1, <1>3, <2>1, <2>2, <2>4
       DEF HeaderRead, ServerInv, ReportIsWhole, Size, P, connVars, clientVars
  <2>5. QED
    BY <2>3, <2>4
<1>4. CASE BodyRead
  <2>1. sbytes = P(spackets) /\ Len(buf) = Size(spackets)
    BY <1>4 DEF BodyRead, ServerInv
  <2>2. P(spackets) + Size(spackets) = P(spackets + 1)
    BY <1>1, Positions DEF Size
  <2>3. sbytes' = P(spackets')
    BY <1>4, <2>1, <2>2 DEF BodyRead
  <2>4. sbytes' = P(spackets)'
    BY <1>4, <2>3 DEF BodyRead, P
  <2>5. QED
    BY <1>4, <2>4 DEF BodyRead, ServerInv, ReportIsWhole
<1>5. CASE Read
  BY <1>5 DEF Read, ServerInv, ReportIsWhole, NumChunks, Size, P
<1>6. CASE Eof
  BY <1>6 DEF Eof, ServerInv, ReportIsWhole, NumChunks
<1>7. CASE \/ SendChunk \/ Write \/ Written \/ SendEnd \/ Shutdown \/ ClientError \/ Kill \/ Reset
  <2>1. UNCHANGED <<file, block, serverVars>>
    BY <1>7 DEF SendChunk, Write, Written, SendEnd, Shutdown, ClientError, Kill, Reset
  <2>2. QED
    BY <2>1 DEF serverVars, ServerInv, ReportIsWhole, NumChunks, Size, P
<1>8. QED
  BY <1>3, <1>4, <1>5, <1>6, <1>7, NextIs

-----------------------------------------------------------------------------
\* The frames are those of the same file after a step.
LEMMA PipeStep ==
  ASSUME UNCHANGED <<file, block>>, Carries(Pipe', Front'),
         (~reset /\ cpc # "failed")' => Len(Pipe') = F(SentFrames') - Front'
  PROVE  PipeInv'
<1>1. Carries(Pipe, Front)'
  BY DEF Carries, F, P, Size, Due
<1>2. (~reset /\ cpc # "failed" => Len(Pipe) = F(SentFrames) - Front)'
  BY DEF F, P
<1>3. QED
  BY <1>1, <1>2 DEF PipeInv

\* Lists with others behind them.
LEMMA Behind ==
  ASSUME NEW a \in Seq(Digits), NEW b \in Seq(Digits), NEW c \in Seq(Digits)
  PROVE  (a \o b) \o c = a \o (b \o c)
BY SMTT(60)

LEMMA NoneBehind ==
  ASSUME NEW a \in Seq(Digits)
  PROVE  a \o <<>> = a
OBVIOUS

\* A frame is sent.
LEMMA PipeGrows ==
  ASSUME Inv, SendChunk \/ SendEnd
  PROVE  PipeInv'
<1> USE DEF Inv
<1> DEFINE m == cpackets
           k == Size(m)
<1>1. /\ file \in Nat /\ block \in Nat \ {0} /\ m \in Nat /\ k \in 0..MaxBlock
      /\ Pipe \in Seq(Digits) /\ buf \in Seq(Digits) /\ stream \in Seq(Digits) /\ Front \in Nat
  BY Typed DEF TypeOK
<1>2. cpc = "next" /\ out = <<>> /\ pos = P(m) /\ Due(m)
  BY DEF SendChunk, SendEnd, ClientInv
<1>3. /\ UNCHANGED <<file, block, connVars, serverVars>> /\ cpc' # "next" /\ cpackets' = m
  BY DEF SendChunk, SendEnd
<1>4. SUFFICES ASSUME spc \in {"header", "body"} PROVE PipeInv'
  BY <1>3 DEF PipeInv, serverVars
<1>5. Front' = Front /\ SentFrames = m /\ SentFrames' = m + 1
  BY <1>2, <1>3 DEF Front, SentFrames, serverVars, F, P
<1>6. Carries(Pipe, Front) /\ (~reset => Len(Pipe) = F(m) - Front)
  BY <1>2, <1>4, <1>5 DEF PipeInv
<1>7. /\ out' \in Seq(Digits) /\ Len(out') = HeaderBytes + k
      /\ \A i \in 1..HeaderBytes : out'[i] = ToBytes(k)[i]
  <2>1. ToBytes(k) \in Seq(Digits) /\ Len(ToBytes(k)) = HeaderBytes
    BY <1>1, HeaderRoundTrip DEF Digits
  <2>2. CASE SendChunk
    <3>1. k = ChunkEnd(pos, block, file) - pos
      BY <1>1, <1>2, <2>2, Positions DEF SendChunk, HasNext, Size
    <3> DEFINE f == [i \in 1..k |-> 1]
    <3>2. f \in Seq(Digits) /\ Len(f) = k
      <4> HIDE DEF k
      <4>1. QED
        BY <1>1 DEF Digits
    <3>3. out' = ToBytes(k) \o f
      BY <2>2, <3>1 DEF SendChunk
    <3> HIDE DEF f, k
    <3>4. /\ out' \in Seq(Digits) /\ Len(out') = HeaderBytes + k
          /\ \A i \in 1..HeaderBytes : (ToBytes(k) \o f)[i] = ToBytes(k)[i]
      <4> DEFINE s == ToBytes(k)
      <4>1. s \in Seq(Digits) /\ Len(s) = HeaderBytes /\ out' = s \o f
        BY <2>1, <3>3
      <4> HIDE DEF s
      <4>2. s \o f \in Seq(Digits) /\ Len(s \o f) = Len(s) + Len(f)
        BY ZenonT(60), <3>2, <4>1, Joined
      <4>3. \A i \in 1..Len(s) : (s \o f)[i] = s[i]
        BY <3>2, <4>1, Joined
      <4>4. Len(s \o f) = HeaderBytes + k
        BY <3>2, <4>1, <4>2
      <4>5. QED
        BY <4>1, <4>2, <4>3, <4>4 DEF s
    <3>5. QED
      BY <3>3, <3>4
  <2>3. CASE SendEnd
    <3>1. k = 0
      <4>1. P(m) \in 0..file /\ ~(P(m) < file)
        BY <1>1, <1>2, <2>3, Positions DEF SendEnd, HasNext
      <4>2. P(m) = file
        BY <1>1, <4>1
      <4>3. QED
        BY <1>1, <4>2, Positions
    <3>2. QED
      BY <2>1, <2>3, <3>1 DEF SendEnd
  <2>4. QED
    BY <2>2, <2>3
<1> HIDE DEF k
<1>8. CASE reset
  <2>1. Pipe' = Pipe /\ reset'
    BY <1>3, <1>8 DEF Pipe, Rest, connVars, serverVars
  <2>2. QED
    BY <1>3, <1>5, <1>6, <2>1, PipeStep
<1>9. CASE ~reset
  <2>1. Pipe' = Pipe \o out'
    <3>1. Pipe' = buf \o (stream \o out') /\ Pipe = buf \o (stream \o <<>>)
      BY <1>2, <1>3, <1>9 DEF Pipe, Rest, connVars, serverVars
    <3>2. stream \o <<>> = stream
      BY <1>1, NoneBehind
    <3>3. (buf \o stream) \o out' = buf \o (stream \o out')
      BY SMTT(60), <1>1, <1>7, Behind
    <3>4. QED
      BY <3>1, <3>2, <3>3
  <2>2. Carries(Pipe \o out', Front) /\ Len(Pipe \o out') = F(m + 1) - Front
    BY <1>1, <1>2, <1>6, <1>7, <1>9, Extended DEF k
  <2>3. QED
    BY <1>3, <1>5, <2>1, <2>2, PipeStep
<1>10. QED
  BY <1>8, <1>9

\* What is left of l bytes that end at y, once n of them, from x on, are gone.
LEMMA Shorter ==
  ASSUME NEW l \in Int, NEW n \in Nat, NEW r \in Nat, NEW y \in Nat, NEW x \in Nat,
         l = n + r, l = y - x
  PROVE  r = y - (x + n)
OBVIOUS

\* The other steps: what is on its way only loses its end or its front.
LEMMA PipeStays ==
  ASSUME Inv, Next
  PROVE  PipeInv'
<1> USE DEF Inv
<1>1. /\ file \in Nat /\ block \in Nat \ {0} /\ spackets \in Nat /\ Size(spackets) \in 0..MaxBlock
      /\ Pipe \in Seq(Digits) /\ buf \in Seq(Digits) /\ stream \in Seq(Digits)
      /\ Rest \in Seq(Digits) /\ out \in Seq(Digits) /\ Front \in Nat /\ HeaderBytes \in Nat
  BY Typed DEF TypeOK
<1>0. Pipe = buf \o (stream \o Rest)
  BY DEF Pipe
<1>2. /\ stream \o Rest \in Seq(Digits) /\ F(spackets) \in Nat
      /\ F(spackets + 1) = F(spackets) + HeaderBytes + Size(spackets)
  BY <1>1, Joined, Offsets
<1>3. CASE SendChunk \/ SendEnd
  BY <1>3, PipeGrows
<1>4. CASE Write \/ Written \/ Shutdown
  <2>1. SUFFICES ASSUME spc \in {"header", "body"} PROVE PipeInv'
    BY <1>4 DEF Write, Written, Shutdown, PipeInv, serverVars
  <2>2. Pipe' = Pipe
    <3>1. CASE Write
      <4>1. Append(stream, Head(out)) \o Tail(out) = stream \o out
        BY <1>1, <3>1, Moved DEF Write
      <4>2. Pipe' = buf \o (Append(stream, Head(out)) \o Tail(out)) /\ Pipe = buf \o (stream \o out)
        BY <3>1 DEF Write, Pipe, Rest, serverVars
      <4>3. QED
        BY <4>1, <4>2
    <3>2. CASE Written \/ Shutdown
      BY <3>2 DEF Written, Shutdown, Pipe, Rest, serverVars, connVars
    <3>3. QED
      BY <1>4, <3>1, <3>2
  <2>3. /\ UNCHANGED <<file, block, reset, spackets, spc>> /\ Front' = Front
        /\ SentFrames' = SentFrames /\ (cpc' # "failed" => cpc # "failed")
    BY <1>4 DEF Write, Written, Shutdown, serverVars, connVars, Front, SentFrames, F, P
  <2>4. QED
    BY <2>1, <2>2, <2>3, PipeStep DEF PipeInv
<1>5. CASE ClientError \/ Kill \/ Reset
  <2>1. SUFFICES ASSUME spc \in {"header", "body"} PROVE PipeInv'
    BY <1>5 DEF ClientError, Kill, Reset, PipeInv, serverVars
  <2>2. UNCHANGED <<file, block, serverVars>> /\ ~(~reset /\ cpc # "failed")'
    BY <1>5 DEF ClientError, Kill, Reset
  <2>3. Front' = Front
    BY <2>2 DEF serverVars, Front, F, P
  <2>4. Carries(Pipe, Front)
    BY <2>1 DEF PipeInv
  <2>5. Carries(Pipe', Front)
    <3>1. CASE ClientError \/ Kill
      <4>1. Pipe' = buf \o (stream \o <<>>)
        BY <3>1 DEF ClientError, Kill, Pipe, Rest, serverVars
      <4>2. Pipe' \o Rest = Pipe /\ Pipe' \in Seq(Digits)
        <5>1. stream \o <<>> = stream
          BY <1>1, NoneBehind
        <5>2. (buf \o stream) \o Rest = buf \o (stream \o Rest)
          BY ZenonT(60), <1>1, Behind
        <5>3. buf \o stream \in Seq(Digits)
          BY <1>1
        <5>4. QED
          BY <1>0, <4>1, <5>1, <5>2, <5>3
      <4> DEFINE q == Pipe'
                 r == Rest
      <4> HIDE DEF q, r
      <4>3. q \o r = Pipe /\ q \in Seq(Digits) /\ r \in Seq(Digits)
        BY <1>1, <4>2 DEF q, r
      <4>4. Carries(q, Front)
        <5> DEFINE x == Front
        <5>1. x \in Int /\ Carries(Pipe, x)
          BY <1>1, <2>4
        <5> HIDE DEF x
        <5>2. Carries(q, x)
          BY <4>3, <5>1, Cut
        <5>3. QED
          BY <5>2 DEF x
      <4>5. QED
        BY <4>4 DEF q
    <3>2. CASE Reset
      <4>1. Pipe' = buf \o (<<>> \o <<>>)
        BY <3>2 DEF Reset, Pipe, Rest, serverVars
      <4>2. Pipe' \o (stream \o Rest) = Pipe /\ Pipe' \in Seq(Digits)
        <5>1. <<>> \o <<>> = <<>>
          OBVIOUS
        <5>2. buf \o <<>> = buf
          BY <1>1, NoneBehind
        <5>3. QED
          BY <1>0, <1>1, <4>1, <5>1, <5>2
      <4> DEFINE q == Pipe'
                 r == stream \o Rest
      <4> HIDE DEF q, r
      <4>3. q \o r = Pipe /\ q \in Seq(Digits) /\ r \in Seq(Digits)
        BY <1>2, <4>2 DEF q, r
      <4>4. Carries(q, Front)
        <5> DEFINE x == Front
        <5>1. x \in Int /\ Carries(Pipe, x)
          BY <1>1, <2>4
        <5> HIDE DEF x
        <5>2. Carries(q, x)
          BY <4>3, <5>1, Cut
        <5>3. QED
          BY <5>2 DEF x
      <4>5. QED
        BY <4>4 DEF q
    <3>3. QED
      BY <1>5, <3>1, <3>2
  <2>6. QED
    BY <2>2, <2>3, <2>5, PipeStep
<1>6. CASE Read
  <2>1. Pipe' = Pipe
    <3>1. Append(buf, Head(stream)) \o (Tail(stream) \o Rest) = buf \o (stream \o Rest)
      <4>1. stream # <<>>
        BY <1>6 DEF Read
      <4> DEFINE r == Rest
      <4>2. buf \in Seq(Digits) /\ stream \in Seq(Digits) /\ r \in Seq(Digits)
        BY <1>1
      <4> HIDE DEF r
      <4>3. Append(buf, Head(stream)) \o (Tail(stream) \o r) = buf \o (stream \o r)
        BY SMTT(60), <4>1, <4>2, Moved
      <4>4. QED
        BY <4>3 DEF r
    <3>2. Pipe' = Append(buf, Head(stream)) \o (Tail(stream) \o Rest)
      BY <1>6 DEF Read, Pipe, Rest, clientVars
    <3>3. QED
      BY <3>1, <3>2 DEF Pipe
  <2>2. /\ UNCHANGED <<file, block, reset, cpc, spc>> /\ Front' = Front /\ SentFrames' = SentFrames
        /\ spc \in {"header", "body"}
    BY <1>6 DEF Read, clientVars, Front, SentFrames, F, P
  <2>3. QED
    BY <2>1, <2>2, PipeStep DEF PipeInv
<1>7. CASE HeaderRead
  <2>1. /\ UNCHANGED <<file, block, reset, cpc>> /\ SentFrames' = SentFrames
        /\ Pipe' = <<>> \o (stream \o Rest) /\ spackets' = spackets
    BY <1>7 DEF HeaderRead, clientVars, connVars, SentFrames, Pipe, Rest
  <2>2. Front = F(spackets) /\ Len(buf) = HeaderBytes
    BY <1>2, <1>7 DEF HeaderRead, Front, ServerInv
  <2>3. Carries(Pipe, F(spackets))
    BY <1>7, <2>2 DEF PipeInv, HeaderRead
  <2>4. Pipe' = stream \o Rest
    BY <1>2, <2>1
  <2>5. SUFFICES ASSUME spc' = "body" PROVE PipeInv'
    BY <1>7 DEF HeaderRead, PipeInv
  <2>6. Front' = F(spackets) + HeaderBytes
    BY <2>1, <2>5 DEF Front, F, P
  <2>7. Carries(Pipe', Front')
    <3> DEFINE r == stream \o Rest
    <3> HIDE DEF r
    <3>1. r \in Seq(Digits) /\ Carries(buf \o r, F(spackets))
      BY <1>0, <1>2, <2>3 DEF r
    <3>2. Carries(r, F(spackets) + HeaderBytes)
      BY <1>1, <2>2, <3>1, FirstHeader
    <3>3. QED
      BY <2>4, <2>6, <3>2 DEF r
  <2>8. Len(Pipe) = HeaderBytes + Len(Pipe')
    <3> DEFINE r == stream \o Rest
    <3> HIDE DEF r
    <3>1. r \in Seq(Digits) /\ Pipe = buf \o r /\ Pipe' = r
      BY <1>0, <1>2, <2>4 DEF r
    <3>2. QED
      BY <1>1, <2>2, <3>1, Joined
  <2>9. (~reset /\ cpc # "failed")' => Len(Pipe') = F(SentFrames') - Front'
    <3>1. (~reset /\ cpc # "failed")' => Len(Pipe) = F(SentFrames) - F(spackets)
      BY <1>7, <2>1, <2>2 DEF PipeInv, HeaderRead
    <3>2. Len(Pipe') \in Nat
      BY <1>2, <2>4
    <3>3. F(SentFrames) \in Nat /\ F(SentFrames') = F(SentFrames)
      <4>1. SentFrames \in Nat
        BY DEF SentFrames, TypeOK
      <4>2. F(SentFrames) \in Nat
        BY <1>1, <4>1, Offsets
      <4>3. QED
        BY <2>1, <4>2
    <3>4. QED
      BY SMTT(60), <1>1, <1>2, <2>6, <2>8, <3>1, <3>2, <3>3, Shorter
  <2>10. QED
    BY <2>1, <2>7, <2>9, PipeStep
<1>8. CASE BodyRead
  <2> DEFINE k == spackets
             r == stream \o Rest
  <2>1. /\ UNCHANGED <<file, block, reset, cpc>> /\ SentFrames' = SentFrames
        /\ Pipe' = <<>> \o r /\ spackets' = k + 1 /\ spc' = "header"
    BY <1>8 DEF BodyRead, clientVars, connVars, SentFrames, Pipe, Rest
  <2>2. Front = F(k) + HeaderBytes /\ Len(buf) = Size(k)
    BY <1>8 DEF BodyRead, Front, ServerInv
  <2>3. Carries(buf \o r, Front)
    BY <1>8 DEF PipeInv, BodyRead, Pipe
  <2>4. Pipe' = r
    BY <1>2, <2>1
  <2>5. Front' = F(k + 1)
    <3>1. F(k + 1) \in Nat
      BY <1>1, Offsets
    <3>2. Front' = F(k + 1) + 0
      BY <2>1 DEF Front, F, P
    <3>3. QED
      BY <3>1, <3>2
  <2>6. Front' = Front + Len(buf)
    BY <1>1, <1>2, <2>2, <2>5
  <2>7. Carries(Pipe', Front')
    <3> HIDE DEF r
    <3>1. r \in Seq(Digits)
      BY <1>2 DEF r
    <3>2. Carries(r, Front + Len(buf))
      BY <1>1, <2>3, <3>1, Dropped
    <3>3. QED
      BY <2>4, <2>6, <3>2
  <2>8. Len(Pipe) = Len(buf) + Len(Pipe')
    <3> HIDE DEF r
    <3>1. r \in Seq(Digits) /\ Pipe = buf \o r
      BY <1>0, <1>2 DEF r
    <3>2. QED
      BY <1>1, <2>4, <3>1, Joined
  <2>9. (~reset /\ cpc # "failed")' => Len(Pipe') = F(SentFrames') - Front'
    <3>1. (~reset /\ cpc # "failed")' => Len(Pipe) = F(SentFrames) - Front
      BY <1>8, <2>1 DEF PipeInv, BodyRead
    <3>2. Len(Pipe') \in Nat /\ Len(buf) \in Nat
      BY <1>1, <1>2, <2>4
    <3>3. F(SentFrames) \in Nat /\ F(SentFrames') = F(SentFrames)
      <4>1. SentFrames \in Nat
        BY DEF SentFrames, TypeOK
      <4>2. F(SentFrames) \in Nat
        BY <1>1, <4>1, Offsets
      <4>3. QED
        BY <2>1, <4>2
    <3>4. QED
      BY SMTT(60), <1>1, <2>6, <2>8, <3>1, <3>2, <3>3, Shorter
  <2>10. QED
    BY <2>1, <2>7, <2>9, PipeStep
<1>9. CASE Eof
  BY <1>9 DEF Eof, PipeInv
<1>10. QED
  BY <1>3, <1>4, <1>5, <1>6, <1>7, <1>8, <1>9, NextIs

-----------------------------------------------------------------------------
LEMMA NextInv == Inv /\ [Next]_vars => Inv'
<1> SUFFICES ASSUME Inv, [Next]_vars PROVE Inv'
  OBVIOUS
<1>1. CASE Next
  BY <1>1, NextIs, ClientTypes, ServerTypes, ClientStays, ServerStays, PipeStays DEF Inv
<1>2. CASE UNCHANGED vars
  <2>1. /\ UNCHANGED <<file, block, cpc, pos, out, cpackets, cbytes, stream, fin, reset>>
        /\ UNCHANGED <<spc, buf, need, spackets, sbytes>>
    BY <1>2 DEF vars, clientVars, connVars, serverVars
  <2>2. TypeOK'
    BY <2>1 DEF Inv, TypeOK
  <2>3. ClientInv' /\ ServerInv'
    BY <2>1 DEF Inv, ClientInv, ServerInv, ReportIsWhole, NumChunks, Due, Size, P
  <2>4. PipeInv'
    <3>1. Pipe' = Pipe /\ Front' = Front /\ SentFrames' = SentFrames
      BY <2>1 DEF Pipe, Rest, Front, SentFrames, F, P
    <3>2. CASE spc \in {"header", "body"}
      BY <2>1, <3>1, <3>2, PipeStep DEF Inv, PipeInv
    <3>3. CASE spc \notin {"header", "body"}
      BY <2>1, <3>3 DEF PipeInv
    <3>4. QED
      BY <3>2, <3>3
  <2>5. QED
    BY <2>2, <2>3, <2>4 DEF Inv
<1>3. QED
  BY <1>1, <1>2

\* The inductive invariant holds always.
LEMMA Invariant == Spec => []Inv
BY InitInv, NextInv, PTL DEF Spec

\* The variables have their types: no read_exact wants more than the largest block, whatever
\* bytes come where a length is expected.
THEOREM TcpTypeCorrect == Spec => []TypeOK
BY Invariant, PTL DEF Inv

\* A report of the server is of a whole file, each chunk counted once: handle_connection
\* never takes the bytes of a file for a length, however the stream is cut.
THEOREM WholeReports == Spec => []ReportIsWhole
BY Invariant, PTL DEF Inv, ServerInv

-----------------------------------------------------------------------------
\* Functions that are defined from the end: the value at i adds to e[i], unless i is one of
\* the stops, w times the value at a later place.
FromEnd(f, L, e, w, stops, later) ==
  f = [i \in 1..(L + 1) |-> IF i \in stops THEN e[i] ELSE e[i] + w * f[later[i]]]

\* There is one.
LEMMA FromEndExists ==
  ASSUME NEW L \in Nat, NEW e \in [1..(L + 1) -> Nat], NEW w \in Nat, NEW stops, NEW later,
         \A i \in 1..(L + 1) : i \notin stops => later[i] \in (i + 1)..(L + 1)
  PROVE  \E f : FromEnd(f, L, e, w, stops, later)
<1> DEFINE Val(f, i) == IF i \in stops THEN e[i] ELSE e[i] + w * f[later[i]]
           Dom(k) == (L + 1 - k)..(L + 1)
           Good(f, k) == f \in [Dom(k) -> Nat] /\ \A i \in Dom(k) : f[i] = Val(f, i)
           T == {k \in Nat : k <= L => \E f : Good(f, k)}
<1>0. \A x, y \in Nat : x + w * y \in Nat
  BY SMTT(60)
<1>1. 0 \in T
  <2> DEFINE f == [i \in Dom(0) |-> e[i]]
  <2>1. \A i \in Dom(0) : i = L + 1 /\ i \in stops /\ e[i] \in Nat
    OBVIOUS
  <2>2. Good(f, 0)
    BY <2>1
  <2>3. QED
    BY <2>2
<1>2. ASSUME NEW k \in Nat, k \in T PROVE k + 1 \in T
  <2> SUFFICES ASSUME k + 1 <= L PROVE \E f : Good(f, k + 1)
    <3> HIDE DEF Good
    <3>1. QED
      OBVIOUS
  <2>1. PICK g : Good(g, k)
    <3> HIDE DEF Good
    <3>1. k <= L
      OBVIOUS
    <3>2. QED
      BY <1>2, <3>1
  <2> DEFINE j == L - k
             h == [i \in Dom(k + 1) |-> IF i = j THEN Val(g, j) ELSE g[i]]
  <2>2. /\ j \in 1..(L + 1) /\ j \in Dom(k + 1) /\ j \notin Dom(k)
        /\ \A i \in Dom(k + 1) : i = j \/ i \in Dom(k)
        /\ \A i \in Dom(k) : i \in Dom(k + 1) /\ i # j /\ i \in 1..(L + 1)
        /\ \A i \in (j + 1)..(L + 1) : i \in Dom(k)
    OBVIOUS
  <2>3. \A i \in Dom(k + 1) : i \in stops \/ later[i] \in Dom(k)
    <3>1. ASSUME NEW i \in Dom(k + 1), i \notin stops PROVE later[i] \in Dom(k)
      <4>1. i \in 1..(L + 1) /\ j <= i
        BY <2>2
      <4>2. later[i] \in (i + 1)..(L + 1)
        BY <3>1, <4>1
      <4>3. QED
        BY <4>1, <4>2
    <3>2. QED
      BY <3>1
  <2>4. ASSUME NEW i \in Dom(k + 1) PROVE Val(g, i) \in Nat
    <3>1. i \in 1..(L + 1) /\ e[i] \in Nat
      BY <2>2
    <3>2. CASE i \in stops
      BY <3>1, <3>2
    <3>3. CASE i \notin stops
      <4>1. g[later[i]] \in Nat
        BY <2>1, <2>3, <3>3
      <4>2. e[i] + w * g[later[i]] \in Nat
        BY <1>0, <3>1, <4>1
      <4>3. QED
        BY <3>3, <4>2
    <3>4. QED
      BY <3>2, <3>3
  <2> HIDE DEF Dom, j
  <2>5. ASSUME NEW i \in Dom(k) PROVE h[i] = g[i]
    BY <2>2
  <2>6. ASSUME NEW i \in Dom(k + 1) PROVE h[i] = Val(g, i)
    BY <2>1, <2>2
  <2>7. ASSUME NEW i \in Dom(k + 1) PROVE Val(h, i) = Val(g, i)
    <3>1. i \in stops \/ h[later[i]] = g[later[i]]
      <4> HIDE DEF h
      <4>1. QED
        BY <2>3, <2>5
    <3> HIDE DEF h
    <3>2. QED
      BY <3>1
  <2>8. h \in [Dom(k + 1) -> Nat]
    <3>1. \A i \in Dom(k + 1) : h[i] \in Nat
      <4> HIDE DEF h, Val
      <4>1. QED
        BY <2>4, <2>6
    <3> HIDE DEF Val
    <3>2. h = [i \in Dom(k + 1) |-> h[i]]
      OBVIOUS
    <3> HIDE DEF h
    <3>3. QED
      BY <3>1, <3>2
  <2> HIDE DEF h, Val
  <2>9. Good(h, k + 1)
    BY <2>6, <2>7, <2>8
  <2>10. QED
    BY <2>9
<1>3. L \in T
  <2> HIDE DEF T
  <2>1. QED
    BY <1>1, <1>2, NatSetInduction
<1>4. PICK f : Good(f, L)
  <2> HIDE DEF Good
  <2>1. QED
    BY <1>3
<1>5. Dom(L) = 1..(L + 1)
  OBVIOUS
<1>6. f = [i \in 1..(L + 1) |-> Val(f, i)]
  <2> HIDE DEF Val, Dom
  <2>1. f \in [1..(L + 1) -> Nat] /\ \A i \in 1..(L + 1) : f[i] = Val(f, i)
    BY <1>4, <1>5
  <2>2. QED
    BY <2>1
<1>7. QED
  BY <1>6 DEF FromEnd

\* Its values are numbers.
LEMMA FromEndNat ==
  ASSUME NEW L \in Nat, NEW e \in [1..(L + 1) -> Nat], NEW w \in Nat, NEW stops, NEW later,
         \A i \in 1..(L + 1) : i \notin stops => later[i] \in (i + 1)..(L + 1),
         NEW f, FromEnd(f, L, e, w, stops, later)
  PROVE  \A i \in 1..(L + 1) : f[i] \in Nat
<1> DEFINE T == {k \in Nat : \A i \in 1..(L + 1) : i >= L + 1 - k => f[i] \in Nat}
<1>1. ASSUME NEW i \in 1..(L + 1), \A j \in (i + 1)..(L + 1) : f[j] \in Nat PROVE f[i] \in Nat
  <2>1. f[i] = IF i \in stops THEN e[i] ELSE e[i] + w * f[later[i]]
    BY DEF FromEnd
  <2>2. i \notin stops => f[later[i]] \in Nat
    BY <1>1
  <2>3. e[i] \in Nat /\ \A x, y \in Nat : x + w * y \in Nat
    <3>1. \A x, y \in Nat : x + w * y \in Nat
      OBVIOUS
    <3>2. e[i] \in Nat
      OBVIOUS
    <3>3. QED
      BY <3>1, <3>2
  <2>4. i \notin stops => e[i] + w * f[later[i]] \in Nat
    BY <2>2, <2>3
  <2>5. QED
    BY <2>1, <2>3, <2>4
<1>2. 0 \in T
  <2>1. ASSUME NEW i \in 1..(L + 1), i >= L + 1 - 0 PROVE f[i] \in Nat
    <3>1. (i + 1)..(L + 1) = {}
      BY <2>1
    <3>2. QED
      BY <1>1, <3>1
  <2>2. QED
    BY <2>1
<1>3. ASSUME NEW k \in Nat, k \in T PROVE k + 1 \in T
  <2>1. ASSUME NEW i \in 1..(L + 1), i >= L + 1 - (k + 1) PROVE f[i] \in Nat
    <3>1. ASSUME NEW j \in (i + 1)..(L + 1) PROVE f[j] \in Nat
      <4>1. j \in 1..(L + 1) /\ j >= L + 1 - k
        BY <2>1
      <4>2. QED
        BY <1>3, <4>1
    <3>2. QED
      BY <1>1, <3>1
  <2>2. QED
    BY <2>1
<1>4. L \in T
  <2> HIDE DEF T
  <2>1. QED
    BY <1>2, <1>3, NatSetInduction
<1>5. \A i \in 1..(L + 1) : i >= L + 1 - L
  OBVIOUS
<1>6. QED
  BY <1>4, <1>5

\* Any bytes make a length.
LEMMA FromBytesNat ==
  ASSUME NEW s \in Seq(Digits)
  PROVE  FromBytes(s) \in Nat
<1> DEFINE L == Len(s)
           e == [i \in 1..(L + 1) |-> IF i > L THEN 0 ELSE s[i]]
           stops == {L + 1}
           later == [i \in 1..(L + 1) |-> i + 1]
           Is(v) == v = [i \in 1..(Len(s) + 1) |-> IF i > Len(s) THEN 0 ELSE s[i] + Base * v[i + 1]]
           value == CHOOSE v : Is(v)
<1>1. L \in Nat /\ e \in [1..(L + 1) -> Nat] /\ Base \in Nat
  <2>1. L \in Nat /\ \A i \in 1..L : s[i] \in Nat
    BY DEF Digits
  <2>2. \A i \in 1..(L + 1) : (IF i > L THEN 0 ELSE s[i]) \in Nat
    BY <2>1
  <2> HIDE DEF L
  <2>3. QED
    BY <2>1, <2>2
<1> HIDE DEF L
<1>2. \A i \in 1..(L + 1) : i \notin stops => later[i] \in (i + 1)..(L + 1)
  BY <1>1
<1>3. ASSUME NEW v PROVE Is(v) <=> FromEnd(v, L, e, Base, stops, later)
  <2>1. \A i \in 1..(L + 1) : (IF i > L THEN 0 ELSE s[i] + Base * v[i + 1])
                              = (IF i \in stops THEN e[i] ELSE e[i] + Base * v[later[i]])
    BY <1>1
  <2> HIDE DEF e, stops, later
  <2>2. QED
    BY <2>1 DEF FromEnd, L
<1> HIDE DEF e, stops, later, Is
<1>4. Is(value)
  BY <1>1, <1>2, <1>3, FromEndExists
<1>5. \A i \in 1..(L + 1) : value[i] \in Nat
  <2> HIDE DEF value
  <2>1. FromEnd(value, L, e, Base, stops, later)
    BY <1>3, <1>4
  <2>2. QED
    BY <1>1, <1>2, <2>1, FromEndNat
<1>6. FromBytes(s) = value[1]
  BY DEF FromBytes, Is
<1>7. QED
  BY <1>1, <1>5, <1>6

-----------------------------------------------------------------------------
\* The length that is read at i of the bytes q, and the equation of Lengths(q).
LengthAt(q, i) == FromBytes(SubSeq(q, i, i + HeaderBytes - 1))
IsTotal(t, q) ==
  t = [i \in 1..(Len(q) + 1) |->
         IF i + HeaderBytes - 1 > Len(q) THEN 0
         ELSE IF LengthAt(q, i) = 0 \/ i + HeaderBytes + LengthAt(q, i) - 1 > Len(q)
              THEN LengthAt(q, i)
              ELSE LengthAt(q, i) + t[i + HeaderBytes + LengthAt(q, i)]]

\* A reader that lost the frames makes something of the bytes, too.
LEMMA LengthsIs ==
  ASSUME NEW q \in Seq(Digits)
  PROVE  \E t : IsTotal(t, q) /\ Lengths(q) = t[1]
<1> DEFINE L == Len(q)
           H == HeaderBytes
           n(i) == LengthAt(q, i)
           e == [i \in 1..(L + 1) |-> IF i + H - 1 > L THEN 0 ELSE n(i)]
           stops == {i \in 1..(L + 1) : i + H - 1 > L \/ n(i) = 0 \/ i + H + n(i) - 1 > L}
           later == [i \in 1..(L + 1) |-> i + H + n(i)]
           total == CHOOSE t : IsTotal(t, q)
<1>1. L \in Nat /\ H \in Nat
  OBVIOUS
<1>2. ASSUME NEW i \in 1..(L + 1), ~(i + H - 1 > L) PROVE n(i) \in Nat
  <2> DEFINE s == SubSeq(q, i, i + H - 1)
  <2>1. s \in Seq(Digits)
    BY <1>1, <1>2
  <2> HIDE DEF s
  <2>2. FromBytes(s) \in Nat
    BY <2>1, FromBytesNat
  <2>3. QED
    BY <2>2 DEF s, LengthAt
<1> HIDE DEF L, n
<1>3. e \in [1..(L + 1) -> Nat]
  <2>1. \A i \in 1..(L + 1) : (IF i + H - 1 > L THEN 0 ELSE n(i)) \in Nat
    BY <1>2
  <2>2. QED
    BY <2>1
<1>4. \A i \in 1..(L + 1) : i \notin stops => later[i] \in (i + 1)..(L + 1)
  <2>1. ASSUME NEW i \in 1..(L + 1), i \notin stops PROVE i + H + n(i) \in (i + 1)..(L + 1)
    <3>1. ~(i + H - 1 > L) /\ n(i) # 0 /\ ~(i + H + n(i) - 1 > L)
      BY <2>1
    <3>2. n(i) \in Nat
      BY <1>2, <3>1
    <3>3. QED
      BY <1>1, <3>1, <3>2
  <2>2. QED
    BY <2>1
<1>5. PICK f : FromEnd(f, L, e, 1, stops, later)
  <2> HIDE DEF e, stops, later
  <2>1. QED
    BY <1>1, <1>3, <1>4, FromEndExists
<1>6. IsTotal(f, q)
  <2>1. \A i \in 1..(L + 1) : f[i] \in Nat
    <3> HIDE DEF e, stops, later
    <3>1. QED
      BY <1>1, <1>3, <1>4, <1>5, FromEndNat
  <2>2. f = [i \in 1..(L + 1) |-> IF i \in stops THEN e[i] ELSE e[i] + 1 * f[later[i]]]
    <3> HIDE DEF e, stops, later
    <3>1. QED
      BY <1>5 DEF FromEnd
  <2>3. ASSUME NEW i \in 1..(L + 1)
        PROVE  (IF i \in stops THEN e[i] ELSE e[i] + 1 * f[later[i]])
               = (IF i + H - 1 > L THEN 0
                  ELSE IF n(i) = 0 \/ i + H + n(i) - 1 > L THEN n(i)
                       ELSE n(i) + f[i + H + n(i)])
    <3>1. CASE i \in stops
      BY <3>1
    <3>2. CASE i \notin stops
      <4>1. ~(i + H - 1 > L) /\ ~(n(i) = 0 \/ i + H + n(i) - 1 > L)
        BY <3>2
      <4>2. e[i] = n(i) /\ later[i] = i + H + n(i)
        BY <4>1
      <4>3. f[later[i]] \in Nat
        <5>1. later[i] \in 1..(L + 1)
          <6> HIDE DEF later, stops
          <6>1. later[i] \in (i + 1)..(L + 1)
            BY <1>4, <3>2
          <6>2. QED
            BY <1>1, <6>1
        <5>2. QED
          BY <2>1, <5>1
      <4> DEFINE x == f[later[i]]
      <4>4. 1 * x = x
        <5> HIDE DEF x
        <5>1. x \in Nat
          BY <4>3 DEF x
        <5>2. QED
          BY <5>1
      <4> HIDE DEF e, stops, later
      <4>5. QED
        BY <3>2, <4>1, <4>2, <4>4
    <3>3. QED
      BY <3>1, <3>2
  <2> HIDE DEF e, stops, later
  <2>4. QED
    BY <2>2, <2>3 DEF IsTotal, L, n
<1>7. IsTotal(total, q)
  BY <1>6
<1>8. Lengths(q) = total[1]
  BY DEF Lengths, IsTotal, LengthAt
<1> HIDE DEF total
<1>9. QED
  BY <1>7, <1>8

\* Bytes that begin at frame k and end with frame m - 1 make the lengths of these frames.
LEMMA LengthsOfFrames ==
  ASSUME file \in Nat, block \in Nat \ {0}, NEW q \in Seq(Digits), NEW k \in Nat, NEW m \in Nat,
         \A j \in Nat : Size(j) \in 0..MaxBlock,
         Carries(q, F(k)), Len(q) = F(m) - F(k)
  PROVE  Lengths(q) = P(m) - P(k)
<1> DEFINE L == Len(q)
           H == HeaderBytes
           at(j) == F(j) - F(k) + 1
<1>1. H \in Nat \ {0} /\ L \in Nat
  <2>1. 0 \in 0..MaxBlock
    OBVIOUS
  <2>2. HeaderBytes > 0
    BY <2>1, Fits
  <2>3. QED
    BY <2>2
<1>2. \A j \in Nat : /\ F(j) \in Nat /\ P(j) \in Nat /\ Size(j) \in Nat
                     /\ F(j + 1) = F(j) + H + Size(j) /\ P(j + 1) = P(j) + Size(j)
                     /\ (Size(j) = 0 => P(j) = file)
                     /\ P(j) <= file
  <2>1. ASSUME NEW j \in Nat
        PROVE  /\ F(j) \in Nat /\ P(j) \in Nat /\ Size(j) \in Nat
               /\ F(j + 1) = F(j) + H + Size(j) /\ P(j + 1) = P(j) + Size(j)
               /\ (Size(j) = 0 => P(j) = file)
               /\ P(j) <= file
    <3>1. F(j) \in Nat /\ F(j + 1) = F(j) + H + Size(j)
      BY Offsets
    <3>2. P(j) \in 0..file /\ P(j + 1) \in 0..file /\ Size(j) \in 0..block
          /\ (P(j) < file => Size(j) > 0)
      BY Positions
    <3>3. P(j + 1) = P(j) + Size(j)
      BY SMTT(60), <3>2 DEF Size
    <3> DEFINE p == P(j)
               s == Size(j)
    <3>4. p \in Nat /\ s \in Nat /\ p <= file /\ (s = 0 => p = file)
      <4>1. p \in 0..file /\ s \in 0..block /\ (p < file => s > 0)
        BY <3>2
      <4> HIDE DEF p, s
      <4>2. QED
        BY <4>1
    <3> HIDE DEF p, s
    <3>5. P(j + 1) = p + s /\ F(j) \in Nat /\ F(j + 1) = F(j) + H + s
      BY <3>1, <3>3 DEF p, s
    <3>6. QED
      BY <3>4, <3>5 DEF p, s
  <2>2. QED
    BY <2>1
<1>3. k <= m
  <2>1. ASSUME m < k PROVE FALSE
    <3>1. F(m) + H <= F(k) /\ F(m) \in Nat /\ F(k) \in Nat
      BY <2>1, Offsets
    <3>2. QED
      BY <1>1, <3>1
  <2>2. QED
    BY <2>1
<1>4. PICK t : IsTotal(t, q) /\ Lengths(q) = t[1]
  BY LengthsIs
<1>5. ASSUME NEW j \in k..m
      PROVE  at(j) \in 1..(L + 1) /\ at(m) = L + 1 /\ at(k) = 1
  <2>1. j \in Nat /\ k <= j /\ j <= m
    BY <1>3
  <2>2. F(k) <= F(j) /\ F(j) <= F(m) /\ F(j) \in Nat /\ F(m) \in Nat /\ F(k) \in Nat
    BY <2>1, Offsets
  <2> DEFINE x == F(k)
             y == F(j)
             z == F(m)
  <2>3. x <= y /\ y <= z /\ x \in Nat /\ y \in Nat /\ z \in Nat /\ L = z - x
    BY <2>2
  <2> HIDE DEF x, y, z, L
  <2>4. y - x + 1 \in 1..(L + 1) /\ z - x + 1 = L + 1 /\ x - x + 1 = 1
    BY <2>3
  <2>5. QED
    BY <2>4 DEF x, y, z
<1>6. ASSUME NEW j \in k..m, j < m
      PROVE  /\ LengthAt(q, at(j)) = Size(j) /\ ~(at(j) + H - 1 > L)
             /\ at(j + 1) = at(j) + H + Size(j) /\ ~(at(j) + H + Size(j) - 1 > L)
             /\ (Size(j) = 0 => P(m) = P(j))
  <2>1. j \in Nat /\ j + 1 \in k..m
    BY <1>6
  <2>2. at(j) \in 1..(L + 1) /\ at(j + 1) \in 1..(L + 1)
    BY <1>5, <2>1
  <2>3. at(j + 1) = at(j) + H + Size(j) /\ Size(j) \in Nat
    <3>1. F(j + 1) = F(j) + H + Size(j) /\ F(j) \in Nat /\ Size(j) \in Nat /\ F(k) \in Nat
      BY <1>2, <2>1
    <3> DEFINE x == F(j)
               y == F(j + 1)
               z == F(k)
               s == Size(j)
    <3>2. y = x + H + s /\ x \in Nat /\ s \in Nat /\ z \in Nat
      BY <3>1
    <3> HIDE DEF x, y, z, s
    <3>3. y - z + 1 = (x - z + 1) + H + s
      BY <1>1, <3>2
    <3>4. QED
      BY <3>2, <3>3 DEF x, y, z, s
  <2> DEFINE s == SubSeq(q, at(j), at(j) + H - 1)
  <2>4. s = ToBytes(Size(j))
    <3> DEFINE b == ToBytes(Size(j))
    <3>1. b \in Seq(Digits) /\ Len(b) = H
      BY <2>1, HeaderRoundTrip DEF Digits
    <3> DEFINE a == at(j)
    <3>2. a \in 1..(L + 1) /\ a + H - 1 <= L
      <4> DEFINE z == at(j + 1)
                 n == Size(j)
      <4>1. a \in 1..(L + 1) /\ z \in 1..(L + 1) /\ z = a + H + n /\ n \in Nat
        BY <2>2, <2>3
      <4> HIDE DEF L, H, a, z, n
      <4>2. QED
        BY <1>1, <4>1
    <3>3. ASSUME NEW i \in 1..H PROVE q[a + i - 1] = b[i]
      <4> DEFINE x == F(j)
                 z == F(k)
      <4>1. x + i - z \in 1..Len(q) => q[x + i - z] = b[i]
        BY <2>1 DEF Carries
      <4>2. x \in Nat /\ z \in Nat /\ a = x - z + 1
        BY <1>2, <2>1
      <4> HIDE DEF x, z, a, b
      <4>3. x + i - z = a + i - 1
        BY <1>1, <4>2
      <4>4. a + i - 1 \in 1..Len(q)
        BY <1>1, <3>2
      <4>5. QED
        BY ZenonT(60), <4>1, <4>3, <4>4
    <3> HIDE DEF a, b
    <3>4. SubSeq(q, a, a + H - 1) = b
      <4>1. /\ Len(SubSeq(q, a, a + H - 1)) = H /\ SubSeq(q, a, a + H - 1) \in Seq(Digits)
            /\ \A i \in 1..H : SubSeq(q, a, a + H - 1)[i] = q[a + i - 1]
        <5>1. a \in 1..(Len(q) + 1) /\ a + H - 1 <= Len(q) /\ a + H - 1 \in Nat /\ a \in Nat
          BY <1>1, <3>2
        <5> HIDE DEF H
        <5>2. a + H - 1 - a + 1 = H
          BY <1>1, <5>1
        <5>3. SubSeq(q, a, a + H - 1) = [i \in 1..(a + H - 1 - a + 1) |-> q[a + i - 1]]
          BY <1>1, <5>1
        <5>4. \A i \in 1..H : q[a + i - 1] \in Digits
          <6>1. \A i \in 1..H : a + i - 1 \in 1..Len(q)
            BY <1>1, <5>1
          <6>2. QED
            BY <6>1
        <5> DEFINE x == SubSeq(q, a, a + H - 1)
        <5>5. x = [i \in 1..H |-> q[a + i - 1]]
          BY <5>2, <5>3
        <5> HIDE DEF x
        <5>6. Len(x) = H /\ x \in Seq(Digits) /\ \A i \in 1..H : x[i] = q[a + i - 1]
          BY <1>1, <5>4, <5>5
        <5>7. QED
          BY <5>6 DEF x
      <4> DEFINE x == SubSeq(q, a, a + H - 1)
      <4>2. x \in Seq(Digits) /\ Len(x) = H /\ \A i \in 1..H : x[i] = b[i]
        BY <3>3, <4>1
      <4> HIDE DEF x
      <4>3. x = b
        BY <1>1, <3>1, <4>2
      <4>4. QED
        BY <4>3 DEF x
    <3>5. QED
      BY <3>4 DEF a, b
  <2>5. LengthAt(q, at(j)) = Size(j)
    BY <2>1, <2>4, HeaderRoundTrip DEF LengthAt
  <2>6. Size(j) = 0 => P(m) = P(j)
    <3>1. ASSUME Size(j) = 0 PROVE P(m) = P(j)
      <4>1. P(j) = file /\ j * block >= file
        <5>1. P(j) = file
          BY <1>2, <2>1, <3>1
        <5>2. QED
          BY <2>1, <5>1, Multiples DEF P
      <4>2. j * block <= m * block /\ m * block \in Nat /\ j * block \in Nat
        BY <1>6, <2>1, Multiples
      <4>3. P(m) = file
        <5> DEFINE x == j * block
                   y == m * block
        <5>1. x >= file /\ x <= y /\ x \in Nat /\ y \in Nat
          BY <4>1, <4>2
        <5> HIDE DEF x, y
        <5>2. ~(y < file)
          BY <5>1
        <5>3. QED
          BY <5>2 DEF P, y
      <4>4. QED
        BY <4>1, <4>3
    <3>2. QED
      BY <3>1
  <2>7. ~(at(j) + H - 1 > L) /\ ~(at(j) + H + Size(j) - 1 > L)
    <3> DEFINE a == at(j)
               z == at(j + 1)
               n == Size(j)
    <3>1. a \in 1..(L + 1) /\ z \in 1..(L + 1) /\ z = a + H + n /\ n \in Nat
      BY <2>2, <2>3
    <3> HIDE DEF L, H, a, z, n
    <3>2. ~(a + H - 1 > L) /\ ~(a + H + n - 1 > L)
      BY <1>1, <3>1
    <3>3. QED
      BY <3>2 DEF a, n
  <2> HIDE DEF at, L, H
  <2>8. QED
    BY <2>3, <2>5, <2>6, <2>7
<1> DEFINE T == {d \in Nat : d <= m - k => t[at(m - d)] = P(m) - P(m - d)}
<1>7. 0 \in T
  <2>1. m - 0 = m /\ m \in k..m
    BY <1>3
  <2>2. at(m) \in 1..(L + 1) /\ at(m) + H - 1 > L
    <3>1. at(m) = L + 1
      BY <1>5, <2>1
    <3> HIDE DEF at, L, H
    <3>2. QED
      BY <1>1, <3>1
  <2> HIDE DEF at
  <2>3. t[at(m)] = 0
    BY <1>4, <2>2 DEF IsTotal
  <2>4. P(m) - P(m) = 0
    BY <1>2
  <2>5. QED
    BY <2>1, <2>3, <2>4
<1>8. ASSUME NEW d \in Nat, d \in T PROVE d + 1 \in T
  <2> DEFINE j == m - (d + 1)
  <2>1. ASSUME d + 1 <= m - k PROVE t[at(j)] = P(m) - P(j)
    <3>1. j \in k..m /\ j < m /\ j \in Nat /\ j + 1 = m - d /\ d <= m - k
      BY <1>3, <2>1
    <3> HIDE DEF j
    <3>2. t[at(j + 1)] = P(m) - P(j + 1)
      <4> HIDE DEF at
      <4>1. QED
        BY <1>8, <3>1
    <3>3. P(j + 1) = P(j) + Size(j) /\ P(j) \in Nat /\ Size(j) \in Nat /\ P(m) \in Nat
      BY <1>2, <3>1
    <3>4. /\ LengthAt(q, at(j)) = Size(j) /\ ~(at(j) + H - 1 > L)
          /\ at(j + 1) = at(j) + H + Size(j) /\ ~(at(j) + H + Size(j) - 1 > L)
          /\ (Size(j) = 0 => P(m) = P(j)) /\ at(j) \in 1..(L + 1)
      <4> HIDE DEF at
      <4>1. QED
        BY <1>5, <1>6, <3>1
    <3> HIDE DEF at
    <3>5. t[at(j)] = IF Size(j) = 0 THEN Size(j) ELSE Size(j) + t[at(j + 1)]
      BY <1>4, <3>4 DEF IsTotal
    <3>6. CASE Size(j) = 0
      BY <3>3, <3>4, <3>5, <3>6
    <3>7. CASE Size(j) # 0
      BY <3>2, <3>3, <3>5, <3>7
    <3>8. QED
      BY <3>6, <3>7
  <2>2. QED
    BY <2>1
<1>9. m - k \in T
  <2> HIDE DEF T
  <2>1. m - k \in Nat
    BY <1>3
  <2>2. QED
    BY <1>7, <1>8, <2>1, NatSetInduction
<1>10. t[1] = P(m) - P(k)
  <2>1. m - (m - k) = k /\ m - k \in Nat /\ k \in k..m
    BY <1>3
  <2>2. at(k) = 1
    BY <1>5, <2>1
  <2> HIDE DEF at
  <2>3. QED
    BY <1>9, <2>1, <2>2
<1>11. QED
  BY <1>4, <1>10

-----------------------------------------------------------------------------
\* What is behind the first n bytes, after front of them, still carries the frames.
LEMMA Behead ==
  ASSUME NEW q \in Seq(Digits), NEW n \in Nat, n <= Len(q), NEW front \in Int,
         Carries(q, front), file \in Nat, block \in Nat \ {0}
  PROVE  /\ SubSeq(q, n + 1, Len(q)) \in Seq(Digits)
         /\ Len(SubSeq(q, n + 1, Len(q))) = Len(q) - n
         /\ Carries(SubSeq(q, n + 1, Len(q)), front + n)
<1> DEFINE a == SubSeq(q, 1, n)
           b == SubSeq(q, n + 1, Len(q))
<1>1. a \in Seq(Digits) /\ b \in Seq(Digits) /\ Len(a) = n /\ Len(b) = Len(q) - n
  OBVIOUS
<1>2. /\ \A i \in 1..n : a[i] = q[i]
      /\ \A i \in 1..(Len(q) - n) : b[i] = q[n + i]
  OBVIOUS
<1> HIDE DEF a, b
<1>3. a \o b = q
  <2> DEFINE x == a \o b
  <2>1. x \in Seq(Digits) /\ Len(x) = Len(q)
    BY <1>1
  <2>2. ASSUME NEW i \in 1..Len(q) PROVE x[i] = q[i]
    <3>1. CASE i <= n
      <4>1. i \in 1..Len(a)
        BY <1>1, <3>1
      <4>2. x[i] = a[i]
        BY <1>1, <4>1, Joined
      <4>3. QED
        BY <1>1, <1>2, <4>1, <4>2
    <3>2. CASE i > n
      <4> DEFINE j == i - n
      <4>1. j \in 1..Len(b) /\ i = Len(a) + j /\ i = n + j
        BY <1>1, <3>2
      <4> HIDE DEF j
      <4>2. x[Len(a) + j] = b[j]
        BY <1>1, <4>1, Joined
      <4>3. b[j] = q[n + j]
        BY <1>1, <1>2, <4>1
      <4>4. QED
        BY <4>1, <4>2, <4>3
    <3>3. i <= n \/ i > n
      OBVIOUS
    <3>4. QED
      BY <3>1, <3>2, <3>3
  <2> HIDE DEF x
  <2>3. x = q
    BY <2>1, <2>2
  <2>4. QED
    BY <2>3 DEF x
<1>4. Carries(b, front + n)
  BY <1>1, <1>3, Dropped
<1>5. QED
  BY <1>1, <1>4 DEF b

\* The invariant says where the client is, in terms of what is on its way.
LEMMA StepByStep == Inv => InStep
<1> SUFFICES ASSUME Inv PROVE InStep
  OBVIOUS
<1>a. TypeOK /\ ClientInv /\ ServerInv /\ PipeInv
  BY DEF Inv
<1>b. ~reset => buf \o stream \o out = Pipe
  <2>1. buf \in Seq(Digits) /\ stream \in Seq(Digits) /\ out \in Seq(Digits)
    BY <1>a, Typed
  <2>2. (buf \o stream) \o out = buf \o (stream \o out)
    BY SMTT(60), <2>1, Behind
  <2>3. QED
    BY <2>2 DEF Pipe, Rest
<1> SUFFICES ASSUME cpc # "failed", ~reset, spc \in {"header", "body"}
             PROVE  pos = sbytes + (IF spc = "header" THEN Lengths(Pipe)
                                    ELSE need + Lengths(SubSeq(Pipe, need + 1, Len(Pipe))))
  BY <1>a, <1>b DEF InStep
<1> USE <1>a
<1> DEFINE k == spackets
           m == SentFrames
           q == Pipe
<1>1. /\ file \in Nat /\ block \in Nat \ {0} /\ k \in Nat /\ q \in Seq(Digits)
      /\ \A j \in Nat : Size(j) \in 0..MaxBlock
      /\ cpackets \in Nat /\ m \in Nat /\ HeaderBytes \in Nat
  <2>1. cpackets \in Nat /\ m \in Nat /\ k \in Nat
    BY DEF TypeOK, SentFrames
  <2>2. QED
    BY <2>1, Typed
<1>2. pos = P(m)
  <2>1. CASE cpc \in {"next", "write"}
    BY <2>1 DEF ClientInv, SentFrames
  <2>2. CASE cpc \in {"end", "ok"}
    <3>1. P(cpackets) = file /\ pos = file /\ m = cpackets + 1
      BY <2>2 DEF ClientInv, SentFrames
    <3>2. Size(cpackets) = 0 /\ P(cpackets + 1) \in 0..file
      BY <1>1, <3>1, Positions
    <3>3. P(cpackets + 1) = file
      BY SMTT(60), <1>1, <3>1, <3>2 DEF Size
    <3>4. QED
      BY SMTT(60), <3>1, <3>3
  <2>3. QED
    BY <2>1, <2>2 DEF TypeOK
<1>3. Carries(q, Front) /\ Len(q) = F(m) - Front /\ sbytes = P(k)
  BY DEF PipeInv, ServerInv
<1> HIDE <1>a
<1> HIDE DEF k, m, q
<1>4. P(m) \in Nat /\ P(k) \in Nat /\ F(m) \in Nat /\ F(k) \in Nat
  <2>1. P(m) \in 0..file /\ P(k) \in 0..file
    BY <1>1, Positions
  <2>2. QED
    BY <1>1, <2>1, Offsets
<1>5. CASE spc = "header"
  <2>1. Front = F(k)
    BY <1>4, <1>5 DEF Front, k
  <2>2. Lengths(q) = P(m) - P(k)
    BY <1>1, <1>3, <2>1, LengthsOfFrames
  <2>3. pos = sbytes + Lengths(q)
    BY <1>2, <1>3, <1>4, <2>2
  <2>4. QED
    BY <1>5, <2>3 DEF q
<1>6. CASE spc = "body"
  <2>1. Front = F(k) + HeaderBytes /\ need = Size(k)
    BY <1>a, <1>6 DEF Front, ServerInv, k
  <2>2. /\ F(k + 1) = F(k) + HeaderBytes + Size(k) /\ F(k + 1) \in Nat /\ Size(k) \in Nat
        /\ P(k + 1) = P(k) + Size(k) /\ P(k + 1) \in Nat /\ k + 1 \in Nat
    <3>1. P(k + 1) = P(k) + Size(k) /\ P(k + 1) \in Nat
      <4>1. P(k + 1) \in 0..file
        BY <1>1, Positions
      <4>2. QED
        BY <1>1, <1>4, <4>1 DEF Size
    <3>2. F(k + 1) = F(k) + HeaderBytes + Size(k) /\ F(k + 1) \in Nat /\ Size(k) \in Nat
      <4>1. F(k + 1) = F(k) + HeaderBytes + Size(k)
        BY <1>1, Offsets
      <4>2. Size(k) \in 0..MaxBlock
        BY <1>1
      <4> DEFINE x == F(k)
                 n == Size(k)
      <4>3. F(k + 1) = x + HeaderBytes + n /\ x \in Nat /\ n \in Nat /\ HeaderBytes \in Nat
        BY <1>1, <1>4, <4>1, <4>2
      <4> HIDE DEF x, n
      <4>4. x + HeaderBytes + n \in Nat
        BY <4>3
      <4>5. QED
        BY <4>3, <4>4 DEF x, n
    <3>3. QED
      BY <1>1, <3>1, <3>2
  <2>3. k + 1 <= m
    <3>1. ASSUME m <= k PROVE FALSE
      <4>1. F(m) <= F(k)
        BY <1>1, <3>1, Offsets
      <4>2. HeaderBytes > 0
        BY <1>1, Fits
      <4>3. Len(q) \in Nat
        BY <1>1
      <4>4. QED
        BY SMTT(60), <1>1, <1>3, <1>4, <2>1, <4>1, <4>2, <4>3
    <3>2. QED
      BY <1>1, <3>1
  <2>4. Size(k) <= Len(q)
    <3>1. F(k + 1) <= F(m)
      BY <1>1, <2>2, <2>3, Offsets
    <3> DEFINE x == F(k)
               y == F(m)
               n == Size(k)
               l == Len(q)
               h == HeaderBytes
    <3>2. /\ x + h + n <= y /\ l = y - (x + h)
          /\ x \in Nat /\ y \in Nat /\ n \in Nat /\ l \in Nat /\ h \in Nat
      BY <1>1, <1>3, <1>4, <2>1, <2>2, <3>1
    <3> HIDE DEF x, y, n, l, h
    <3>3. n <= l
      BY <3>2
    <3>4. QED
      BY <3>3 DEF n, l
  <2> DEFINE n == Size(k)
             b == SubSeq(q, n + 1, Len(q))
  <2>5. n \in Nat /\ n <= Len(q) /\ F(k + 1) = Front + n /\ Front \in Nat
    <3> DEFINE x == F(k)
    <3>1. Front \in Nat
      <4>1. x \in Nat /\ HeaderBytes \in Nat /\ Front = x + HeaderBytes
        BY <1>1, <1>4, <2>1
      <4> HIDE DEF x
      <4>2. x + HeaderBytes \in Nat
        BY <4>1
      <4>3. QED
        BY <4>1, <4>2
    <3>2. QED
      BY <2>1, <2>2, <2>4, <3>1
  <2> HIDE DEF n
  <2>6. b \in Seq(Digits) /\ Len(b) = Len(q) - n /\ Carries(b, F(k + 1))
    <3> DEFINE x == Front
    <3>1. x \in Int /\ Carries(q, x) /\ F(k + 1) = x + n
      BY <1>3, <2>5
    <3> HIDE DEF x
    <3>2. /\ SubSeq(q, n + 1, Len(q)) \in Seq(Digits)
          /\ Len(SubSeq(q, n + 1, Len(q))) = Len(q) - n
          /\ Carries(SubSeq(q, n + 1, Len(q)), x + n)
      BY <1>1, <2>5, <3>1, Behead
    <3>3. QED
      BY <3>1, <3>2
  <2>7. Len(q) - n = F(m) - F(k + 1)
    BY <1>3, <1>4, <2>5
  <2> HIDE DEF b
  <2>8. Lengths(b) = P(m) - P(k + 1)
    BY <1>1, <2>2, <2>6, <2>7, LengthsOfFrames
  <2>9. pos = sbytes + (n + Lengths(b))
    BY SMTT(60), <1>2, <1>3, <1>4, <2>2, <2>8 DEF n
  <2>10. QED
    BY <1>6, <2>1, <2>9 DEF b, n, q
<1>7. QED
  BY <1>5, <1>6

\* The server is in step with the client: a reader that takes what comes where a length is
\* due for a length finds in what it has read, in the connection and in what is still to be
\* written the rest of what the client has taken from the file.
THEOREM ServerInStep == Spec => []InStep
BY Invariant, StepByStep, PTL

==============================================================================
