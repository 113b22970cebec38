---------------------------- MODULE VectorProofs ----------------------------
(***************************************************************************)
(* The two helpers that hand the kernel vectors of buffers: dio-offsets.c  *)
(* and discontiguous-io.cpp.  What their vectors sum up to is a recursive  *)
(* function, about which facts are proved with the least number for which  *)
(* they would fail.                                                        *)
(***************************************************************************)
EXTENDS DioOffsets, DiscontigIo, SequenceTheorems, WellFoundedInduction, TLAPS

-----------------------------------------------------------------------------
(* Sums over a vector.                                                     *)

\* A set of natural numbers has a least element.
LEMMA Least ==
    ASSUME NEW T, T \subseteq Nat, T # {}
    PROVE  \E x \in T : \A y \in T : x <= y
<1> DEFINE R == OpToRel(<, Nat)
<1>1. IsWellFoundedOn(R, Nat)
  BY NatLessThanWellFounded, Zenon
<1>2. ASSUME NEW x \in Nat, NEW y \in Nat, y < x PROVE <<y, x>> \in R
  BY <1>2, Zenon DEF OpToRel
<1> HIDE DEF R
<1>3. PICK x \in T : \A y \in T : ~ (<<y, x>> \in R)
  BY <1>1, WFMin, Zenon
<1>4. ASSUME NEW y \in T PROVE x <= y
  <2>1. x \in Nat /\ y \in Nat /\ ~(y < x)
    BY <1>2, <1>3
  <2>. QED
    BY <2>1, SMT
<1>. QED
  BY <1>3, <1>4

\* Induction up to N: what holds of 0 and of a number after its predecessor.
LEMMA UpTo ==
    ASSUME NEW N \in Nat, NEW G, 0 \in G, \A n \in 1 .. N : n - 1 \in G => n \in G
    PROVE  \A n \in 0 .. N : n \in G
<1> DEFINE T == {n \in 0 .. N : n \notin G}
<1> SUFFICES ASSUME T # {} PROVE FALSE
  OBVIOUS
<1>0. T \subseteq Nat
  BY SMT
<1>1. PICK n \in T : \A m \in T : n <= m
  BY <1>0, Least
<1>2. n \in 0 .. N /\ n \notin G /\ n # 0
  OBVIOUS
<1>3. n \in 1 .. N /\ n - 1 \in 0 .. N /\ ~(n <= n - 1)
  BY <1>2, SMT
<1>. QED
  BY <1>1, <1>2, <1>3

\* f adds up the lengths of the first n pieces of v.
Sums(v, n, f) == f = [k \in 0 .. n |-> IF k = 0 THEN 0 ELSE f[k - 1] + v[k].len]
Lengths(v, n) == n \in Nat /\ \A k \in 1 .. n : v[k].len \in Int

\* There is such a function.
LEMMA SumsExist ==
    ASSUME NEW v, NEW N, Lengths(v, N)
    PROVE  \E f \in [0 .. N -> Int] : Sums(v, N, f)
<1> DEFINE Good(n) == \E f \in [0 .. n -> Int] : Sums(v, n, f)
           G == {n \in 0 .. N : Good(n)}
<1>0. N \in Nat
  BY DEF Lengths
<1>1. 0 \in G
  <2> DEFINE f == [k \in 0 .. 0 |-> 0]
  <2>1. f \in [0 .. 0 -> Int] /\ Sums(v, 0, f)
    BY SMT DEF Sums
  <2>2. 0 \in 0 .. N
    BY <1>0, SMT
  <2>. QED
    BY <2>1, <2>2
<1>2. ASSUME NEW n \in 1 .. N, n - 1 \in G PROVE n \in G
  <2>0. n \in Nat /\ n >= 1 /\ v[n].len \in Int /\ n \in 0 .. N
    BY <1>0, SMT DEF Lengths
  <2>1. PICK g \in [0 .. n - 1 -> Int] : Sums(v, n - 1, g)
    BY <1>2
  <2> DEFINE f == [k \in 0 .. n |-> IF k = n THEN g[n - 1] + v[n].len ELSE g[k]]
  <2>2. f \in [0 .. n -> Int]
    BY <2>0, <2>1, SMT
  <2>3. \A k \in 0 .. n : f[k] = IF k = 0 THEN 0 ELSE f[k - 1] + v[k].len
    <3>1. \A k \in 0 .. n - 1 : g[k] = IF k = 0 THEN 0 ELSE g[k - 1] + v[k].len
      BY <2>0, <2>1 DEF Sums
    <3>. QED
      BY ONLY <3>1, <2>0, <2>1, SMT
  <2>4. Sums(v, n, f)
    BY <2>2, <2>3, Zenon DEF Sums
  <2>. QED
    BY <2>0, <2>2, <2>4
<1> HIDE DEF G
<1>3. \A n \in 0 .. N : n \in G
  BY <1>0, <1>1, <1>2, UpTo
<1>4. N \in 0 .. N
  BY <1>0, SMT
<1>. QED
  BY <1>3, <1>4 DEF G

\* It is the only one.
LEMMA SumsAgree ==
    ASSUME NEW v, NEW n \in Nat, NEW m \in Nat, m <= n, NEW f, NEW g, Sums(v, n, f), Sums(v, m, g)
    PROVE  \A k \in 0 .. m : f[k] = g[k]
<1> DEFINE G == {k \in 0 .. m : f[k] = g[k]}
<1>0. \A k \in 0 .. n : f[k] = IF k = 0 THEN 0 ELSE f[k - 1] + v[k].len
  BY DEF Sums
<1>1. \A k \in 0 .. m : g[k] = IF k = 0 THEN 0 ELSE g[k - 1] + v[k].len
  BY DEF Sums
<1>2. 0 \in G
  <2>1. 0 \in 0 .. m /\ 0 \in 0 .. n
    BY SMT
  <2>. QED
    BY <1>0, <1>1, <2>1
<1>3. ASSUME NEW k \in 1 .. m, k - 1 \in G PROVE k \in G
  <2>1. k \in 0 .. m /\ k \in 0 .. n /\ k # 0
    BY SMT
  <2>2. f[k] = f[k - 1] + v[k].len /\ g[k] = g[k - 1] + v[k].len /\ f[k - 1] = g[k - 1]
    BY <1>0, <1>1, <1>3, <2>1
  <2>. QED
    BY <2>1, <2>2
<1> HIDE DEF G
<1>4. \A k \in 0 .. m : k \in G
  BY <1>2, <1>3, UpTo
<1>. QED
  BY <1>4 DEF G

\* The function that defines DataUpTo.
SumFcn(v, n) == CHOOSE f : Sums(v, n, f)

\* DataUpTo(v, n) is the last value of that function.
LEMMA DataUpToIs == ASSUME NEW v, NEW n PROVE DataUpTo(v, n) = SumFcn(v, n)[n]
BY DEF DataUpTo, Sums, SumFcn

\* Adding up piece by piece.
LEMMA DataUpToStep ==
    ASSUME NEW v, NEW N, Lengths(v, N)
    PROVE  /\ DataUpTo(v, 0) = 0
           /\ \A n \in 1 .. N : DataUpTo(v, n) = DataUpTo(v, n - 1) + v[n].len
           /\ \A n \in 0 .. N : DataUpTo(v, n) \in Int
<1>0. N \in Nat
  BY DEF Lengths
<1>1. ASSUME NEW n \in 0 .. N PROVE Sums(v, n, SumFcn(v, n))
  <2>1. Lengths(v, n)
    <3>1. n \in Nat /\ \A k \in 1 .. n : k \in 1 .. N
      BY <1>0, SMT
    <3>. QED
      BY <3>1 DEF Lengths
  <2>2. \E f : Sums(v, n, f)
    BY <2>1, SumsExist
  <2>. QED
    BY <2>2, Zenon DEF SumFcn
<1>2. DataUpTo(v, 0) = 0
  <2>1. 0 \in 0 .. N /\ 0 \in 0 .. 0
    BY <1>0, SMT
  <2>2. Sums(v, 0, SumFcn(v, 0))
    BY <1>1, <2>1
  <2>. QED
    BY <2>1, <2>2, DataUpToIs DEF Sums
<1>3. ASSUME NEW n \in 1 .. N PROVE DataUpTo(v, n) = DataUpTo(v, n - 1) + v[n].len
  <2>1. n \in 0 .. N /\ n - 1 \in 0 .. N /\ n \in Nat /\ n - 1 \in Nat /\ n - 1 <= n /\ n # 0
        /\ n \in 0 .. n /\ n - 1 \in 0 .. n - 1
    BY <1>0, SMT
  <2>2. Sums(v, n, SumFcn(v, n)) /\ Sums(v, n - 1, SumFcn(v, n - 1))
    BY <1>1, <2>1
  <2>3. SumFcn(v, n)[n - 1] = SumFcn(v, n - 1)[n - 1]
    BY ONLY <2>1, <2>2, SumsAgree
  <2>4. SumFcn(v, n)[n] = SumFcn(v, n)[n - 1] + v[n].len
    BY ONLY <2>1, <2>2 DEF Sums
  <2>. QED
    BY <2>3, <2>4, DataUpToIs
<1>4. \A n \in 0 .. N : DataUpTo(v, n) \in Int
  <2> DEFINE G == {n \in 0 .. N : DataUpTo(v, n) \in Int}
  <2>1. 0 \in G
    <3>1. 0 \in 0 .. N
      BY <1>0, SMT
    <3>. QED
      BY <1>2, <3>1, SMT
  <2>2. ASSUME NEW n \in 1 .. N, n - 1 \in G PROVE n \in G
    <3>1. n \in 0 .. N /\ v[n].len \in Int
      BY <1>0, SMT DEF Lengths
    <3>. QED
      BY <1>3, <2>2, <3>1, SMT
  <2> HIDE DEF G
  <2>3. \A n \in 0 .. N : n \in G
    BY <1>0, <2>1, <2>2, UpTo
  <2>. QED
    BY <2>3 DEF G
<1>. QED
  BY <1>2, <1>3, <1>4

\* A function on 1 .. n is a sequence of length n.
LEMMA LenIs ==
    ASSUME NEW n \in Nat, NEW S, NEW s \in [1 .. n -> S]
    PROVE  Len(s) = n
<1>1. s \in Seq(S)
  BY SeqDef
<1>2. Len(s) \in Nat /\ DOMAIN s = 1 .. Len(s)
  BY <1>1, LenProperties
<1>3. 1 .. Len(s) = 1 .. n
  BY <1>2
<1>. QED
  BY <1>2, <1>3, SMT

\* Pieces of the same length.
LEMMA EqualPieces ==
    ASSUME NEW v, NEW N \in Nat, NEW c \in Int, \A k \in 1 .. N : v[k].len = c
    PROVE  Lengths(v, N) /\ \A n \in 0 .. N : DataUpTo(v, n) = n * c
<1>0. Lengths(v, N)
  BY DEF Lengths
<1>1. /\ DataUpTo(v, 0) = 0
      /\ \A n \in 1 .. N : DataUpTo(v, n) = DataUpTo(v, n - 1) + v[n].len
  BY <1>0, DataUpToStep
<1> DEFINE G == {n \in 0 .. N : DataUpTo(v, n) = n * c}
<1>2. 0 \in G
  <2>1. 0 \in 0 .. N /\ 0 * c = 0
    BY SMT
  <2>. QED
    BY <1>1, <2>1
<1>3. ASSUME NEW n \in 1 .. N, n - 1 \in G PROVE n \in G
  <2>1. n \in 0 .. N /\ n \in Int
    BY SMT
  <2>2. DataUpTo(v, n) = (n - 1) * c + c
    BY <1>1, <1>3
  <2>3. (n - 1) * c + c = n * c
    BY <2>1, SMT
  <2>. QED
    BY <2>1, <2>2, <2>3
<1> HIDE DEF G
<1>4. \A n \in 0 .. N : n \in G
  BY <1>2, <1>3, UpTo
<1>. QED
  BY <1>0, <1>4 DEF G

\* One piece is changed.
LEMMA OneChanged ==
    ASSUME NEW v, NEW w, NEW N, Lengths(v, N), Lengths(w, N), NEW k \in 1 .. N,
           \A j \in 1 .. N : j # k => w[j].len = v[j].len
    PROVE  /\ DataUpTo(w, N) = DataUpTo(v, N) + w[k].len - v[k].len
           /\ DataUpTo(w, k) = DataUpTo(v, k) + w[k].len - v[k].len
<1>0. N \in Nat
  BY DEF Lengths
<1>1. /\ DataUpTo(v, 0) = 0
      /\ \A n \in 1 .. N : DataUpTo(v, n) = DataUpTo(v, n - 1) + v[n].len
      /\ \A n \in 0 .. N : DataUpTo(v, n) \in Int
  BY DataUpToStep
<1>2. /\ DataUpTo(w, 0) = 0
      /\ \A n \in 1 .. N : DataUpTo(w, n) = DataUpTo(w, n - 1) + w[n].len
      /\ \A n \in 0 .. N : DataUpTo(w, n) \in Int
  BY DataUpToStep
<1>3. k \in Int /\ k >= 1 /\ v[k].len \in Int /\ w[k].len \in Int
  BY <1>0, SMT DEF Lengths
<1> DEFINE Diff(n) == IF n < k THEN 0 ELSE w[k].len - v[k].len
           G == {n \in 0 .. N : DataUpTo(w, n) = DataUpTo(v, n) + Diff(n)}
<1>4. 0 \in G
  <2>1. 0 \in 0 .. N /\ Diff(0) = 0
    BY <1>0, <1>3, SMT
  <2> HIDE DEF Diff
  <2>. QED
    BY <1>1, <1>2, <2>1, SMT
<1>5. ASSUME NEW n \in 1 .. N, n - 1 \in G PROVE n \in G
  <2>1. n \in 0 .. N /\ n - 1 \in 0 .. N /\ v[n].len \in Int /\ w[n].len \in Int
    BY <1>0, SMT DEF Lengths
  <2>2. Diff(n) = Diff(n - 1) + w[n].len - v[n].len /\ Diff(n - 1) \in Int /\ Diff(n) \in Int
    BY <1>3, <2>1, SMT
  <2> HIDE DEF Diff
  <2>3. DataUpTo(w, n - 1) = DataUpTo(v, n - 1) + Diff(n - 1)
    BY <1>5
  <2>4. DataUpTo(w, n) = DataUpTo(w, n - 1) + w[n].len /\ DataUpTo(v, n) = DataUpTo(v, n - 1) + v[n].len
        /\ DataUpTo(w, n - 1) \in Int /\ DataUpTo(v, n - 1) \in Int
    BY <1>1, <1>2, <2>1
  <2>5. DataUpTo(w, n) = DataUpTo(v, n) + Diff(n)
    BY ONLY <2>1, <2>2, <2>3, <2>4, SMT
  <2>. QED
    BY <2>1, <2>5
<1> HIDE DEF G
<1>6. \A n \in 0 .. N : n \in G
  BY <1>0, <1>4, <1>5, UpTo
<1>7. N \in 0 .. N /\ k \in 0 .. N /\ ~(N < k)
  BY <1>0, SMT
<1>8. /\ DataUpTo(w, N) = DataUpTo(v, N) + (w[k].len - v[k].len)
      /\ DataUpTo(w, k) = DataUpTo(v, k) + (w[k].len - v[k].len)
  BY <1>3, <1>6, <1>7, SMT DEF G
<1>9. DataUpTo(v, N) \in Int /\ DataUpTo(v, k) \in Int
  BY <1>1, <1>7
<1>. QED
  BY ONLY <1>3, <1>8, <1>9, SMT

-----------------------------------------------------------------------------
(* dio-offsets.c keeps to its buffers on every device.                     *)

\* What init_args leaves in the static variables.
Sane(g) ==
    /\ g \in [max_segments : Nat, max_bytes : Nat, dma : Nat, virt : Nat, lbs : Nat,
              dev : Nat, buf_size : Nat]
    /\ g.max_segments \in Nat /\ g.dev \in Nat
    /\ g.lbs \in Nat /\ g.lbs >= 512
    /\ g.dma \in Nat /\ 1 <= g.dma /\ g.dma <= g.lbs
    /\ g.max_bytes \in Nat /\ g.max_bytes % 2 = 0

\* What the tests need to know of the sizes.
Ample(g) ==
    /\ PageSize \in Nat /\ PageSize <= 65536
    /\ g.lbs \in Nat /\ g.lbs >= 512 /\ g.lbs <= 4 * PageSize
    /\ g.dma \in Nat /\ 1 <= g.dma /\ g.dma <= g.lbs /\ g.dma <= PageSize
    /\ g.max_bytes \in Nat /\ g.max_bytes % 2 = 0 /\ g.max_bytes >= 2 * g.lbs
    /\ g.buf_size \in Nat /\ 2 * g.buf_size >= 25 * g.max_bytes
    /\ g.buf_size >= 4096 * g.lbs

Fits(g, v) == v.base = NULL \/ (0 <= v.base /\ 0 <= v.len /\ v.base + v.len <= g.buf_size)
Within(g, t) ==
    /\ \A k \in DOMAIN t.iov : Fits(g, t.iov[k])
    /\ \A k \in DOMAIN t.cmp : Fits(g, t.cmp[k])

-----------------------------------------------------------------------------
(* Sizes.                                                                  *)

\* Rounding up to whole blocks does not make a size smaller.
LEMMA RoundsUp ==
    ASSUME NEW x \in Nat, NEW b \in Nat \ {0}
    PROVE  ((x + b - 1) \div b) * b >= x /\ ((x + b - 1) \div b) * b \in Nat
<1> DEFINE q == (x + b - 1) \div b
<1>1. q \in Int /\ b * q <= x + b - 1 /\ x + b - 1 < b * q + b
  BY SMT
<1>2. b * q = q * b
  BY <1>1, SMT
<1>3. q >= 0
  BY SMT
<1>. QED
  BY <1>1, <1>2, <1>3, SMT

\* Division with remainder.
LEMMA DivMod ==
    ASSUME NEW a \in Nat, NEW b \in Nat, b > 0
    PROVE  a \div b \in Nat /\ a % b = a - b * (a \div b)
<1>1. a \div b \in Nat
  BY SMT
<1>2. a % b = a - b * (a \div b)
  BY SMT
<1>. QED
  BY <1>1, <1>2

\* The powers of two.
Powers == {1, 2, 4, 8, 16, 32, 64, 128, 256, 512, 1024, 2048, 4096, 8192, 16384, 32768, 65536,
           131072, 262144, 524288, 1048576, 2097152, 4194304, 8388608, 16777216, 33554432,
           67108864, 134217728, 268435456, 536870912, 1073741824}

\* A power of two is one of them.
LEMMA PowersOfTwo == ASSUME NEW x, power_of_2(x) PROVE x \in Powers
<1> DEFINE pw(j) == 2 ^ j
<1>1. PICK k \in 0 .. 30 : x = pw(k)
  BY Zenon DEF power_of_2
<1> HIDE DEF pw
<1>2. x \in {pw(0), pw(1), pw(2), pw(3), pw(4), pw(5), pw(6), pw(7), pw(8), pw(9), pw(10),
             pw(11), pw(12), pw(13), pw(14), pw(15), pw(16), pw(17), pw(18), pw(19), pw(20),
             pw(21), pw(22), pw(23), pw(24), pw(25), pw(26), pw(27), pw(28), pw(29), pw(30)}
  BY ONLY <1>1, k \in 0 .. 30, SMT
<1>3. x \in {2 ^ 0, 2 ^ 1, 2 ^ 2, 2 ^ 3, 2 ^ 4, 2 ^ 5, 2 ^ 6, 2 ^ 7, 2 ^ 8, 2 ^ 9, 2 ^ 10,
             2 ^ 11, 2 ^ 12, 2 ^ 13, 2 ^ 14, 2 ^ 15, 2 ^ 16, 2 ^ 17, 2 ^ 18, 2 ^ 19, 2 ^ 20,
             2 ^ 21, 2 ^ 22, 2 ^ 23, 2 ^ 24, 2 ^ 25, 2 ^ 26, 2 ^ 27, 2 ^ 28, 2 ^ 29, 2 ^ 30}
  BY <1>2, SMT DEF pw
<1>. QED
  BY ONLY <1>3, SMT DEF Powers

\* The smaller of two powers of two divides the larger one.
LEMMA PowersDivide ==
    ASSUME NEW x \in Powers, NEW y \in Powers, x <= y
    PROVE  x \in Nat /\ y \in Nat /\ x > 0 /\ \E q \in Nat : y = x * q
<1>1. x \in Nat /\ y \in Nat /\ x > 0
  BY SMT DEF Powers
<1>2. y % x = 0
  BY SMT DEF Powers
<1>3. y \div x \in Nat /\ y % x = y - x * (y \div x)
  BY ONLY <1>1, DivMod
<1>4. \E q \in Nat : q = y \div x
  BY <1>3
<1>5. PICK q \in Nat : q = y \div x
  BY <1>4
<1>6. 0 = y - x * q
  BY <1>2, <1>3, <1>5
<1>7. y = x * q
  BY ONLY <1>1, <1>5, <1>6, q \in Nat, SMT
<1>. QED
  BY <1>1, <1>7

\* A page is a power of two, of at most 64 KiB.
LEMMA PageIs == PageSize \in Nat /\ PageSize <= 65536 /\ PageSize \in Powers
<1> DEFINE pw(j) == 2 ^ j
<1>1. PICK k \in 0 .. 16 : PageSize = pw(k)
  BY DioAssumption, Zenon
<1> HIDE DEF pw
<1>2. PageSize \in {pw(0), pw(1), pw(2), pw(3), pw(4), pw(5), pw(6), pw(7), pw(8), pw(9), pw(10),
                    pw(11), pw(12), pw(13), pw(14), pw(15), pw(16)}
  BY ONLY <1>1, k \in 0 .. 16, SMT
<1>3. PageSize \in {2 ^ 0, 2 ^ 1, 2 ^ 2, 2 ^ 3, 2 ^ 4, 2 ^ 5, 2 ^ 6, 2 ^ 7, 2 ^ 8, 2 ^ 9, 2 ^ 10,
                    2 ^ 11, 2 ^ 12, 2 ^ 13, 2 ^ 14, 2 ^ 15, 2 ^ 16}
  BY <1>2, SMT DEF pw
<1>. QED
  BY ONLY <1>3, SMT DEF Powers

\* What is known of the limits of a device.
LEMMA DioTyped ==
    ASSUME NEW a \in DioArgs
    PROVE  /\ a.segs \in Nat /\ a.kb \in Nat /\ a.dma \in Nat /\ a.virt \in Nat /\ a.dev \in Nat
           /\ a.lbs \in Nat /\ a.lbs > 0 /\ a.lbs % 512 = 0 /\ a.dev % a.lbs = 0
<1>1. a \in [segs : Nat, kb : Nat, dma : Nat, virt : Nat, lbs : Nat, dev : Nat]
  BY DioAssumption, Zenon
<1> DEFINE Block(x) == x % 512
<1>2. a.lbs > 0 /\ Block(a.lbs) = 0 /\ a.dev % a.lbs = 0
  <2> HIDE DEF Block
  <2>1. \A b \in DioArgs : b.lbs > 0 /\ Block(b.lbs) = 0 /\ b.dev % b.lbs = 0
    BY DioAssumption, Zenon DEF Block
  <2>. QED
    BY <2>1
<1>. QED
  BY <1>1, <1>2

\* init_buffers allocates enough: twelve and a half times max_bytes, and 4096 blocks.
LEMMA BuffersAreAmple ==
    ASSUME NEW g, Sane(g), ~TooBig(g), Roomy(g), g.buf_size = BufSize(g)
    PROVE  Ample(g)
<1> DEFINE s == g.max_segments
           mb == g.max_bytes
           l == g.lbs
           product == mb * s
           half == AtLeast(product \div 2, l * 1024 * 4)
           full == ((half + l - 1) \div l) * l
<1>0. /\ s \in Nat /\ mb \in Nat /\ mb % 2 = 0 /\ l \in Nat /\ l >= 512 /\ g.dev \in Nat
      /\ s >= 25 /\ g.dev >= half
  BY SMT DEF Sane, Roomy
<1>1. PICK h \in Nat : mb = 2 * h
  BY <1>0, SMT
<1>2. h * s \in Nat /\ h * s >= 25 * h /\ product = 2 * (h * s)
  BY <1>0, <1>1, SMT
<1>3. product \div 2 = h * s
  BY <1>2, SMT
<1>4. half \in Nat /\ half >= h * s /\ half >= 4096 * l
  BY <1>0, <1>2, <1>3, SMT DEF AtLeast
<1>5. full \in Nat /\ full >= half
  <2> HIDE DEF half
  <2>1. half \in Nat /\ l \in Nat \ {0}
    BY <1>0, <1>4
  <2>. QED
    BY ONLY <2>1, RoundsUp
<1>6. g.buf_size \in Nat /\ g.buf_size >= half
  BY <1>0, <1>4, <1>5, SMT DEF BufSize, AtMost
<1>7. l * s <= h * s
  <2>1. ~(product \div 2 < l * s)
    BY DEF TooBig
  <2>2. l * s \in Nat
    BY <1>0, SMT
  <2>. QED
    BY ONLY <1>2, <1>3, <2>1, <2>2, SMT
<1>8. l <= h
  BY ONLY <1>0, <1>1, <1>7, SMT
<1>. QED
  BY <1>0, <1>1, <1>2, <1>4, <1>6, <1>8, PageIs, SMT DEF Ample, Sane, Roomy

-----------------------------------------------------------------------------
(* The tests.                                                              *)

\* A test that reads back what it wrote compares the ranges it wrote.
LEMMA ReadsBackFits ==
    ASSUME NEW g, NEW vec, \A k \in DOMAIN vec : Fits(g, vec[k])
    PROVE  Within(g, ReadsBack(vec))
BY DEF Within, ReadsBack

\* A test that must fail compares nothing.
LEMMA MustFailFits ==
    ASSUME NEW g, NEW vec, \A k \in DOMAIN vec : Fits(g, vec[k])
    PROVE  Within(g, MustFail(vec))
BY DEF Within, MustFail

\* What a device of byte alignment is spared does not change the ranges.
LEMMA UnlessBytesFits ==
    ASSUME NEW g, NEW vec, \A k \in DOMAIN vec : Fits(g, vec[k])
    PROVE  Within(g, UnlessBytes(g, ReadsBack(vec)))
BY DEF Within, UnlessBytes, ReadsBack

\* The whole buffer, and max_bytes one alignment into it.
LEMMA AlignedFit ==
    ASSUME NEW g, Ample(g)
    PROVE  Within(g, test_full_size_aligned(g)) /\ Within(g, test_dma_aligned(g))
<1>1. Fits(g, V(0, g.buf_size)) /\ Fits(g, V(g.dma, g.max_bytes))
  BY SMT DEF Ample, Fits, V
<1>. QED
  BY <1>1, ReadsBackFits DEF test_full_size_aligned, test_dma_aligned

\* Four vectors some blocks apart.
LEMMA VectorsFit ==
    ASSUME NEW g, Ample(g)
    PROVE  /\ Within(g, test_page_aligned_vectors(g)) /\ Within(g, test_dma_aligned_vectors(g))
           /\ Within(g, test_unaligned_vectors(g)) /\ Within(g, test_invalid_starting_addr(g))
<1>0. /\ g.lbs \in Nat /\ g.dma \in Nat /\ g.dma <= g.lbs /\ g.buf_size \in Nat
      /\ g.buf_size >= 4096 * g.lbs
  BY SMT DEF Ample
<1>1. \A k \in 1 .. 4 : /\ Fits(g, V(g.lbs * (k - 1) * 4, g.lbs * 2))
                        /\ Fits(g, V(g.lbs * (k - 1) * 8 + g.dma * k, g.lbs * 2))
                        /\ Fits(g, V(g.lbs * (k - 1) * 8, g.lbs \div 2))
                        /\ Fits(g, V(g.lbs * (k - 1) * 8, g.lbs))
  BY ONLY <1>0, SMT DEF Fits, V
<1>2. \A n : Fits(g, V(NULL, n))
  BY DEF Fits, V
<1>3. Within(g, test_page_aligned_vectors(g)) /\ Within(g, test_dma_aligned_vectors(g))
  BY <1>1, ReadsBackFits DEF test_page_aligned_vectors, test_dma_aligned_vectors
<1>4. Within(g, test_unaligned_vectors(g))
  BY <1>1 DEF test_unaligned_vectors, ReadsBack, Within
<1>5. Within(g, test_invalid_starting_addr(g))
  BY <1>1, <1>2, MustFailFits DEF test_invalid_starting_addr
<1>. QED
  BY <1>3, <1>4, <1>5

\* A block in every second place, 1024 times.
LEMMA MiddleFits ==
    ASSUME NEW g, Ample(g)
    PROVE  Within(g, test_invalid_middle_addr(g))
<1>0. g.lbs \in Nat /\ g.buf_size \in Nat /\ g.buf_size >= 4096 * g.lbs
  BY SMT DEF Ample
<1> DEFINE I == 1 .. 1024
<1>1. ASSUME NEW k \in I PROVE Fits(g, V(g.lbs * (k - 1) * 2, g.lbs))
  <2>1. (k - 1) \in Nat /\ k - 1 <= 1023
    BY SMT
  <2> DEFINE x == g.lbs * (k - 1)
  <2>2. x \in Nat /\ x <= g.lbs * 1023
    BY ONLY <1>0, <2>1, SMT
  <2> HIDE DEF x
  <2>3. x * 2 \in Int /\ 0 <= x * 2 /\ 0 <= g.lbs /\ x * 2 + g.lbs <= g.buf_size
    BY ONLY <1>0, <2>2, SMT
  <2>4. Fits(g, V(x * 2, g.lbs))
    BY ONLY <2>3 DEF Fits, V
  <2>. QED
    BY <2>4 DEF x
<1>2. \A n : Fits(g, V(NULL, n))
  BY DEF Fits, V
<1> DEFINE base(k) == IF k = 1024 \div 2 + 2 THEN NULL ELSE g.lbs * (k - 1) * 2
           vec == [k \in I |-> V(base(k), g.lbs)]
<1>3. \A k \in I : base(k) = NULL \/ base(k) = g.lbs * (k - 1) * 2
  BY ONLY SMT
<1>4. test_invalid_middle_addr(g) = MustFail(vec)
  BY SMT DEF test_invalid_middle_addr
<1>5. \A k \in DOMAIN vec : Fits(g, vec[k])
  <2> HIDE DEF I, base
  <2>1. \A k \in I : Fits(g, V(g.lbs * (k - 1) * 2, g.lbs))
    BY <1>1
  <2>2. DOMAIN vec = I /\ \A k \in I : vec[k] = V(base(k), g.lbs)
    OBVIOUS
  <2> HIDE DEF vec
  <2>3. \A k \in I : Fits(g, V(base(k), g.lbs))
    BY ONLY <1>2, <1>3, <2>1
  <2>. QED
    BY ONLY <2>2, <2>3
<1> HIDE DEF vec
<1>. QED
  BY <1>4, <1>5, MustFailFits

\* Ranges that are not aligned.
LEMMA MisalignedFit ==
    ASSUME NEW g, Ample(g)
    PROVE  /\ Within(g, test_invalid_dma_alignment(g))
           /\ Within(g, test_invalid_dma_vector_alignment(g))
<1>0. /\ g.lbs \in Nat /\ g.dma \in Nat /\ 1 <= g.dma /\ g.dma <= g.lbs /\ g.buf_size \in Nat
      /\ g.buf_size >= 4096 * g.lbs /\ g.max_bytes \in Nat /\ g.max_bytes >= 2 * g.lbs
      /\ 2 * g.buf_size >= 25 * g.max_bytes
  BY SMT DEF Ample
<1>1. Fits(g, V(2 * g.dma - 1, g.lbs * 256))
  BY ONLY <1>0, SMT DEF Fits, V
<1>2. \A k \in 1 .. 5 : Fits(g, V(g.max_bytes * 2 * (k - 1) + (IF k = 3 THEN g.dma * 2 - 1 ELSE 0),
                                  g.max_bytes))
  BY ONLY <1>0, SMT DEF Fits, V
<1>. QED
  BY <1>1, <1>2, UnlessBytesFits DEF test_invalid_dma_alignment, test_invalid_dma_vector_alignment

\* The vector that ends at a page, and the blocks behind it.
LEMMA UnalignedPageFits ==
    ASSUME NEW g, Ample(g)
    PROVE  Within(g, test_unaligned_page_vectors(g))
<1> DEFINE l == g.lbs
           mult == AtLeast(PageSize \div l, 2)
           quarter == PageSize - l \div 4
           start == IF quarter % g.dma # 0 THEN PageSize - g.dma ELSE quarter
           first == V(start, PageSize - start)
           whole(i) == V(l * i * 8 * mult, l * mult)
           last == [whole(3) EXCEPT !.len = @ - first.len]
<1>0. /\ l \in Nat /\ l >= 512 /\ g.dma \in Nat /\ 1 <= g.dma /\ g.dma <= l /\ g.buf_size \in Nat
      /\ g.buf_size >= 4096 * l /\ PageSize \in Nat /\ PageSize <= 65536 /\ l <= 4 * PageSize
      /\ g.dma <= PageSize
  BY SMT DEF Ample
<1>1. mult \in Nat /\ mult >= 2 /\ mult <= 128
  <2>1. PageSize \div l \in Nat /\ PageSize \div l <= 128
    BY ONLY <1>0, SMT
  <2>. QED
    BY ONLY <2>1, SMT DEF AtLeast
<1>2. l * mult \in Nat /\ l * mult >= 2 * l /\ l * mult <= 128 * l
  BY ONLY <1>0, <1>1, SMT
<1>3. start \in Nat /\ start <= PageSize /\ PageSize - start <= l
  BY ONLY <1>0, SMT
<1> HIDE DEF mult, start
<1>4. Fits(g, first)
  BY ONLY <1>0, <1>3, SMT DEF Fits, V
<1>5. l * 1 * 8 * mult = 8 * (l * mult) /\ l * 2 * 8 * mult = 16 * (l * mult)
      /\ l * 3 * 8 * mult = 24 * (l * mult)
  BY ONLY <1>0, <1>1, SMT
<1>6. Fits(g, whole(1)) /\ Fits(g, whole(2))
  BY ONLY <1>0, <1>2, <1>5, SMT DEF Fits, V
<1>7. Fits(g, last)
  <2>1. last.base = l * 3 * 8 * mult /\ last.len = l * mult - (PageSize - start)
    BY DEF V
  <2>. QED
    BY ONLY <1>0, <1>2, <1>3, <1>5, <2>1, SMT DEF Fits
<1> DEFINE vec == <<first, whole(1), whole(2), last>>
<1>8. \A k \in DOMAIN vec : Fits(g, vec[k])
  <2> HIDE DEF first, whole, last
  <2>. QED
    BY <1>4, <1>6, <1>7
<1>9. test_unaligned_page_vectors(g) = [ReadsBack(vec) EXCEPT !.tolerate = TRUE]
  BY DEF test_unaligned_page_vectors, mult, start
<1> HIDE DEF vec
<1>. QED
  BY <1>8, <1>9 DEF ReadsBack, Within

\* 320 small vectors, and the half blocks that are compared.
LEMMA MaxVectorFits ==
    ASSUME NEW g, Ample(g)
    PROVE  Within(g, test_max_vector_limits(g))
<1> DEFINE l == g.lbs
           size == l \div (l \div g.dma)
           part(len) == [k \in 1 .. 320 |-> V((k - 1) * size * 2, len)]
<1>0. /\ l \in Nat /\ l >= 512 /\ g.dma \in Nat /\ 1 <= g.dma /\ g.dma <= l /\ g.buf_size \in Nat
      /\ g.buf_size >= 4096 * l
  BY SMT DEF Ample
<1>1. l \div g.dma \in Nat /\ l \div g.dma >= 1
  BY ONLY <1>0, SMT
<1>2. size \in Nat /\ size <= l
  BY ONLY <1>0, <1>1, SMT
<1> HIDE DEF size
<1>3. ASSUME NEW k \in 1 .. 320, NEW n \in Nat, n <= l PROVE Fits(g, V((k - 1) * size * 2, n))
  <2>1. k - 1 \in Nat /\ k - 1 <= 319
    BY SMT
  <2>2. (k - 1) * size \in Nat /\ (k - 1) * size <= 319 * l
    BY ONLY <1>0, <1>2, <2>1, SMT
  <2>. QED
    BY ONLY <1>0, <1>3, <2>2, SMT DEF Fits, V
<1>4. l \div 2 \in Nat /\ l \div 2 <= l
  BY ONLY <1>0, SMT
<1>5. ASSUME NEW n \in Nat, n <= l PROVE \A k \in DOMAIN part(n) : Fits(g, part(n)[k])
  <2>1. \A k \in 1 .. 320 : Fits(g, V((k - 1) * size * 2, n))
    BY <1>3, <1>5
  <2>2. DOMAIN part(n) = 1 .. 320 /\ \A k \in 1 .. 320 : part(n)[k] = V((k - 1) * size * 2, n)
    BY SMT
  <2> DEFINE I == 1 .. 320
             v == part(n)
  <2>3. DOMAIN v = I /\ \A k \in I : Fits(g, v[k])
    BY <2>1, <2>2
  <2> HIDE DEF I, v
  <2>4. \A k \in DOMAIN v : Fits(g, v[k])
    BY <2>3
  <2>. QED
    BY <2>4 DEF v
<1>6. /\ test_max_vector_limits(g).iov = part(size)
      /\ test_max_vector_limits(g).cmp = part(l \div 2)
  BY SMT DEF test_max_vector_limits, ReadsBack, size
<1> HIDE DEF part
<1>. QED
  BY <1>2, <1>4, <1>5, <1>6 DEF Within

\* Ranges around the largest request.
LEMMA LargeFit ==
    ASSUME NEW g, Ample(g)
    PROVE  /\ Within(g, test_invalid_dma_vector_alignment_large(g))
           /\ Within(g, test_invalid_dma_vector_length(g))
<1> DEFINE mb == g.max_bytes
           l == g.lbs
           half == mb \div 2
           second == mb + l
           large == <<V(0, mb - l), V(second, l), V(second + PageSize * 2 + (g.dma - 1), l),
                      V(mb * 8, l)>>
           length == <<V(0, mb * 2 - half), V(mb * 4, l * 2 - (g.dma + 1)),
                       V(mb * 8, l * 2 + (g.dma + 1)), V(mb * 12, mb - half)>>
<1>0. /\ l \in Nat /\ l >= 512 /\ g.dma \in Nat /\ 1 <= g.dma /\ g.dma <= l /\ g.buf_size \in Nat
      /\ g.buf_size >= 4096 * l /\ mb \in Nat /\ mb >= 2 * l /\ mb % 2 = 0
      /\ 2 * g.buf_size >= 25 * mb /\ PageSize \in Nat /\ PageSize <= 65536
  BY SMT DEF Ample
<1>1. half \in Nat /\ 2 * half = mb
  BY ONLY <1>0, SMT
<1> HIDE DEF half
<1>2. /\ Fits(g, V(0, mb - l)) /\ Fits(g, V(second, l)) /\ Fits(g, V(mb * 8, l))
      /\ Fits(g, V(second + PageSize * 2 + (g.dma - 1), l))
  BY ONLY <1>0, SMT DEF Fits, V
<1>3. /\ Fits(g, V(0, mb * 2 - half)) /\ Fits(g, V(mb * 4, l * 2 - (g.dma + 1)))
      /\ Fits(g, V(mb * 8, l * 2 + (g.dma + 1))) /\ Fits(g, V(mb * 12, mb - half))
  BY ONLY <1>0, <1>1, SMT DEF Fits, V
<1>4. (\A k \in DOMAIN large : Fits(g, large[k])) /\ \A k \in DOMAIN length : Fits(g, length[k])
  BY ONLY <1>2, <1>3
<1>5. Within(g, test_invalid_dma_vector_alignment_large(g))
  <2>1. test_invalid_dma_vector_alignment_large(g) = MustFail(large)
    BY DEF test_invalid_dma_vector_alignment_large
  <2> HIDE DEF large
  <2>. QED
    BY <1>4, <2>1, MustFailFits
<1>6. Within(g, test_invalid_dma_vector_length(g))
  <2>1. /\ test_invalid_dma_vector_length(g).iov = length
        /\ test_invalid_dma_vector_length(g).cmp = length
    BY DEF test_invalid_dma_vector_length, UnlessBytes, ReadsBack, half
  <2> HIDE DEF length
  <2>. QED
    BY <1>4, <2>1 DEF Within
<1>. QED
  BY <1>5, <1>6

-----------------------------------------------------------------------------
(* The program.                                                            *)

DioInv ==
    /\ dpc \in {"start", "buffers", "write", "again", "compare", "exit"}
    /\ at \in 1 .. 13
    /\ dpc = "buffers" => Sane(geo)
    /\ dpc \in {"write", "again", "compare"} =>
          Sane(geo) /\ ~TooBig(geo) /\ geo.buf_size = BufSize(geo)

\* The size init_buffers computes does not depend on the size there was.
LEMMA BufferSized ==
    ASSUME NEW g, Sane(g), ~TooBig(g), NEW h, h = [g EXCEPT !.buf_size = BufSize(g)]
    PROVE  Sane(h) /\ ~TooBig(h) /\ h.buf_size = BufSize(h)
<1>1. /\ g.max_segments \in Nat /\ g.max_bytes \in Nat /\ g.lbs \in Nat /\ g.lbs # 0
      /\ g.dev \in Nat
  BY SMT DEF Sane
<1> DEFINE half == AtLeast((g.max_bytes * g.max_segments) \div 2, g.lbs * 1024 * 4)
           full == ((half + g.lbs - 1) \div g.lbs) * g.lbs
<1>2. half \in Nat
  <2>1. g.max_bytes * g.max_segments \in Nat /\ g.lbs * 1024 * 4 \in Nat
    BY ONLY <1>1, SMT
  <2>. QED
    BY ONLY <2>1, SMT DEF AtLeast
<1>3. full \in Nat
  <2> HIDE DEF half
  <2>. QED
    BY ONLY <1>1, <1>2, RoundsUp
<1>4. BufSize(g) \in Nat
  <2> HIDE DEF full
  <2>1. AtMost(full, g.dev) \in Nat
    BY ONLY <1>1, <1>3 DEF AtMost
  <2>. QED
    BY ONLY <2>1 DEF BufSize, full
<1>5. /\ h.max_segments = g.max_segments /\ h.max_bytes = g.max_bytes /\ h.dma = g.dma
      /\ h.virt = g.virt /\ h.lbs = g.lbs /\ h.dev = g.dev /\ h.buf_size = BufSize(g)
      /\ h \in [max_segments : Nat, max_bytes : Nat, dma : Nat, virt : Nat, lbs : Nat,
                dev : Nat, buf_size : Nat]
  BY <1>4 DEF Sane
<1>6. Sane(h)
  BY ONLY <1>5, Sane(g) DEF Sane
<1>7. ~TooBig(h)
  BY ONLY <1>5, ~TooBig(g) DEF TooBig
<1>8. BufSize(h) = BufSize(g)
  BY ONLY <1>5 DEF BufSize
<1>. QED
  BY <1>5, <1>6, <1>7, <1>8

\* The limits init_args computes are sane, whatever they are computed from.
LEMMA LimitsAreSane == \A a \in DioArgs : ~BadParameters(a) => Sane(Limits(a))
<1> SUFFICES ASSUME NEW a \in DioArgs, ~BadParameters(a) PROVE Sane(Limits(a))
  OBVIOUS
<1> DEFINE bytes == AtMost(a.kb * 1024, 16384 * 1024)
           l == a.lbs
<1>1. /\ a.segs \in Nat /\ a.kb \in Nat /\ a.dma \in Nat /\ a.dev \in Nat
      /\ l \in Nat /\ l > 0 /\ l % 512 = 0 /\ a.dma + 1 <= l
  <2>1. ~(a.dma + 1 > l)
    BY DEF BadParameters
  <2>. QED
    BY ONLY <2>1, DioTyped, a \in DioArgs, SMT
<1>2. bytes \in Nat
  BY ONLY <1>1, SMT DEF AtMost
<1>3. AtMost(a.segs, 4096) \in Nat
  BY ONLY <1>1, SMT DEF AtMost
<1>4. PICK m \in Nat : l = 512 * m /\ m >= 1
  BY ONLY <1>1, SMT
<1> HIDE DEF bytes
<1>5. PICK q \in Nat : bytes - (bytes % l) = l * q
  <2>1. bytes \div l \in Nat /\ bytes % l = bytes - l * (bytes \div l)
    BY ONLY <1>1, <1>2, DivMod
  <2>2. l * (bytes \div l) \in Nat
    BY ONLY <1>1, <2>1, SMT
  <2>3. bytes - (bytes % l) = l * (bytes \div l)
    BY ONLY <1>2, <2>1, <2>2, SMT
  <2>. QED
    BY ONLY <2>1, <2>3
<1>6. m * q \in Nat /\ l * q = 2 * (256 * (m * q))
  BY ONLY <1>4, <1>5, SMT
<1>7. l * q \in Nat /\ (l * q) % 2 = 0
  BY ONLY <1>6, SMT
<1>8. /\ Limits(a).max_segments = AtMost(a.segs, 4096) /\ Limits(a).dev = a.dev
      /\ Limits(a).lbs = l /\ Limits(a).dma = a.dma + 1 /\ Limits(a).max_bytes = bytes - (bytes % l)
      /\ Limits(a).virt = a.virt + 1 /\ Limits(a).buf_size = 0
  BY SMT DEF Limits, bytes
<1>9. a.virt \in Nat
  BY DioTyped
<1>10. Limits(a) \in [max_segments : Nat, max_bytes : Nat, dma : Nat, virt : Nat, lbs : Nat,
                      dev : Nat, buf_size : Nat]
  <2>1. a.virt + 1 \in Nat /\ a.dma + 1 \in Nat /\ bytes - (bytes % l) \in Nat
    BY ONLY <1>1, <1>5, <1>7, <1>9, SMT
  <2>. QED
    BY ONLY <1>1, <1>3, <2>1, SMT DEF Limits, bytes
<1>. QED
  BY ONLY <1>1, <1>3, <1>4, <1>5, <1>7, <1>8, <1>10, SMT DEF Sane

\* The program starts before init_args.
LEMMA DioInitial == DioInit => DioInv
BY DEF DioInit, DioInv

\* Every stage of a test keeps what init_args and init_buffers computed.
LEMMA DioStep == DioInv /\ [DioNext]_dioVars => DioInv'
<1> SUFFICES ASSUME DioInv, [DioNext]_dioVars PROVE DioInv'
  OBVIOUS
<1> USE DEF DioInv, DioExit
<1>1. CASE init_args
  BY <1>1, LimitsAreSane DEF init_args
<1>2. CASE init_buffers
  <2>1. CASE ~(~TooBig(geo) /\ geo' = [geo EXCEPT !.buf_size = BufSize(geo)] /\ dpc' = "write")
    BY <1>2, <2>1 DEF init_buffers
  <2>2. CASE ~TooBig(geo) /\ geo' = [geo EXCEPT !.buf_size = BufSize(geo)] /\ dpc' = "write"
    <3>1. dpc = "buffers" /\ Sane(geo) /\ at' = at
      BY <1>2 DEF init_buffers
    <3>2. Sane(geo)' /\ ~TooBig(geo)' /\ geo'.buf_size = BufSize(geo)'
      BY ONLY <2>2, <3>1, BufferSized
    <3>. QED
      BY <2>2, <3>1, <3>2
  <2>. QED
    BY <2>1, <2>2
<1>3. CASE WriteOut
  BY <1>3 DEF WriteOut, NextTest, NTests
<1>4. CASE Again
  BY <1>4 DEF Again
<1>5. CASE compare
  BY <1>5 DEF compare, NextTest, NTests
<1>6. CASE UNCHANGED dioVars
  BY <1>6 DEF dioVars
<1>. QED
  BY <1>1, <1>2, <1>3, <1>4, <1>5, <1>6 DEF DioNext

\* Every test of run_tests keeps to an ample buffer.
LEMMA TestsFit ==
    ASSUME NEW g, Ample(g), NEW i \in 1 .. 13
    PROVE  Within(g, run_tests(g)[i])
<1>1. /\ Within(g, run_tests(g)[1]) /\ Within(g, run_tests(g)[2])
      /\ Within(g, run_tests(g)[3]) /\ Within(g, run_tests(g)[4])
      /\ Within(g, run_tests(g)[5]) /\ Within(g, run_tests(g)[6])
      /\ Within(g, run_tests(g)[7]) /\ Within(g, run_tests(g)[8])
  BY AlignedFit, VectorsFit, UnalignedPageFits, MiddleFits DEF run_tests
<1>2. /\ Within(g, run_tests(g)[9]) /\ Within(g, run_tests(g)[10])
      /\ Within(g, run_tests(g)[11]) /\ Within(g, run_tests(g)[12])
      /\ Within(g, run_tests(g)[13])
  BY MisalignedFit, MaxVectorFits, LargeFit DEF run_tests
<1>. QED
  BY <1>1, <1>2

(***************************************************************************)
(* Every range that a test of dio-offsets.c passes to the kernel or to     *)
(* memcmp lies in the buffer init_buffers allocated, for every page size   *)
(* and for all queue limits the tests are made for.                        *)
(***************************************************************************)
THEOREM DioStaysInBounds == DioSpec => []DioInBounds
<1>1. DioInv => DioInBounds
  <2> SUFFICES ASSUME DioInv, dpc \in {"write", "again", "compare"}, Roomy(geo)
               PROVE  /\ \A k \in DOMAIN Test.iov : Inside(Test.iov[k])
                      /\ \A k \in DOMAIN Test.cmp : Inside(Test.cmp[k])
    BY DEF DioInBounds
  <2>1. Ample(geo)
    BY BuffersAreAmple DEF DioInv
  <2>2. Within(geo, Test)
    BY <2>1, TestsFit DEF Test, DioInv
  <2>. QED
    BY <2>2 DEF Within, Fits, Inside
<1>. QED
  BY <1>1, DioInitial, DioStep, PTL DEF DioSpec

-----------------------------------------------------------------------------
(* What dio-offsets.c reports.                                             *)

Vec(v, n) == n \in Nat /\ n >= 1 /\ v \in [1 .. n -> [base : Int, len : Int]]

\* A vector is a sequence, and Total adds up its lengths.
LEMMA VecIs ==
    ASSUME NEW v, NEW n, Vec(v, n)
    PROVE  /\ Len(v) = n /\ DOMAIN v = 1 .. n /\ Lengths(v, n) /\ Total(v) = DataUpTo(v, n)
           /\ 1 \in DOMAIN v /\ Len(v) \in DOMAIN v
           /\ \A k \in DOMAIN v : v[k].base \in Int /\ v[k].len \in Int
<1>1. n \in Nat /\ n >= 1 /\ v \in [1 .. n -> [base : Int, len : Int]]
  BY DEF Vec
<1>2. Len(v) = n /\ DOMAIN v = 1 .. n
  BY ONLY <1>1, LenIs
<1>3. \A k \in DOMAIN v : v[k].base \in Int /\ v[k].len \in Int
  BY <1>1
<1>4. Lengths(v, n)
  BY <1>1, <1>2, <1>3 DEF Lengths
<1>5. Total(v) = DataUpTo(v, n)
  BY <1>2 DEF Total, DataUpTo
<1>6. 1 \in 1 .. n /\ n \in 1 .. n
  BY ONLY <1>1, SMT
<1>. QED
  BY <1>2, <1>3, <1>4, <1>5, <1>6

\* Multiples and what is left of them.
LEMMA Multiples ==
    ASSUME NEW b \in Nat, b > 0, NEW q \in Int
    PROVE  /\ (b * q) % b = 0 /\ (b * q) \div b = q
           /\ \A r \in Nat : r < b => (b * q + r) % b = r
<1>1. (b * q) % b = 0
  BY SMT
<1>2. (b * q) \div b = q
  BY SMT
<1>3. ASSUME NEW r \in Nat, r < b PROVE (b * q + r) % b = r
  BY <1>3, SMT
<1>. QED
  BY <1>1, <1>2, <1>3

\* Whole blocks add up to whole blocks.
LEMMA SumDivides ==
    ASSUME NEW v, NEW N, Lengths(v, N), NEW l \in Nat, l > 0,
           \A k \in 1 .. N : \E q \in Int : v[k].len = l * q
    PROVE  DataUpTo(v, N) % l = 0
<1>0. N \in Nat
  BY DEF Lengths
<1>1. /\ DataUpTo(v, 0) = 0
      /\ \A n \in 1 .. N : DataUpTo(v, n) = DataUpTo(v, n - 1) + v[n].len
  BY DataUpToStep
<1> DEFINE G == {n \in 0 .. N : \E q \in Int : DataUpTo(v, n) = l * q}
<1>2. 0 \in G
  <2>1. 0 \in 0 .. N /\ 0 \in Int /\ l * 0 = 0
    BY <1>0, SMT
  <2>. QED
    BY <1>1, <2>1
<1>3. ASSUME NEW n \in 1 .. N, n - 1 \in G PROVE n \in G
  <2>1. PICK p \in Int : DataUpTo(v, n - 1) = l * p
    BY <1>3
  <2>2. PICK q \in Int : v[n].len = l * q
    OBVIOUS
  <2>3. n \in 0 .. N
    BY <1>0, SMT
  <2>4. p + q \in Int /\ l * p + l * q = l * (p + q)
    BY ONLY <2>1, <2>2, p \in Int, q \in Int, l \in Nat, SMT
  <2>5. DataUpTo(v, n) = l * (p + q)
    BY <1>1, <2>1, <2>2, <2>4
  <2>. QED
    BY <2>3, <2>4, <2>5
<1> HIDE DEF G
<1>4. \A n \in 0 .. N : n \in G
  BY <1>0, <1>2, <1>3, UpTo
<1>5. N \in 0 .. N
  BY <1>0, SMT
<1>6. PICK q \in Int : DataUpTo(v, N) = l * q
  BY <1>4, <1>5 DEF G
<1>. QED
  BY <1>6, Multiples

\* An aligned vector of whole blocks has to be accepted.
LEMMA AcceptsWhole ==
    ASSUME NEW g, g.dma \in Nat, g.dma > 0, g.lbs \in Nat, g.lbs > 0,
           NEW m \in Nat, g.lbs = g.dma * m, NEW v, NEW n, Vec(v, n),
           \A k \in 1 .. n : /\ v[k].base >= 0 /\ \E q \in Int : v[k].base = g.dma * q
                             /\ \E q \in Int : v[k].len = g.lbs * q
    PROVE  Accepts(g, v)
<1>1. /\ DOMAIN v = 1 .. n /\ Lengths(v, n) /\ Total(v) = DataUpTo(v, n)
      /\ \A k \in 1 .. n : v[k].base \in Int
  BY VecIs
<1>2. Total(v) % g.lbs = 0
  <2>1. \A k \in 1 .. n : \E q \in Int : v[k].len = g.lbs * q
    OBVIOUS
  <2>2. DataUpTo(v, n) % g.lbs = 0
    BY ONLY <1>1, <2>1, g.lbs \in Nat, g.lbs > 0, SumDivides, Zenon
  <2>. QED
    BY <1>1, <2>2
<1>3. ASSUME NEW k \in 1 .. n
      PROVE  v[k].base # NULL /\ v[k].base % g.dma = 0 /\ v[k].len % g.dma = 0 /\ v[k].len % g.lbs = 0
  <2>1. PICK p \in Int : v[k].base = g.dma * p
    OBVIOUS
  <2>2. PICK q \in Int : v[k].len = g.lbs * q
    OBVIOUS
  <2>3. v[k].base % g.dma = 0 /\ v[k].len % g.lbs = 0
    <3>1. (g.dma * p) % g.dma = 0
      BY ONLY g.dma \in Nat, g.dma > 0, p \in Int, Multiples
    <3>2. (g.lbs * q) % g.lbs = 0
      BY ONLY g.lbs \in Nat, g.lbs > 0, q \in Int, Multiples
    <3>. QED
      BY ONLY <2>1, <2>2, <3>1, <3>2
  <2>4. m * q \in Int /\ v[k].len = g.dma * (m * q)
    BY ONLY <2>2, q \in Int, m \in Nat, g.dma \in Nat, g.lbs = g.dma * m, SMT
  <2>5. v[k].len % g.dma = 0
    <3>1. (g.dma * (m * q)) % g.dma = 0
      BY ONLY <2>4, g.dma \in Nat, g.dma > 0, Multiples
    <3>. QED
      BY ONLY <2>4, <3>1
  <2>6. v[k].base # NULL
    <3>1. v[k].base \in Int /\ v[k].base >= 0
      BY <1>1
    <3>. QED
      BY ONLY <3>1, SMT DEF NULL
  <2>. QED
    BY <2>3, <2>5, <2>6
<1>. QED
  BY <1>1, <1>2, <1>3 DEF Accepts, Rejects

\* The sizes are whole multiples of one another.
Whole(g) ==
    /\ \E q \in Nat : g.lbs = g.dma * q
    /\ \E q \in Nat : g.max_bytes = g.lbs * q
    /\ \E q \in Nat : g.dev = g.lbs * q
    /\ g.dma <= PageSize => \E q \in Nat : PageSize = g.dma * q

\* init_args sees to it.
LEMMA LimitsAreWhole ==
    ASSUME NEW a \in DioArgs, ~BadParameters(a)
    PROVE  Whole(Limits(a))
<1> DEFINE bytes == AtMost(a.kb * 1024, 16384 * 1024)
           l == a.lbs
           d == a.dma + 1
<1>0. /\ a.kb \in Nat /\ a.dev \in Nat /\ a.dev % l = 0 /\ l \in Nat /\ l > 0 /\ d \in Nat
  BY DioTyped, SMT
<1>1. power_of_2(d) /\ power_of_2(l) /\ ~(d > l)
  BY DEF BadParameters
<1>2. d \in Powers /\ l \in Powers /\ d <= l
  <2>1. d <= l
    BY ONLY <1>0, <1>1, SMT
  <2>. QED
    BY <1>1, <2>1, PowersOfTwo
<1>3. bytes \in Nat
  BY ONLY <1>0, SMT DEF AtMost
<1>4. /\ Limits(a).dev = a.dev /\ Limits(a).lbs = l /\ Limits(a).dma = d
      /\ Limits(a).max_bytes = bytes - (bytes % l)
  BY SMT DEF Limits
<1> HIDE DEF bytes, d
<1>5. \E q \in Nat : l = d * q
  BY <1>2, PowersDivide
<1>6. d <= PageSize => \E q \in Nat : PageSize = d * q
  <2>1. d \in Powers /\ PageSize \in Powers
    BY <1>2, PageIs
  <2>. QED
    BY ONLY <2>1, PowersDivide
<1>7. \E q \in Nat : bytes - (bytes % l) = l * q
  <2>1. bytes \div l \in Nat /\ bytes % l = bytes - l * (bytes \div l)
    BY ONLY <1>0, <1>3, DivMod
  <2>2. l * (bytes \div l) \in Nat
    BY ONLY <1>0, <2>1, SMT
  <2>3. bytes - (bytes % l) = l * (bytes \div l)
    BY ONLY <1>3, <2>1, <2>2, SMT
  <2>. QED
    BY ONLY <2>1, <2>3
<1>8. \E q \in Nat : a.dev = l * q
  <2>1. a.dev \div l \in Nat /\ a.dev % l = a.dev - l * (a.dev \div l)
    BY ONLY <1>0, DivMod
  <2>2. l * (a.dev \div l) \in Nat
    BY ONLY <1>0, <2>1, SMT
  <2>3. 0 = a.dev - l * (a.dev \div l)
    BY <1>0, <2>1
  <2>4. a.dev = l * (a.dev \div l)
    BY ONLY <1>0, <2>2, <2>3, SMT
  <2>. QED
    BY ONLY <2>1, <2>4
<1>. QED
  BY ONLY <1>4, <1>5, <1>6, <1>7, <1>8 DEF Whole

\* iov_size of test_max_vector_limits.
IovSize(g) == g.lbs \div (g.lbs \div g.dma)

\* The vectors of test_max_vector_limits, and how many there are.
Vectors == 320
LEMMA MaxVectorShape ==
    ASSUME NEW g, Sane(g)
    PROVE  /\ Vec(test_max_vector_limits(g).iov, Vectors) /\ Vec(test_max_vector_limits(g).cmp, Vectors)
           /\ IovSize(g) \in Nat /\ (2 * g.dma <= g.lbs => IovSize(g) <= g.lbs \div 2)
           /\ \A k \in 1 .. Vectors :
                /\ test_max_vector_limits(g).iov[k] = V((k - 1) * IovSize(g) * 2, IovSize(g))
                /\ test_max_vector_limits(g).cmp[k] = V((k - 1) * IovSize(g) * 2, g.lbs \div 2)
<1> DEFINE l == g.lbs
           size == IovSize(g)
           part(len) == [k \in 1 .. Vectors |-> V((k - 1) * size * 2, len)]
<1>0. l \in Nat /\ l >= 512 /\ g.dma \in Nat /\ 1 <= g.dma /\ g.dma <= l
  BY DEF Sane
<1>1. l \div g.dma \in Nat /\ l \div g.dma >= 1 /\ (2 * g.dma <= l => l \div g.dma >= 2)
  BY ONLY <1>0, SMT
<1>2. size \in Nat
  BY ONLY <1>0, <1>1, SMT DEF IovSize
<1>3. 2 * g.dma <= l => size <= l \div 2
  <2> DEFINE q == l \div g.dma
  <2> SUFFICES ASSUME 2 * g.dma <= l PROVE l \div q <= l \div 2
    BY DEF IovSize
  <2>1. q \in Nat /\ q >= 2
    BY <1>1
  <2> HIDE DEF q
  <2>2. l \div q \in Nat /\ q * (l \div q) <= l
    BY ONLY <1>0, <2>1, SMT
  <2> DEFINE e == l \div q
  <2>3. e \in Nat /\ q * e <= l
    BY <2>2
  <2> HIDE DEF e
  <2>4. 2 * e <= q * e /\ q * e \in Nat
    BY ONLY <2>1, <2>3, SMT
  <2>5. e <= l \div 2
    BY ONLY <1>0, <2>3, <2>4, SMT
  <2>. QED
    BY <2>5 DEF e
<1>4. test_max_vector_limits(g).iov = part(size) /\ test_max_vector_limits(g).cmp = part(l \div 2)
  BY SMT DEF test_max_vector_limits, ReadsBack, IovSize, Vectors
<1>5. l \div 2 \in Nat
  BY ONLY <1>0, SMT
<1> HIDE DEF size
<1>6. ASSUME NEW n \in Nat PROVE Vec(part(n), Vectors)
  <2>1. \A k \in 1 .. Vectors : (k - 1) * size * 2 \in Int /\ n \in Int
    BY ONLY <1>2, n \in Nat, SMT
  <2>2. \A k \in 1 .. Vectors : V((k - 1) * size * 2, n) \in [base : Int, len : Int]
    BY ONLY <2>1, SMT DEF V
  <2>. QED
    BY ONLY <2>2, SMT DEF Vec, Vectors
<1>7. \A n : \A k \in 1 .. Vectors : part(n)[k] = V((k - 1) * size * 2, n)
  BY SMT
<1>8. Vec(part(size), Vectors) /\ Vec(part(l \div 2), Vectors)
  <2> HIDE DEF part
  <2>. QED
    BY ONLY <1>2, <1>5, <1>6
<1> HIDE DEF part
<1>9. \A k \in 1 .. Vectors : /\ part(size)[k] = V((k - 1) * size * 2, size)
                          /\ part(l \div 2)[k] = V((k - 1) * size * 2, l \div 2)
  BY ONLY <1>7, SMT
<1> DEFINE t == test_max_vector_limits(g)
<1> HIDE DEF t
<1>10. t.iov = part(size) /\ t.cmp = part(l \div 2)
  BY <1>4 DEF t
<1>11. Vec(t.iov, Vectors) /\ Vec(t.cmp, Vectors)
  BY ONLY <1>8, <1>10
<1>12. \A k \in 1 .. Vectors : /\ t.iov[k] = V((k - 1) * size * 2, size)
                           /\ t.cmp[k] = V((k - 1) * size * 2, l \div 2)
  BY ONLY <1>9, <1>10
<1>. QED
  BY ONLY <1>2, <1>3, <1>11, <1>12 DEF size, t

\* A test that may go on to read compares what it reads.
LEMMA ReadingTests ==
    ASSUME NEW g, Sane(g), NEW i \in 1 .. 13, ~run_tests(g)[i].refuse,
           run_tests(g)[i].again = "read", i # MaxVector
    PROVE  (\E n : Vec(run_tests(g)[i].iov, n)) /\ run_tests(g)[i].cmp = run_tests(g)[i].iov
<1>0. /\ g.lbs \in Nat /\ g.lbs >= 512 /\ g.dma \in Nat /\ 1 <= g.dma /\ g.dma <= g.lbs
      /\ g.max_bytes \in Nat /\ g.buf_size \in Nat /\ PageSize \in Nat
  BY PageIs DEF Sane
<1> DEFINE Reads(t) == (\E n : Vec(t.iov, n)) /\ t.cmp = t.iov
<1>n. 1 \in Nat /\ 1 >= 1 /\ 4 \in Nat /\ 4 >= 1 /\ 5 \in Nat /\ 5 >= 1
  BY SMT
<1>1. Reads(test_full_size_aligned(g)) /\ Reads(test_dma_aligned(g))
  <2>1. Vec(<<V(0, g.buf_size)>>, 1) /\ Vec(<<V(g.dma, g.max_bytes)>>, 1)
    BY ONLY <1>0, SMT DEF Vec, V
  <2>. QED
    BY <2>1 DEF test_full_size_aligned, test_dma_aligned, ReadsBack
<1>2. Reads(test_page_aligned_vectors(g)) /\ Reads(test_dma_aligned_vectors(g))
      /\ Reads(test_unaligned_vectors(g))
  <2>1. \A k \in 1 .. 4 : /\ g.lbs * (k - 1) * 4 \in Int /\ g.lbs * (k - 1) * 8 + g.dma * k \in Int
                          /\ g.lbs * (k - 1) * 8 \in Int /\ g.lbs * 2 \in Int /\ g.lbs \div 2 \in Int
    BY ONLY <1>0, SMT
  <2>2. /\ Vec([k \in 1 .. 4 |-> V(g.lbs * (k - 1) * 4, g.lbs * 2)], 4)
        /\ Vec([k \in 1 .. 4 |-> V(g.lbs * (k - 1) * 8 + g.dma * k, g.lbs * 2)], 4)
        /\ Vec([k \in 1 .. 4 |-> V(g.lbs * (k - 1) * 8, g.lbs \div 2)], 4)
    BY ONLY <1>n, <2>1 DEF Vec, V
  <2>. QED
    BY <2>2 DEF test_page_aligned_vectors, test_dma_aligned_vectors, test_unaligned_vectors, ReadsBack
<1>3. Reads(test_unaligned_page_vectors(g))
  <2> DEFINE mult == AtLeast(PageSize \div g.lbs, 2)
             quarter == PageSize - g.lbs \div 4
             start == IF quarter % g.dma # 0 THEN PageSize - g.dma ELSE quarter
             first == V(start, PageSize - start)
             whole(j) == V(g.lbs * j * 8 * mult, g.lbs * mult)
             last == [whole(3) EXCEPT !.len = @ - first.len]
             vec == <<first, whole(1), whole(2), last>>
             R == [base : Int, len : Int]
  <2>1. mult \in Int
    BY ONLY <1>0, SMT DEF AtLeast
  <2>2. start \in Int
    BY ONLY <1>0, SMT
  <2> HIDE DEF mult, start
  <2>3. first \in R /\ first.len \in Int
    BY ONLY <1>0, <2>2, SMT DEF V
  <2>4. \A j \in 1 .. 3 : whole(j) \in R
    BY ONLY <1>0, <2>1, SMT DEF V
  <2>5. 1 \in 1 .. 3 /\ 2 \in 1 .. 3 /\ 3 \in 1 .. 3
    BY SMT
  <2> HIDE DEF first, whole
  <2>6. last \in R
    BY ONLY <2>3, <2>4, <2>5, SMT
  <2> HIDE DEF last
  <2>7. vec \in [1 .. 4 -> R]
    BY ONLY <2>3, <2>4, <2>5, <2>6, SMT
  <2>8. test_unaligned_page_vectors(g) = [ReadsBack(vec) EXCEPT !.tolerate = TRUE]
    BY DEF test_unaligned_page_vectors, mult, start, first, whole, last
  <2> HIDE DEF vec
  <2>. QED
    BY <1>n, <2>7, <2>8 DEF ReadsBack, Vec
<1>4. Reads(test_invalid_dma_alignment(g))
  <2>1. Vec(<<V(2 * g.dma - 1, g.lbs * 256)>>, 1)
    BY ONLY <1>0, SMT DEF Vec, V
  <2>. QED
    BY <2>1 DEF test_invalid_dma_alignment, UnlessBytes, ReadsBack
<1>5. Reads(test_invalid_dma_vector_alignment(g))
  <2> DEFINE vec == [k \in 1 .. 5 |->
                       V(g.max_bytes * 2 * (k - 1) + (IF k = 3 THEN g.dma * 2 - 1 ELSE 0), g.max_bytes)]
  <2>1. \A k \in 1 .. 5 : /\ g.max_bytes * 2 * (k - 1) + (IF k = 3 THEN g.dma * 2 - 1 ELSE 0) \in Int
                          /\ g.max_bytes \in Int
    BY ONLY <1>0, SMT
  <2>2. Vec(vec, 5)
    BY ONLY <1>n, <2>1 DEF Vec, V
  <2>3. test_invalid_dma_vector_alignment(g) = UnlessBytes(g, ReadsBack(vec))
    BY DEF test_invalid_dma_vector_alignment
  <2> HIDE DEF vec
  <2>. QED
    BY <2>2, <2>3 DEF UnlessBytes, ReadsBack
<1>6. /\ test_invalid_starting_addr(g).refuse /\ test_invalid_middle_addr(g).refuse
      /\ test_invalid_dma_vector_alignment_large(g).refuse
  BY DEF test_invalid_starting_addr, test_invalid_middle_addr,
         test_invalid_dma_vector_alignment_large, MustFail
<1>7. test_invalid_dma_vector_length(g).again = "write"
  BY DEF test_invalid_dma_vector_length, UnlessBytes, ReadsBack
<1> HIDE DEF Reads
<1>8. /\ Reads(run_tests(g)[1]) /\ Reads(run_tests(g)[2]) /\ Reads(run_tests(g)[3])
      /\ Reads(run_tests(g)[4]) /\ Reads(run_tests(g)[5]) /\ Reads(run_tests(g)[6])
      /\ run_tests(g)[7].refuse /\ run_tests(g)[8].refuse
      /\ Reads(run_tests(g)[9]) /\ Reads(run_tests(g)[10])
      /\ run_tests(g)[12].refuse /\ run_tests(g)[13].again # "read"
  BY <1>1, <1>2, <1>3, <1>4, <1>5, <1>6, <1>7 DEF run_tests
<1>9. i \in {1, 2, 3, 4, 5, 6, 7, 8, 9, 10, 12, 13}
  BY SMT DEF MaxVector
<1>10. Reads(run_tests(g)[i])
  BY <1>8, <1>9
<1>. QED
  BY <1>10 DEF Reads

\* A byte that no piece of in_buf has right, and the piece that ends with it.
Missing(x, R) == \A p \in R : ~(p.base <= x /\ x < p.base + p.len)
AtEdge(x, v, R) ==
    /\ v.len > 0
    /\ \/ x = v.base
       \/ x = v.base + v.len - 1 /\ \E p \in R : p.base = v.base /\ p.base + p.len = x

\* The ranges of in_buf that a read with the wrong byte s leaves right.
ReadOf(v, s) ==
    UNION {Without(u, IF Holds(u, s) THEN s ELSE Nothing) : u \in {v[k] : k \in DOMAIN v}}

\* A read that gets a byte wrong.
LEMMA ByteLost ==
    ASSUME NEW v, NEW n, Vec(v, n), NEW j \in DOMAIN v, v[j].len > 0,
           NEW s, s \in {V(v[j].base, 1), V(v[j].base + v[j].len - 1, 1)},
           NEW R, R = ReadOf(v, s)
    PROVE  s.len = 1 /\ s.base \in Int /\ Missing(s.base, R) /\ AtEdge(s.base, v[j], R)
<1>0. \A k \in DOMAIN v : v[k].base \in Int /\ v[k].len \in Int
  BY VecIs
<1>1. /\ s.len = 1 /\ s.base \in Int
      /\ s.base = v[j].base \/ s.base = v[j].base + v[j].len - 1
      /\ v[j].base \in Int /\ v[j].len \in Int /\ v[j].len > 0
  BY <1>0, SMT DEF V
<1>2. Missing(s.base, R)
  <2> SUFFICES ASSUME NEW p \in R PROVE ~(p.base <= s.base /\ s.base < p.base + p.len)
    BY DEF Missing
  <2>1. PICK k \in DOMAIN v : p \in Without(v[k], IF Holds(v[k], s) THEN s ELSE Nothing)
    BY DEF ReadOf
  <2>2. v[k].base \in Int /\ v[k].len \in Int
    BY <1>0
  <2>3. CASE ~Holds(v[k], s)
    <3>1. p = v[k]
      BY <2>1, <2>3, SMT DEF Without, Nothing, V
    <3>. QED
      BY <1>1, <2>3, <3>1 DEF Holds
  <2>4. CASE Holds(v[k], s)
    <3>1. p \in {V(v[k].base, s.base - v[k].base), V(s.base + 1, v[k].base + v[k].len - s.base - 1)}
      BY <1>1, <2>1, <2>4, SMT DEF Without
    <3>. QED
      BY ONLY <1>1, <2>2, <3>1, SMT DEF V
  <2>. QED
    BY <2>3, <2>4
<1>3. ASSUME s.base # v[j].base
      PROVE  \E p \in R : p.base = v[j].base /\ p.base + p.len = s.base
  <2> DEFINE p == V(v[j].base, s.base - v[j].base)
  <2>1. Holds(v[j], s)
    BY ONLY <1>1, <1>3, SMT DEF Holds
  <2>2. p \in Without(v[j], s)
    BY <1>1, SMT DEF Without
  <2>3. p \in R
    BY <2>1, <2>2 DEF ReadOf
  <2>4. p.base = v[j].base /\ p.base + p.len = s.base
    BY ONLY <1>1, SMT DEF V
  <2>. QED
    BY <2>3, <2>4
<1>4. AtEdge(s.base, v[j], R)
  BY <1>1, <1>3 DEF AtEdge
<1>. QED
  BY <1>1, <1>2, <1>4

\* A comparison that reaches as far as the read notices it.
LEMMA LostIsSeen ==
    ASSUME NEW x \in Int, NEW v, NEW r, NEW R, Missing(x, R), AtEdge(x, v, R),
           v.base \in Int, v.len \in Int, r.base = v.base, r.len \in Int, r.len >= v.len
    PROVE  ~Covered(r, R)
<1> SUFFICES ASSUME Covered(r, R) PROVE FALSE
  OBVIOUS
<1>1. v.len > 0 /\ r.len > 0
  BY SMT DEF AtEdge
<1>2. In(r.base, R)
  BY <1>1 DEF Covered
<1>3. x # v.base
  BY <1>2 DEF In, Missing
<1>4. PICK p \in R : p.base = v.base /\ p.base + p.len = x
  BY <1>3 DEF AtEdge
<1>5. r.base < x /\ x < r.base + r.len
  <2>1. x = v.base + v.len - 1
    BY <1>3 DEF AtEdge
  <2>. QED
    BY <1>1, <1>3, <2>1, SMT
<1>6. In(x, R)
  BY <1>1, <1>4, <1>5 DEF Covered
<1>. QED
  BY <1>6 DEF In, Missing

Lost == /\ Test.again = "read" /\ spoilt.len = 1 /\ spoilt.base \in Int
        /\ Missing(spoilt.base, same)
        /\ \E j \in DOMAIN Test.iov : AtEdge(spoilt.base, Test.iov[j], same)

SeenInv ==
    /\ dpc \in {"again", "compare"} => ~Test.refuse
    /\ dpc # "compare" => spoilt = Nothing
    /\ dpc = "compare" /\ spoilt.len # 0 => Lost
    /\ DioCorruptionSeen
    /\ dpc \in {"start", "buffers"} => missed = {}

\* A lost byte fails the comparison, unless it is one that is not compared.
LEMMA LostFails ==
    ASSUME DioInv, SeenInv, dpc = "compare", spoilt.len # 0, Matches
    PROVE  at = MaxVector /\ 2 * geo.dma > geo.lbs
<1>0. /\ Lost /\ ~Test.refuse /\ Sane(geo) /\ at \in 1 .. 13
      /\ geo.lbs \in Nat /\ geo.lbs >= 512 /\ geo.dma \in Nat
  BY DEF SeenInv, DioInv, Sane
<1>1. PICK j \in DOMAIN Test.iov : AtEdge(spoilt.base, Test.iov[j], same)
  BY <1>0 DEF Lost
<1>2. spoilt.base \in Int /\ Missing(spoilt.base, same)
  BY <1>0 DEF Lost
<1>3. \A c \in DOMAIN Test.cmp : Covered(Test.cmp[c], same)
  BY DEF Matches
<1>4. at = MaxVector
  <2> SUFFICES ASSUME at # MaxVector PROVE FALSE
    OBVIOUS
  <2>1. (\E n : Vec(Test.iov, n)) /\ Test.cmp = Test.iov
    BY <1>0, ReadingTests DEF Test, Lost
  <2>2. Test.iov[j].base \in Int /\ Test.iov[j].len \in Int
    BY <2>1, VecIs
  <2>3. Test.iov[j].len >= Test.iov[j].len
    BY <2>2, SMT
  <2>4. ~Covered(Test.iov[j], same)
    BY ONLY <1>1, <1>2, <2>2, <2>3, LostIsSeen
  <2>. QED
    BY <1>3, <2>1, <2>4
<1>5. ~(2 * geo.dma <= geo.lbs)
  <2> SUFFICES ASSUME 2 * geo.dma <= geo.lbs PROVE FALSE
    OBVIOUS
  <2> DEFINE t == test_max_vector_limits(geo)
             size == IovSize(geo)
  <2>1. Test = t
    BY <1>4 DEF Test, run_tests, MaxVector
  <2>2. /\ Vec(t.iov, Vectors) /\ Vec(t.cmp, Vectors) /\ size \in Nat /\ size <= geo.lbs \div 2
        /\ \A k \in 1 .. Vectors : /\ t.iov[k] = V((k - 1) * size * 2, size)
                               /\ t.cmp[k] = V((k - 1) * size * 2, geo.lbs \div 2)
    BY <1>0, MaxVectorShape
  <2> HIDE DEF t, size
  <2>3. DOMAIN t.iov = 1 .. Vectors /\ DOMAIN t.cmp = 1 .. Vectors
    <3>1. Vec(t.iov, Vectors) /\ Vec(t.cmp, Vectors)
      BY <2>2
    <3>. QED
      BY ONLY <3>1, VecIs, Zenon
  <2>4. j \in 1 .. Vectors /\ t.iov[j] = V((j - 1) * size * 2, size)
        /\ t.cmp[j] = V((j - 1) * size * 2, geo.lbs \div 2)
    BY <1>1, <2>1, <2>2, <2>3
  <2>5. /\ t.iov[j].base \in Int /\ t.iov[j].len \in Int /\ t.cmp[j].len \in Int
    BY <2>2, <2>3, <2>4, VecIs
  <2>6. t.cmp[j].base = t.iov[j].base /\ t.cmp[j].len = geo.lbs \div 2 /\ t.iov[j].len = size
    BY ONLY <2>4, SMT DEF V
  <2>7. t.cmp[j].len >= t.iov[j].len
    BY ONLY <2>2, <2>5, <2>6, SMT
  <2>8. ~Covered(t.cmp[j], same)
    BY ONLY <1>1, <1>2, <2>1, <2>5, <2>6, <2>7, LostIsSeen
  <2>. QED
    BY <1>3, <2>1, <2>3, <2>4, <2>8
<1>. QED
  BY <1>0, <1>4, <1>5, SMT

\* Every step keeps to it.
LEMMA SeenStep == DioInv /\ SeenInv /\ [DioNext]_dioVars => SeenInv'
<1> SUFFICES ASSUME DioInv, SeenInv, [DioNext]_dioVars PROVE SeenInv'
  OBVIOUS
<1>0. Nothing.len = 0
  BY DEF Nothing, V
<1>1. CASE init_args
  BY <1>1 DEF init_args, SeenInv, DioExit, DioCorruptionSeen
<1>2. CASE init_buffers
  BY <1>2 DEF init_buffers, SeenInv, DioExit, DioCorruptionSeen
<1>3. CASE WriteOut
  <2>1. /\ geo' = geo /\ spoilt' = spoilt /\ missed' = missed /\ spoilt = Nothing
        /\ dpc = "write" /\ dpc' \in {"write", "exit", "again"}
        /\ (dpc' = "again" => at' = at /\ ~Test.refuse)
    BY <1>3 DEF WriteOut, NextTest, DioExit, SeenInv
  <2>. QED
    BY <2>1 DEF SeenInv, DioCorruptionSeen, Test
<1>4. CASE Again
  <2>0. /\ dpc = "again" /\ geo' = geo /\ at' = at /\ missed' = missed /\ ~Test.refuse
        /\ spoilt = Nothing /\ dpc' \in {"exit", "compare"} /\ Sane(geo) /\ at \in 1 .. 13
    BY <1>4 DEF Again, DioExit, SeenInv, DioInv
  <2>1. Test' = Test
    BY <2>0 DEF Test
  <2>2. DioCorruptionSeen'
    BY <2>0 DEF SeenInv, DioCorruptionSeen
  <2>3. dpc' # "compare" => spoilt' = Nothing
    BY <1>4, <2>0 DEF Again, DioExit
  <2>4. ASSUME dpc' = "compare", spoilt'.len # 0 PROVE Lost'
    <3>1. /\ Test.again = "read" /\ spoilt' \in WrongBytes(Test.iov)
          /\ same' = UNION {Without(v, IF Holds(v, spoilt') THEN spoilt' ELSE Nothing) :
                               v \in {Test.iov[k] : k \in DOMAIN Test.iov}}
      BY <1>0, <1>4, <2>0, <2>4 DEF Again, DioExit
    <3>2. PICK n : Vec(Test.iov, n)
      <4>1. CASE at # MaxVector
        BY <2>0, <3>1, <4>1, ReadingTests DEF Test
      <4>2. CASE at = MaxVector
        <5>1. Test = test_max_vector_limits(geo)
          BY <4>2 DEF Test, run_tests, MaxVector
        <5>. QED
          BY <2>0, <5>1, MaxVectorShape
      <4>. QED
        BY <4>1, <4>2
    <3>3. spoilt' # Nothing
      BY <1>0, <2>4
    <3>4. PICK j \in {1, Len(Test.iov)} :
             /\ Test.iov[j].len > 0
             /\ spoilt' \in {V(Test.iov[j].base, 1), V(Test.iov[j].base + Test.iov[j].len - 1, 1)}
      BY <3>1, <3>3 DEF WrongBytes
    <3>5. j \in DOMAIN Test.iov
      BY <3>2, VecIs
    <3>6. /\ spoilt'.len = 1 /\ spoilt'.base \in Int /\ Missing(spoilt'.base, same')
          /\ AtEdge(spoilt'.base, Test.iov[j], same')
      <4> DEFINE v == Test.iov
                 s == spoilt'
                 R == same'
      <4>1. /\ Vec(v, n) /\ j \in DOMAIN v /\ v[j].len > 0
            /\ s \in {V(v[j].base, 1), V(v[j].base + v[j].len - 1, 1)}
            /\ R = ReadOf(v, s)
        BY ONLY <3>1, <3>2, <3>4, <3>5, Zenon DEF ReadOf
      <4> HIDE DEF v, s, R
      <4>2. s.len = 1 /\ s.base \in Int /\ Missing(s.base, R) /\ AtEdge(s.base, v[j], R)
        BY ONLY <4>1, ByteLost
      <4>. QED
        BY <4>2 DEF v, s, R
    <3>. QED
      BY <2>1, <3>1, <3>5, <3>6 DEF Lost
  <2>. QED
    BY <2>0, <2>1, <2>2, <2>3, <2>4 DEF SeenInv
<1>5. CASE compare
  <2>0. /\ dpc = "compare" /\ geo' = geo /\ spoilt' = Nothing /\ dpc' \in {"exit", "write"}
    BY <1>5 DEF compare, NextTest, DioExit
  <2>1. \/ missed' = missed
        \/ Matches /\ spoilt.len # 0 /\ missed' = missed \cup {at}
    BY <1>5 DEF compare
  <2>2. DioCorruptionSeen'
    <3>1. CASE missed' = missed
      BY <2>0, <3>1 DEF SeenInv, DioCorruptionSeen
    <3>2. CASE Matches /\ spoilt.len # 0 /\ missed' = missed \cup {at}
      <4>1. at = MaxVector /\ 2 * geo.dma > geo.lbs
        BY <2>0, <3>2, LostFails
      <4>2. missed = {} \/ missed = {MaxVector}
        BY DEF SeenInv, DioCorruptionSeen
      <4>. QED
        BY <2>0, <3>2, <4>1, <4>2 DEF DioCorruptionSeen
    <3>. QED
      BY <2>1, <3>1, <3>2
  <2>. QED
    BY <2>0, <2>2 DEF SeenInv
<1>6. CASE UNCHANGED dioVars
  BY <1>6 DEF dioVars, SeenInv, DioCorruptionSeen, Lost, Test
<1>. QED
  BY <1>1, <1>2, <1>3, <1>4, <1>5, <1>6 DEF DioNext

(***************************************************************************)
(* Whatever the device, a wrong byte that dio-offsets.c reads back fails   *)
(* the test that read it, but for the bytes test_max_vector_limits does    *)
(* not look at.                                                            *)
(***************************************************************************)
THEOREM DioSeesCorruption == DioSpec => []DioCorruptionSeen
<1>1. DioInit => SeenInv
  BY DEF DioInit, SeenInv, DioCorruptionSeen
<1>2. SeenInv => DioCorruptionSeen
  BY DEF SeenInv
<1>. QED
  BY <1>1, <1>2, DioInitial, DioStep, SeenStep, PTL DEF DioSpec

\* The buffers are whole blocks.
LEMMA BufferIsWhole ==
    ASSUME NEW g, Sane(g), Whole(g)
    PROVE  \E q \in Int : BufSize(g) = g.lbs * q
<1> DEFINE half == AtLeast((g.max_bytes * g.max_segments) \div 2, g.lbs * 1024 * 4)
           blocks == (half + g.lbs - 1) \div g.lbs
<1>0. g.max_segments \in Nat /\ g.max_bytes \in Nat /\ g.lbs \in Nat /\ g.lbs >= 512
  BY DEF Sane
<1>1. half \in Nat
  <2>1. g.max_bytes * g.max_segments \in Nat /\ g.lbs * 1024 * 4 \in Nat
    BY ONLY <1>0, SMT
  <2>. QED
    BY ONLY <2>1, SMT DEF AtLeast
<1> HIDE DEF half
<1>2. blocks \in Int
  BY ONLY <1>0, <1>1, SMT
<1>3. BufSize(g) = blocks * g.lbs \/ BufSize(g) = g.dev
  BY DEF BufSize, AtMost, half
<1> HIDE DEF blocks
<1>4. blocks * g.lbs = g.lbs * blocks
  BY ONLY <1>0, <1>2, SMT
<1>5. PICK q \in Nat : g.dev = g.lbs * q
  BY DEF Whole
<1>6. q \in Int
  BY SMT
<1>. QED
  BY ONLY <1>2, <1>3, <1>4, <1>5, <1>6

\* What a test on a kernel that follows the rules may not do.
Fair(g, t) ==
    /\ ~t.tolerate => Accepts(g, t.iov)
    /\ t.refuse => Rejects(g, t.iov)

\* A range that is one byte short of aligned is rejected.
LEMMA ShortRejects ==
    ASSUME NEW g, g.dma \in Nat, g.dma > 1, NEW v, NEW k \in DOMAIN v, NEW q \in Int,
           \/ v[k].base = g.dma * q + (g.dma - 1)
           \/ v[k].len = g.dma * q + (g.dma - 1)
    PROVE  Rejects(g, v)
<1>1. g.dma > 0 /\ g.dma - 1 \in Nat /\ g.dma - 1 < g.dma /\ g.dma - 1 # 0
  BY SMT
<1>2. (g.dma * q + (g.dma - 1)) % g.dma = g.dma - 1
  BY ONLY <1>1, g.dma \in Nat, q \in Int, Multiples
<1>. QED
  BY <1>1, <1>2 DEF Rejects

\* The tests that have to succeed.
LEMMA SureTests ==
    ASSUME NEW g, Sane(g), Whole(g), g.buf_size = BufSize(g)
    PROVE  /\ Fair(g, test_full_size_aligned(g)) /\ Fair(g, test_dma_aligned(g))
           /\ Fair(g, test_page_aligned_vectors(g)) /\ Fair(g, test_dma_aligned_vectors(g))
<1>0. /\ g.lbs \in Nat /\ g.lbs > 0 /\ g.dma \in Nat /\ g.dma > 0 /\ g.max_bytes \in Nat
      /\ g.buf_size \in Nat
  BY SMT DEF Sane
<1>1. PICK m \in Nat : g.lbs = g.dma * m
  BY DEF Whole
<1>2. PICK q \in Nat : g.max_bytes = g.lbs * q
  BY DEF Whole
<1>3. PICK p \in Int : g.buf_size = g.lbs * p
  BY BufferIsWhole
<1>n. 1 \in Nat /\ 1 >= 1 /\ 4 \in Nat /\ 4 >= 1 /\ 0 \in Int /\ 1 \in Int /\ 2 \in Int /\ q \in Int
      /\ 0 >= 0 /\ \A k \in 1 .. 1 : k = 1
  BY SMT
<1> DEFINE Good(v, n) == \A k \in 1 .. n : /\ v[k].base >= 0 /\ \E r \in Int : v[k].base = g.dma * r
                                           /\ \E r \in Int : v[k].len = g.lbs * r
<1>4. ASSUME NEW v, NEW n, Vec(v, n), Good(v, n) PROVE Accepts(g, v)
  BY ONLY <1>0, <1>1, <1>4, m \in Nat, AcceptsWhole
<1>5. Accepts(g, <<V(0, g.buf_size)>>)
  <2> DEFINE v == <<V(0, g.buf_size)>>
  <2>1. Vec(v, 1)
    BY ONLY <1>0, SMT DEF Vec, V
  <2>2. v[1].base = 0 /\ v[1].len = g.buf_size
    BY DEF V
  <2>3. 0 = g.dma * 0
    BY ONLY <1>0, SMT
  <2> HIDE DEF v
  <2>4. Good(v, 1)
    BY ONLY <1>n, <1>3, p \in Int, <2>2, <2>3
  <2> HIDE DEF Good
  <2>. QED
    BY <1>4, <2>1, <2>4 DEF v
<1>6. Accepts(g, <<V(g.dma, g.max_bytes)>>)
  <2> DEFINE v == <<V(g.dma, g.max_bytes)>>
  <2>1. Vec(v, 1)
    BY ONLY <1>0, SMT DEF Vec, V
  <2>2. v[1].base = g.dma /\ v[1].len = g.max_bytes
    BY DEF V
  <2>3. g.dma = g.dma * 1 /\ g.dma >= 0
    BY ONLY <1>0, SMT
  <2> HIDE DEF v
  <2>4. Good(v, 1)
    BY ONLY <1>n, <1>2, <2>2, <2>3
  <2> HIDE DEF Good
  <2>. QED
    BY <1>4, <2>1, <2>4 DEF v
<1>7. Accepts(g, [k \in 1 .. 4 |-> V(g.lbs * (k - 1) * 4, g.lbs * 2)])
  <2> DEFINE v == [k \in 1 .. 4 |-> V(g.lbs * (k - 1) * 4, g.lbs * 2)]
  <2>1. \A k \in 1 .. 4 : /\ g.lbs * (k - 1) * 4 \in Int /\ g.lbs * 2 \in Int
                          /\ g.lbs * (k - 1) * 4 >= 0
    BY ONLY <1>0, SMT
  <2>2. Vec(v, 4) /\ \A k \in 1 .. 4 : v[k].base = g.lbs * (k - 1) * 4 /\ v[k].len = g.lbs * 2
    BY ONLY <1>n, <2>1 DEF Vec, V
  <2>3. ASSUME NEW k \in 1 .. 4
        PROVE  \E r \in Int : g.lbs * (k - 1) * 4 = g.dma * r
    <3> DEFINE c == (k - 1) * 4
    <3>1. c \in Int /\ k \in Int /\ m \in Int
      BY SMT
    <3>2. g.lbs * (k - 1) * 4 = g.lbs * c
      BY ONLY <1>0, k \in 1 .. 4, SMT
    <3> HIDE DEF c
    <3>3. m * c \in Int /\ (g.dma * m) * c = g.dma * (m * c)
      BY ONLY <1>0, <3>1, SMT
    <3>. QED
      BY ONLY <1>1, <3>2, <3>3
  <2> HIDE DEF v
  <2>4. Good(v, 4)
    BY ONLY <1>n, <2>1, <2>2, <2>3
  <2> HIDE DEF Good
  <2>. QED
    BY <1>4, <2>2, <2>4 DEF v
<1>8. Accepts(g, [k \in 1 .. 4 |-> V(g.lbs * (k - 1) * 8 + g.dma * k, g.lbs * 2)])
  <2> DEFINE v == [k \in 1 .. 4 |-> V(g.lbs * (k - 1) * 8 + g.dma * k, g.lbs * 2)]
  <2>1. \A k \in 1 .. 4 : /\ g.lbs * (k - 1) * 8 + g.dma * k \in Int /\ g.lbs * 2 \in Int
                          /\ g.lbs * (k - 1) * 8 + g.dma * k >= 0
    BY ONLY <1>0, SMT
  <2>2. Vec(v, 4) /\ \A k \in 1 .. 4 : /\ v[k].base = g.lbs * (k - 1) * 8 + g.dma * k
                                      /\ v[k].len = g.lbs * 2
    BY ONLY <1>n, <2>1 DEF Vec, V
  <2>3. ASSUME NEW k \in 1 .. 4
        PROVE  \E r \in Int : g.lbs * (k - 1) * 8 + g.dma * k = g.dma * r
    <3> DEFINE c == (k - 1) * 8
    <3>1. c \in Int /\ k \in Int /\ m \in Int
      BY SMT
    <3>2. g.lbs * (k - 1) * 8 = g.lbs * c
      BY ONLY <1>0, k \in 1 .. 4, SMT
    <3> HIDE DEF c
    <3>3. m * c + k \in Int /\ (g.dma * m) * c + g.dma * k = g.dma * (m * c + k)
      BY ONLY <1>0, <3>1, SMT
    <3>. QED
      BY ONLY <1>1, <3>2, <3>3
  <2> HIDE DEF v
  <2>4. Good(v, 4)
    BY ONLY <1>n, <2>1, <2>2, <2>3
  <2> HIDE DEF Good
  <2>. QED
    BY <1>4, <2>2, <2>4 DEF v
<1>. QED
  BY <1>5, <1>6, <1>7, <1>8
  DEF Fair, ReadsBack, test_full_size_aligned, test_dma_aligned, test_page_aligned_vectors,
      test_dma_aligned_vectors

\* The tests of vectors that have to be refused, where bytes are not enough.
LEMMA RefusedTests ==
    ASSUME NEW g, Sane(g), Whole(g), g.dma > 1, g.dma <= PageSize
    PROVE  /\ Fair(g, test_invalid_starting_addr(g)) /\ Fair(g, test_invalid_middle_addr(g))
           /\ Fair(g, test_invalid_dma_alignment(g)) /\ Fair(g, test_invalid_dma_vector_alignment(g))
           /\ Fair(g, test_invalid_dma_vector_alignment_large(g))
           /\ Fair(g, test_invalid_dma_vector_length(g)) /\ test_invalid_dma_vector_length(g).refuse
<1>0. g.lbs \in Nat /\ g.dma \in Nat /\ g.max_bytes \in Nat /\ PageSize \in Nat
  BY PageIs DEF Sane
<1>1. PICK m \in Nat : g.lbs = g.dma * m
  BY DEF Whole
<1>2. PICK q \in Nat : g.max_bytes = g.lbs * q
  BY DEF Whole
<1>3. PICK p \in Nat : PageSize = g.dma * p
  BY DEF Whole
<1> DEFINE e == m * q
<1>4. e \in Int /\ g.max_bytes = g.dma * e
  BY ONLY <1>0, <1>1, <1>2, m \in Nat, q \in Nat, SMT
<1> HIDE DEF e
<1>5. Fair(g, test_invalid_starting_addr(g))
  <2> DEFINE v == [k \in 1 .. 4 |-> V(IF k = 1 THEN NULL ELSE g.lbs * (k - 1) * 8, g.lbs)]
  <2>1. 1 \in DOMAIN v /\ v[1].base = NULL
    BY DEF V
  <2>2. test_invalid_starting_addr(g) = MustFail(v)
    BY DEF test_invalid_starting_addr
  <2> HIDE DEF v
  <2>. QED
    BY <2>1, <2>2 DEF Fair, Rejects, MustFail
<1>6. Fair(g, test_invalid_middle_addr(g))
  <2> DEFINE v == [k \in 1 .. 1024 |->
                     V(IF k = 1024 \div 2 + 2 THEN NULL ELSE g.lbs * (k - 1) * 2, g.lbs)]
             j == 1024 \div 2 + 2
  <2>1. j \in DOMAIN v /\ v[j].base = NULL
    BY SMT DEF V
  <2>2. test_invalid_middle_addr(g) = MustFail(v)
    BY SMT DEF test_invalid_middle_addr
  <2> HIDE DEF v, j
  <2>. QED
    BY <2>1, <2>2 DEF Fair, Rejects, MustFail
<1>7. Fair(g, test_invalid_dma_alignment(g))
  <2> DEFINE v == <<V(2 * g.dma - 1, g.lbs * 256)>>
  <2>1. 1 \in DOMAIN v /\ v[1].base = 2 * g.dma - 1
    BY SMT DEF V
  <2>2. 2 * g.dma - 1 = g.dma * 1 + (g.dma - 1) /\ 1 \in Int
    BY ONLY <1>0, SMT
  <2>3. test_invalid_dma_alignment(g) = UnlessBytes(g, ReadsBack(v))
    BY SMT DEF test_invalid_dma_alignment
  <2> HIDE DEF v
  <2>4. Rejects(g, v)
    BY ONLY <1>0, g.dma > 1, <2>1, <2>2, ShortRejects
  <2>. QED
    BY <2>3, <2>4 DEF Fair, UnlessBytes, ReadsBack
<1>8. Fair(g, test_invalid_dma_vector_alignment(g))
  <2> DEFINE v == [k \in 1 .. 5 |->
                     V(g.max_bytes * 2 * (k - 1) + (IF k = 3 THEN g.dma * 2 - 1 ELSE 0), g.max_bytes)]
  <2>1. 3 \in DOMAIN v /\ v[3].base = g.max_bytes * 2 * (3 - 1) + (g.dma * 2 - 1)
    BY DEF V
  <2>2. 4 * e + 1 \in Int /\ v[3].base = g.dma * (4 * e + 1) + (g.dma - 1)
    <3> HIDE DEF v
    <3>. QED
      BY ONLY <1>0, <1>4, <2>1, SMT
  <2>3. test_invalid_dma_vector_alignment(g) = UnlessBytes(g, ReadsBack(v))
    BY DEF test_invalid_dma_vector_alignment
  <2> HIDE DEF v
  <2>4. Rejects(g, v)
    BY ONLY <1>0, g.dma > 1, <2>1, <2>2, ShortRejects
  <2>. QED
    BY <2>3, <2>4 DEF Fair, UnlessBytes, ReadsBack
<1>9. Fair(g, test_invalid_dma_vector_alignment_large(g))
  <2> DEFINE second == g.max_bytes + g.lbs
             v == <<V(0, g.max_bytes - g.lbs), V(second, g.lbs),
                    V(second + PageSize * 2 + (g.dma - 1), g.lbs), V(g.max_bytes * 8, g.lbs)>>
  <2>1. 3 \in DOMAIN v /\ v[3].base = g.max_bytes + g.lbs + PageSize * 2 + (g.dma - 1)
    BY DEF V
  <2>2. e + m + 2 * p \in Int /\ v[3].base = g.dma * (e + m + 2 * p) + (g.dma - 1)
    <3> HIDE DEF v
    <3>. QED
      BY ONLY <1>0, <1>1, <1>3, <1>4, m \in Nat, p \in Nat, <2>1, SMT
  <2>3. test_invalid_dma_vector_alignment_large(g) = MustFail(v)
    BY DEF test_invalid_dma_vector_alignment_large
  <2> HIDE DEF v
  <2>4. Rejects(g, v)
    BY ONLY <1>0, g.dma > 1, <2>1, <2>2, ShortRejects
  <2>. QED
    BY <2>3, <2>4 DEF Fair, MustFail
<1>10. Fair(g, test_invalid_dma_vector_length(g)) /\ test_invalid_dma_vector_length(g).refuse
  <2> DEFINE half == g.max_bytes \div 2
             v == <<V(0, g.max_bytes * 2 - half), V(g.max_bytes * 4, g.lbs * 2 - (g.dma + 1)),
                    V(g.max_bytes * 8, g.lbs * 2 + (g.dma + 1)), V(g.max_bytes * 12, g.max_bytes - half)>>
  <2>1. 2 \in DOMAIN v /\ v[2].len = g.lbs * 2 - (g.dma + 1)
    BY DEF V
  <2>2. 2 * m - 2 \in Int /\ v[2].len = g.dma * (2 * m - 2) + (g.dma - 1)
    <3> HIDE DEF v
    <3>. QED
      BY ONLY <1>0, <1>1, m \in Nat, <2>1, SMT
  <2>3. test_invalid_dma_vector_length(g)
          = UnlessBytes(g, [ReadsBack(v) EXCEPT !.clear = FALSE, !.again = "write"])
    BY DEF test_invalid_dma_vector_length
  <2> HIDE DEF v
  <2>4. Rejects(g, v)
    BY ONLY <1>0, g.dma > 1, <2>1, <2>2, ShortRejects
  <2>. QED
    BY <2>3, <2>4 DEF Fair, UnlessBytes, ReadsBack
<1>. QED
  BY <1>5, <1>6, <1>7, <1>8, <1>9, <1>10

\* test_max_vector_limits, for the alignments it knows what to expect of.
LEMMA MaxVectorFair ==
    ASSUME NEW g, Sane(g), Whole(g), Decided(g)
    PROVE  /\ Fair(g, test_max_vector_limits(g))
           /\ ~test_max_vector_limits(g).refuse =>
                /\ test_max_vector_limits(g).again = "read"
                /\ \A k \in 1 .. Vectors :
                     test_max_vector_limits(g).cmp[k].len <= test_max_vector_limits(g).iov[k].len
<1> DEFINE t == test_max_vector_limits(g)
           should_fail == ~(PageSize \div IovSize(g) < 256 /\ IovSize(g) >= g.virt)
<1>0. /\ g.lbs \in Nat /\ g.lbs >= 512 /\ g.lbs > 0 /\ g.dma \in Nat /\ g.dma > 0
      /\ PageSize \in Nat /\ PageSize <= 65536
  BY PageIs, SMT DEF Sane
<1>1. PICK m \in Nat : g.lbs = g.dma * m
  BY DEF Whole
<1>2. IovSize(g) = g.dma
  <2>1. m \in Int /\ m > 0
    BY ONLY <1>0, <1>1, m \in Nat, SMT
  <2>2. (g.dma * m) \div g.dma = m
    BY ONLY <1>0, <2>1, Multiples
  <2>3. (m * g.dma) \div m = g.dma
    BY ONLY <1>0, <2>1, m \in Nat, Multiples, SMT
  <2>4. m * g.dma = g.dma * m
    BY ONLY <1>0, <2>1, SMT
  <2>. QED
    BY ONLY <1>1, <2>2, <2>3, <2>4 DEF IovSize
<1>3. t.tolerate = should_fail /\ t.refuse = should_fail /\ t.again = "read"
  BY SMT DEF test_max_vector_limits, ReadsBack, IovSize
<1>4. /\ Vec(t.iov, Vectors)
      /\ \A k \in 1 .. Vectors : /\ t.iov[k] = V((k - 1) * g.dma * 2, g.dma)
                             /\ t.cmp[k] = V((k - 1) * g.dma * 2, g.lbs \div 2)
  BY <1>2, MaxVectorShape
<1> HIDE DEF t
<1>5. \A k \in 1 .. Vectors : /\ t.iov[k].base = (k - 1) * g.dma * 2 /\ t.iov[k].len = g.dma
                          /\ t.cmp[k].len = g.lbs \div 2
  <2> SUFFICES ASSUME NEW k \in 1 .. Vectors
               PROVE  /\ t.iov[k].base = (k - 1) * g.dma * 2 /\ t.iov[k].len = g.dma
                      /\ t.cmp[k].len = g.lbs \div 2
    OBVIOUS
  <2>1. /\ t.iov[k] = V((k - 1) * g.dma * 2, g.dma)
        /\ t.cmp[k] = V((k - 1) * g.dma * 2, g.lbs \div 2)
    BY <1>4
  <2>. QED
    BY ONLY <2>1, SMT DEF V
<1> DEFINE Good(v, n) == \A k \in 1 .. n : /\ v[k].base >= 0 /\ \E r \in Int : v[k].base = g.dma * r
                                           /\ \E r \in Int : v[k].len = g.lbs * r
<1>8. ASSUME NEW v, NEW n, Vec(v, n), Good(v, n) PROVE Accepts(g, v)
  BY ONLY <1>0, <1>1, <1>8, m \in Nat, AcceptsWhole
<1>9. ASSUME NEW v, NEW n \in Nat, NEW c \in Int, \A k \in 1 .. n : v[k].len = c
      PROVE  DataUpTo(v, n) = n * c
  <2>1. n \in 0 .. n
    BY SMT
  <2>. QED
    BY ONLY <1>9, <2>1, EqualPieces
<1>6. CASE g.dma = g.lbs /\ g.virt <= g.lbs
  <2>1. PageSize \div g.lbs < 256
    BY ONLY <1>0, SMT
  <2>2. g.lbs >= g.virt
    <3>1. g.virt \in Nat
      BY DEF Sane
    <3>. QED
      BY <1>0, <1>6, <3>1, SMT
  <2>3. ~should_fail
    BY <1>2, <1>6, <2>1, <2>2
  <2>4. Accepts(g, t.iov)
    <3>1. ASSUME NEW k \in 1 .. Vectors
          PROVE  /\ t.iov[k].base >= 0 /\ \E q \in Int : t.iov[k].base = g.dma * q
                 /\ \E q \in Int : t.iov[k].len = g.lbs * q
      <4>1. t.iov[k].base = (k - 1) * g.dma * 2 /\ t.iov[k].len = g.lbs
        BY <1>5, <1>6
      <4> DEFINE c == (k - 1) * 2
      <4>2. c \in Nat /\ (k - 1) * g.dma * 2 = g.dma * c /\ c \in Int
        BY ONLY <1>0, k \in 1 .. Vectors, SMT
      <4> HIDE DEF c
      <4>3. g.dma * c >= 0 /\ g.lbs = g.lbs * 1 /\ 1 \in Int
        BY ONLY <1>0, <4>2, SMT
      <4>. QED
        BY ONLY <4>1, <4>2, <4>3
    <3>2. Vec(t.iov, Vectors)
      BY <1>4
    <3>3. Good(t.iov, Vectors)
      BY ONLY <3>1
    <3> HIDE DEF Good
    <3>. QED
      BY ONLY <1>8, <3>2, <3>3
  <2>5. \A k \in 1 .. Vectors : t.cmp[k].len <= t.iov[k].len
    <3>1. g.lbs \div 2 <= g.lbs
      BY ONLY <1>0, SMT
    <3>. QED
      BY ONLY <1>5, <1>6, <3>1
  <2>. QED
    BY <1>3, <2>3, <2>4, <2>5 DEF Fair, t
<1>7. CASE g.dma > 1 /\ PageSize \div g.dma >= 256 /\ (320 * g.dma) % g.lbs # 0
  <2>1. should_fail
    <3>1. PageSize \div g.dma \in Int
      BY ONLY <1>0, SMT
    <3>2. ~(PageSize \div g.dma < 256)
      BY ONLY <1>7, <3>1, SMT
    <3>. QED
      BY <1>2, <3>2
  <2>2. Total(t.iov) = Vectors * g.dma
    <3>1. Vec(t.iov, Vectors) /\ \A k \in 1 .. Vectors : t.iov[k].len = g.dma
      BY <1>4, <1>5
    <3>2. Total(t.iov) = DataUpTo(t.iov, Vectors)
      BY ONLY <3>1, VecIs
    <3>3. Vectors \in Nat /\ g.dma \in Int
      BY <1>0, SMT DEF Vectors
    <3>4. DataUpTo(t.iov, Vectors) = Vectors * g.dma
      <4> DEFINE v == t.iov
                 n == Vectors
                 c == g.dma
      <4>1. n \in Nat /\ c \in Int /\ \A k \in 1 .. n : v[k].len = c
        BY <3>1, <3>3
      <4> HIDE DEF v, n, c
      <4>2. DataUpTo(v, n) = n * c
        BY ONLY <1>9, <4>1
      <4>. QED
        BY <4>2 DEF v, n, c
    <3>. QED
      BY <3>2, <3>4
  <2>3. Rejects(g, t.iov)
    BY <1>7, <2>2 DEF Rejects, Vectors
  <2>. QED
    BY <1>3, <2>1, <2>3 DEF Fair, t
<1>. QED
  BY <1>6, <1>7 DEF Decided

\* Every test is fair to a kernel that follows the rules.
LEMMA TestsAreFair ==
    ASSUME NEW g, Sane(g), Whole(g), g.buf_size = BufSize(g), Roomy(g), Decided(g),
           NEW i \in 1 .. 13
    PROVE  g.dma > 1 /\ Fair(g, run_tests(g)[i])
<1>1. g.dma > 1
  <2>1. g.dma \in Nat /\ g.lbs \in Nat /\ g.lbs >= 512
    BY DEF Sane
  <2>2. g.dma = g.lbs \/ g.dma > 1
    BY DEF Decided
  <2>. QED
    BY ONLY <2>1, <2>2, SMT
<1>2. g.dma <= PageSize
  BY DEF Roomy
<1>3. Fair(g, test_unaligned_page_vectors(g)) /\ Fair(g, test_unaligned_vectors(g))
  BY DEF Fair, test_unaligned_page_vectors, test_unaligned_vectors, ReadsBack
<1>4. /\ Fair(g, run_tests(g)[1]) /\ Fair(g, run_tests(g)[2]) /\ Fair(g, run_tests(g)[3])
      /\ Fair(g, run_tests(g)[4]) /\ Fair(g, run_tests(g)[5]) /\ Fair(g, run_tests(g)[6])
  BY <1>3, SureTests DEF run_tests
<1>5. /\ Fair(g, run_tests(g)[7]) /\ Fair(g, run_tests(g)[8]) /\ Fair(g, run_tests(g)[9])
      /\ Fair(g, run_tests(g)[10]) /\ Fair(g, run_tests(g)[12]) /\ Fair(g, run_tests(g)[13])
  BY <1>1, <1>2, RefusedTests DEF run_tests
<1>6. Fair(g, run_tests(g)[11])
  BY MaxVectorFair DEF run_tests
<1>7. i \in {1, 2, 3, 4, 5, 6, 7, 8, 9, 10, 11, 12, 13}
  BY SMT
<1>8. Fair(g, run_tests(g)[i])
  BY ONLY <1>4, <1>5, <1>6, <1>7
<1>. QED
  BY <1>1, <1>8

\* A test whose write may succeed reads back.
LEMMA ReadsWhatItWrote ==
    ASSUME NEW g, Sane(g), g.dma > 1, NEW i \in 1 .. 13, ~run_tests(g)[i].refuse
    PROVE  run_tests(g)[i].again = "read"
<1> DEFINE Good(t) == t.refuse \/ t.again = "read"
<1>1. /\ Good(test_full_size_aligned(g)) /\ Good(test_dma_aligned(g))
      /\ Good(test_page_aligned_vectors(g)) /\ Good(test_dma_aligned_vectors(g))
      /\ Good(test_unaligned_page_vectors(g)) /\ Good(test_unaligned_vectors(g))
  BY DEF test_full_size_aligned, test_dma_aligned, test_page_aligned_vectors,
         test_dma_aligned_vectors, test_unaligned_page_vectors, test_unaligned_vectors, ReadsBack
<1>2. Good(test_invalid_starting_addr(g))
  BY DEF test_invalid_starting_addr, MustFail
<1>3. Good(test_invalid_middle_addr(g))
  BY SMT DEF test_invalid_middle_addr, MustFail
<1>4. Good(test_invalid_dma_alignment(g))
  BY SMT DEF test_invalid_dma_alignment, UnlessBytes, ReadsBack
<1>5. Good(test_invalid_dma_vector_alignment(g))
  BY DEF test_invalid_dma_vector_alignment, UnlessBytes, ReadsBack
<1>6. Good(test_max_vector_limits(g))
  BY SMT DEF test_max_vector_limits, ReadsBack
<1>7. Good(test_invalid_dma_vector_alignment_large(g))
  BY DEF test_invalid_dma_vector_alignment_large, MustFail
<1>8. Good(test_invalid_dma_vector_length(g))
  BY DEF test_invalid_dma_vector_length, UnlessBytes, ReadsBack
<1> HIDE DEF Good
<1>9. /\ Good(run_tests(g)[1]) /\ Good(run_tests(g)[2]) /\ Good(run_tests(g)[3])
      /\ Good(run_tests(g)[4]) /\ Good(run_tests(g)[5]) /\ Good(run_tests(g)[6])
      /\ Good(run_tests(g)[7]) /\ Good(run_tests(g)[8]) /\ Good(run_tests(g)[9])
      /\ Good(run_tests(g)[10]) /\ Good(run_tests(g)[11]) /\ Good(run_tests(g)[12])
      /\ Good(run_tests(g)[13])
  BY <1>1, <1>2, <1>3, <1>4, <1>5, <1>6, <1>7, <1>8 DEF run_tests
<1>10. i \in {1, 2, 3, 4, 5, 6, 7, 8, 9, 10, 11, 12, 13}
  BY SMT
<1>11. Good(run_tests(g)[i])
  BY ONLY <1>9, <1>10
<1>. QED
  BY <1>11 DEF Good

\* What is compared starts where a vector starts and is no longer than it.
Compares(t) ==
    /\ \A k \in DOMAIN t.iov : t.iov[k].base \in Int /\ t.iov[k].len \in Int
    /\ \A k \in DOMAIN t.cmp : /\ k \in DOMAIN t.iov /\ t.cmp[k].base = t.iov[k].base
                               /\ t.cmp[k].len \in Int /\ t.cmp[k].len <= t.iov[k].len

\* compare looks only at what the test has read.
LEMMA ComparesWhatItRead ==
    ASSUME NEW g, Sane(g), Whole(g), Decided(g), g.dma > 1, NEW i \in 1 .. 13,
           ~run_tests(g)[i].refuse
    PROVE  Compares(run_tests(g)[i])
<1> DEFINE t == run_tests(g)[i]
<1>1. CASE i # MaxVector
  <2>1. t.again = "read"
    BY ReadsWhatItWrote
  <2>2. (\E n : Vec(t.iov, n)) /\ t.cmp = t.iov
    BY <1>1, <2>1, ReadingTests
  <2>3. \A k \in DOMAIN t.iov : t.iov[k].base \in Int /\ t.iov[k].len \in Int
    BY <2>2, VecIs
  <2>4. \A k \in DOMAIN t.iov : t.iov[k].len <= t.iov[k].len
    BY ONLY <2>3, SMT
  <2>. QED
    BY ONLY <2>2, <2>3, <2>4 DEF Compares
<1>2. CASE i = MaxVector
  <2>1. t = test_max_vector_limits(g)
    BY <1>2 DEF run_tests, MaxVector
  <2>2. \A k \in 1 .. Vectors : t.cmp[k].len <= t.iov[k].len
    BY <2>1, MaxVectorFair
  <2>3. /\ Vec(t.iov, Vectors) /\ Vec(t.cmp, Vectors)
        /\ \A k \in 1 .. Vectors : /\ t.iov[k] = V((k - 1) * IovSize(g) * 2, IovSize(g))
                               /\ t.cmp[k] = V((k - 1) * IovSize(g) * 2, g.lbs \div 2)
    BY <2>1, MaxVectorShape
  <2> HIDE DEF t
  <2>4. /\ DOMAIN t.iov = 1 .. Vectors /\ \A k \in DOMAIN t.iov : t.iov[k].base \in Int /\ t.iov[k].len \in Int
        /\ DOMAIN t.cmp = 1 .. Vectors /\ \A k \in DOMAIN t.cmp : t.cmp[k].len \in Int
    <3>1. ASSUME NEW v, NEW n, Vec(v, n)
          PROVE  DOMAIN v = 1 .. n /\ \A k \in DOMAIN v : v[k].base \in Int /\ v[k].len \in Int
      BY <3>1, VecIs
    <3>2. Vec(t.iov, Vectors) /\ Vec(t.cmp, Vectors)
      BY <2>3
    <3>. QED
      BY ONLY <3>1, <3>2
  <2>5. ASSUME NEW k \in 1 .. Vectors PROVE t.cmp[k].base = t.iov[k].base
    <3>1. /\ t.iov[k] = V((k - 1) * IovSize(g) * 2, IovSize(g))
          /\ t.cmp[k] = V((k - 1) * IovSize(g) * 2, g.lbs \div 2)
      BY <2>3
    <3>. QED
      BY ONLY <3>1, SMT DEF V
  <2>6. Compares(t)
    BY ONLY <2>2, <2>4, <2>5 DEF Compares
  <2>. QED
    BY <2>6 DEF t
<1>. QED
  BY <1>1, <1>2

\* A range that one of the pieces has from its start is covered.
LEMMA CoveredByOne ==
    ASSUME NEW R, \A w \in R : w.base \in Int /\ w.len \in Int,
           NEW v \in R, NEW r, r.base = v.base, r.len \in Int, r.len <= v.len
    PROVE  Covered(r, R)
<1> SUFFICES ASSUME r.len > 0
             PROVE  /\ In(r.base, R)
                    /\ \A w \in R : r.base < w.base + w.len /\ w.base + w.len < r.base + r.len
                                       => In(w.base + w.len, R)
  BY DEF Covered
<1>0. v.base \in Int /\ v.len \in Int
  OBVIOUS
<1>1. v.base <= r.base /\ r.base < v.base + v.len
  BY ONLY <1>0, r.base = v.base, r.len \in Int, r.len <= v.len, r.len > 0, SMT
<1>2. ASSUME NEW w \in R, r.base < w.base + w.len, w.base + w.len < r.base + r.len
      PROVE  v.base <= w.base + w.len /\ w.base + w.len < v.base + v.len
  <2>1. w.base \in Int /\ w.len \in Int
    OBVIOUS
  <2>. QED
    BY ONLY <1>0, <1>2, <2>1, r.base = v.base, r.len \in Int, r.len <= v.len, SMT
<1>. QED
  BY <1>1, <1>2 DEF In

FairInv ==
    /\ DioVerdictFair
    /\ dpc # "exit" => verdict = "none"
    /\ dpc \in {"buffers", "write", "again", "compare"} => Whole(geo)
    /\ dpc = "compare" /\ honest /\ Test.again = "read" =>
          same = {Test.iov[k] : k \in DOMAIN Test.iov}

\* An honest device reads back all that was written.
LEMMA HonestRead ==
    ASSUME NEW v
    PROVE  ReadOf(v, Nothing) = {v[k] : k \in DOMAIN v}
<1>1. \A u : Without(u, IF Holds(u, Nothing) THEN Nothing ELSE Nothing) = {u}
  <2>1. Nothing.len = 0
    BY DEF Nothing, V
  <2>. QED
    BY <2>1 DEF Without
<1>. QED
  BY <1>1 DEF ReadOf

\* On an honest device the comparison succeeds.
LEMMA HonestMatches ==
    ASSUME DioInv, SeenInv, FairInv, dpc = "compare", honest, Roomy(geo), Decided(geo)
    PROVE  Matches
<1>1. /\ Sane(geo) /\ Whole(geo) /\ geo.buf_size = BufSize(geo) /\ at \in 1 .. 13 /\ ~Test.refuse
  BY DEF DioInv, SeenInv, FairInv
<1>2. geo.dma > 1
  BY <1>1, TestsAreFair
<1>3. Test.again = "read" /\ Compares(Test)
  BY <1>1, <1>2, ReadsWhatItWrote, ComparesWhatItRead DEF Test
<1> DEFINE t == Test
<1>4. same = {t.iov[k] : k \in DOMAIN t.iov}
  BY <1>3 DEF FairInv
<1>5. Compares(t)
  BY <1>3
<1> HIDE DEF t
<1>6. ASSUME NEW k \in DOMAIN t.cmp PROVE Covered(t.cmp[k], same)
  <2>1. /\ t.iov[k] \in same /\ t.cmp[k].base = t.iov[k].base
        /\ t.cmp[k].len \in Int /\ t.cmp[k].len <= t.iov[k].len
    BY <1>4, <1>5 DEF Compares
  <2>2. \A w \in same : w.base \in Int /\ w.len \in Int
    BY <1>4, <1>5 DEF Compares
  <2>. QED
    BY ONLY <2>1, <2>2, CoveredByOne
<1>. QED
  BY <1>6 DEF Matches, t

\* Every step keeps to it.
LEMMA FairStep == DioInv /\ SeenInv /\ FairInv /\ [DioNext]_dioVars => FairInv'
<1> SUFFICES ASSUME DioInv, SeenInv, FairInv, [DioNext]_dioVars PROVE FairInv'
  OBVIOUS
<1>1. CASE init_args
  BY <1>1, LimitsAreWhole DEF init_args, FairInv, DioExit, DioVerdictFair
<1>2. CASE init_buffers
  <2>1. Whole(geo) /\ dpc = "buffers" /\ dpc' \in {"exit", "write"} /\ verdict = "none"
        /\ verdict' \in {"none", "usage", "setup"} /\ (dpc' # "exit" => verdict' = "none")
    BY <1>2 DEF init_buffers, FairInv, DioExit
  <2>2. dpc' = "write" => geo' = [geo EXCEPT !.buf_size = BufSize(geo)]
    BY <1>2 DEF init_buffers, DioExit
  <2>3. dpc' = "write" => Whole(geo')
    <3> SUFFICES ASSUME dpc' = "write" PROVE Whole(geo')
      OBVIOUS
    <3>1. /\ geo'.lbs = geo.lbs /\ geo'.dma = geo.dma /\ geo'.max_bytes = geo.max_bytes
          /\ geo'.dev = geo.dev
      <4>1. Sane(geo)
        BY <2>1 DEF DioInv
      <4>. QED
        BY <2>2, <4>1 DEF Sane
    <3>. QED
      BY ONLY <2>1, <3>1 DEF Whole
  <2>. QED
    BY <2>1, <2>3 DEF FairInv, DioVerdictFair
<1>3. CASE WriteOut
  <2>0. /\ dpc = "write" /\ geo' = geo /\ honest' = honest /\ Whole(geo) /\ verdict = "none"
        /\ Sane(geo) /\ geo.buf_size = BufSize(geo) /\ at \in 1 .. 13
        /\ dpc' \in {"write", "exit", "again"} /\ (dpc' # "exit" => verdict' = "none")
    BY <1>3 DEF WriteOut, NextTest, DioExit, FairInv, DioInv
  <2>1. ASSUME honest, Roomy(geo), Decided(geo), verdict' \in {"io", "enotsup", "corruption"}
        PROVE  FALSE
    <3>1. Fair(geo, Test)
      BY <2>0, <2>1, TestsAreFair DEF Test
    <3>2. PICK r \in Answers(geo, Test.iov) : \/ r = "error" /\ ~Test.tolerate
                                              \/ r = "ok" /\ Test.refuse
      BY <1>3, <2>0, <2>1 DEF WriteOut, NextTest, DioExit
    <3>3. CASE r = "error" /\ ~Test.tolerate
      <4>1. Accepts(geo, Test.iov) /\ ~Rejects(geo, Test.iov)
        BY <3>1, <3>3 DEF Fair, Accepts
      <4>. QED
        BY <2>1, <3>2, <3>3, <4>1 DEF Answers
    <3>4. CASE r = "ok" /\ Test.refuse
      <4>1. Rejects(geo, Test.iov) /\ ~Accepts(geo, Test.iov)
        BY <3>1, <3>4 DEF Fair, Accepts
      <4>. QED
        BY <2>1, <3>2, <3>4, <4>1 DEF Answers
    <3>. QED
      BY <3>2, <3>3, <3>4
  <2>2. DioVerdictFair'
    BY <2>0, <2>1 DEF DioVerdictFair
  <2>. QED
    BY <2>0, <2>2 DEF FairInv
<1>4. CASE Again
  <2>0. /\ dpc = "again" /\ geo' = geo /\ at' = at /\ honest' = honest /\ Whole(geo)
        /\ verdict = "none" /\ dpc' \in {"exit", "compare"} /\ (dpc' # "exit" => verdict' = "none")
        /\ (honest => verdict' = "none")
    BY <1>4 DEF Again, DioExit, FairInv
  <2>1. Test' = Test
    BY <2>0 DEF Test
  <2>2. DioVerdictFair'
    BY <2>0 DEF DioVerdictFair
  <2>3. ASSUME honest, dpc' = "compare", Test.again = "read"
        PROVE  same' = {Test.iov[k] : k \in DOMAIN Test.iov}
    <3>1. /\ spoilt' \in WrongBytes(Test.iov)
          /\ same' = UNION {Without(v, IF Holds(v, spoilt') THEN spoilt' ELSE Nothing) :
                               v \in {Test.iov[k] : k \in DOMAIN Test.iov}}
      BY <1>4, <2>0, <2>3 DEF Again, DioExit
    <3>2. spoilt' = Nothing
      BY <2>3, <3>1 DEF WrongBytes
    <3>3. same' = ReadOf(Test.iov, Nothing)
      BY <3>1, <3>2 DEF ReadOf
    <3>. QED
      BY <3>3, HonestRead
  <2>. QED
    BY <2>0, <2>1, <2>2, <2>3 DEF FairInv
<1>5. CASE compare
  <2>0. /\ dpc = "compare" /\ geo' = geo /\ honest' = honest /\ Whole(geo) /\ verdict = "none"
        /\ dpc' \in {"exit", "write"} /\ (dpc' # "exit" => verdict' = "none")
        /\ (verdict' \in {"io", "enotsup", "corruption"} => ~Matches)
    BY <1>5 DEF compare, NextTest, DioExit, FairInv
  <2>1. honest /\ Roomy(geo) /\ Decided(geo) => Matches
    BY <2>0, HonestMatches
  <2>2. DioVerdictFair'
    BY <2>0, <2>1 DEF DioVerdictFair
  <2>. QED
    BY <2>0, <2>2 DEF FairInv
<1>6. CASE UNCHANGED dioVars
  BY <1>6 DEF dioVars, FairInv, DioVerdictFair, Test
<1>. QED
  BY <1>1, <1>2, <1>3, <1>4, <1>5, <1>6 DEF DioNext

(***************************************************************************)
(* On a kernel and a device that follow the rules dio-offsets.c never ends *)
(* in an I/O error, a missing refusal or a corruption, for all the limits  *)
(* Roomy and Decided admit.                                                *)
(***************************************************************************)
THEOREM DioVerdict == DioSpec => []DioVerdictFair
<1>1. DioInit => SeenInv /\ FairInv
  BY DEF DioInit, SeenInv, DioCorruptionSeen, FairInv, DioVerdictFair
<1>2. FairInv => DioVerdictFair
  BY DEF FairInv
<1>. QED
  BY <1>1, <1>2, DioInitial, DioStep, SeenStep, FairStep, PTL DEF DioSpec

-----------------------------------------------------------------------------
(* discontiguous-io.cpp.                                                   *)

\* Pieces of a vector, and the length they start with.
Pieces(o) == IF o.scattered THEN o.len \div 4 ELSE 1
Unit(o) == IF o.scattered THEN 4 ELSE o.len
Based(v, o) == \A k \in 1 .. Pieces(o) : v[k].base = IF o.scattered THEN 4 + (k - 1) * 8 ELSE 0

\* What append leaves, and what ReadInput makes of it.
Raw(v, o) ==
    /\ v \in [1 .. Pieces(o) -> [base : Nat, len : Int]] /\ Based(v, o)
    /\ \A k \in 1 .. Pieces(o) : v[k].len = Unit(o)
Filled(v, o) ==
    /\ v \in [1 .. Pieces(o) -> [base : Nat, len : Int]] /\ Based(v, o)
    /\ \A k \in 1 .. Pieces(o) : v[k].len <= Unit(o)
    /\ data_len(v) \in Nat
    /\ data_len(v) # 0 /\ data_len(v) % o.block = 0 /\ o.len % o.block = 0 =>
         data_len(v) <= o.input /\ \A k \in 1 .. Pieces(o) : v[k].len >= 0

\* A multiple of a multiple of 512 is one.
LEMMA Divides ==
    ASSUME NEW a \in Nat, NEW b \in Nat, b >= 512, b % 512 = 0, a % b = 0
    PROVE  a % 512 = 0
<1>1. PICK m \in Nat : b = 512 * m
  BY SMT
<1>2. a \div b \in Nat /\ a % b = a - b * (a \div b)
  BY SMT, DivMod
<1> DEFINE q == a \div b
<1> HIDE DEF q
<1>3. q \in Nat /\ a = b * q
  <2>1. q \in Nat /\ 0 = a - b * q
    BY <1>2 DEF q
  <2>. QED
    BY <2>1, SMT
<1>4. m * q \in Nat /\ a = 512 * (m * q)
  BY ONLY <1>1, <1>3, SMT
<1>. QED
  BY ONLY <1>4, SMT

\* What is known of a command line.
LEMMA SgTyped ==
    ASSUME NEW o \in SgArgs
    PROVE  /\ o.len \in Nat /\ Offs(o) \in Nat /\ o.input \in Nat
           /\ o.block \in Nat /\ o.block >= 512 /\ o.block % 512 = 0
           /\ o.scattered \in BOOLEAN /\ o.write \in BOOLEAN
           /\ Pieces(o) \in Nat /\ Unit(o) \in Nat
<1>1. /\ o.len \in Nat /\ Offs(o) \in Nat /\ o.input \in Nat
      /\ o.scattered \in BOOLEAN /\ o.write \in BOOLEAN
  BY SgAssumption DEF Offs
<1>2. o.block \in Nat \ {0} /\ o.block % 512 = 0
  BY SgAssumption
<1>3. o.block \in Nat /\ o.block >= 512
  BY <1>2, SMT
<1>4. o.len \div 4 \in Nat
  BY <1>1, SMT
<1>5. Pieces(o) \in Nat /\ Unit(o) \in Nat
  BY <1>1, <1>4, SMT DEF Pieces, Unit
<1>. QED
  BY <1>1, <1>2, <1>3, <1>5

\* The bytes in a vector that append left.
LEMMA RawData ==
    ASSUME NEW o \in SgArgs, NEW v, Raw(v, o)
    PROVE  /\ Len(v) = Pieces(o) /\ DOMAIN v = 1 .. Pieces(o) /\ Lengths(v, Pieces(o))
           /\ \A n \in 0 .. Pieces(o) : DataUpTo(v, n) = n * Unit(o)
           /\ data_len(v) = Pieces(o) * Unit(o) /\ data_len(v) \in Nat
<1>0. Pieces(o) \in Nat /\ Unit(o) \in Nat /\ Unit(o) \in Int
  BY SgTyped, SMT
<1>1. Len(v) = Pieces(o) /\ DOMAIN v = 1 .. Pieces(o)
  BY <1>0, LenIs DEF Raw
<1>2. Lengths(v, Pieces(o)) /\ \A n \in 0 .. Pieces(o) : DataUpTo(v, n) = n * Unit(o)
  BY <1>0, EqualPieces DEF Raw
<1>3. Pieces(o) \in 0 .. Pieces(o) /\ Pieces(o) * Unit(o) \in Nat
  BY <1>0, SMT
<1>. QED
  BY <1>1, <1>2, <1>3 DEF data_len

\* append.
LEMMA AppendRaw ==
    ASSUME NEW o \in SgArgs, NEW v,
           v = IF o.scattered
               THEN [k \in 1 .. o.len \div 4 |-> Piece(4 + (k - 1) * 8, 4)]
               ELSE <<Piece(0, o.len)>>
    PROVE  Raw(v, o)
<1>0. o.len \in Nat /\ o.scattered \in BOOLEAN
  BY SgTyped
<1>1. CASE o.scattered
  <2>1. v = [k \in 1 .. o.len \div 4 |-> Piece(4 + (k - 1) * 8, 4)]
    BY <1>1
  <2>2. Pieces(o) = o.len \div 4 /\ Unit(o) = 4
    BY <1>1 DEF Pieces, Unit
  <2>3. \A k \in 1 .. o.len \div 4 : 4 + (k - 1) * 8 \in Nat
    BY <1>0, SMT
  <2>4. \A k \in 1 .. o.len \div 4 : Piece(4 + (k - 1) * 8, 4) \in [base : Nat, len : Int]
    BY <2>3, SMT DEF Piece
  <2>5. v \in [1 .. o.len \div 4 -> [base : Nat, len : Int]]
    BY ONLY <2>1, <2>4, Zenon
  <2>6. \A k \in 1 .. o.len \div 4 : v[k].base = 4 + (k - 1) * 8 /\ v[k].len = 4
    BY ONLY <2>1, SMT DEF Piece
  <2>. QED
    BY ONLY <1>1, <2>2, <2>5, <2>6 DEF Raw, Based
<1>2. CASE ~o.scattered
  <2>1. v = <<Piece(0, o.len)>> /\ Pieces(o) = 1 /\ Unit(o) = o.len
    BY <1>2 DEF Pieces, Unit
  <2>2. v \in [1 .. 1 -> [base : Nat, len : Int]] /\ v[1].base = 0 /\ v[1].len = o.len
    BY ONLY <1>0, <2>1, SMT DEF Piece
  <2>3. \A k \in 1 .. 1 : k = 1
    BY SMT
  <2>. QED
    BY ONLY <1>2, <2>1, <2>2, <2>3 DEF Raw, Based
<1>. QED
  BY <1>0, <1>1, <1>2

\* The whole input was read.
LEMMA InputLasts ==
    ASSUME NEW o \in SgArgs, NEW v, Raw(v, o), {k \in DOMAIN v : DataUpTo(v, k) > o.input} = {}
    PROVE  Filled(v, o)
<1>0. Pieces(o) \in Nat /\ Unit(o) \in Nat /\ o.input \in Nat
  BY SgTyped
<1>1. /\ DOMAIN v = 1 .. Pieces(o) /\ data_len(v) \in Nat /\ Len(v) = Pieces(o)
      /\ data_len(v) = Pieces(o) * Unit(o)
  BY RawData
<1>2. data_len(v) # 0 => data_len(v) <= o.input
  <2> SUFFICES ASSUME data_len(v) # 0 PROVE data_len(v) <= o.input
    OBVIOUS
  <2>1. Pieces(o) # 0
    BY <1>0, <1>1, SMT
  <2>2. Pieces(o) \in DOMAIN v
    BY <1>0, <1>1, <2>1, SMT
  <2>3. ~(data_len(v) > o.input)
    BY <1>1, <2>2 DEF data_len
  <2>. QED
    BY <1>0, <1>1, <2>3, SMT
<1>3. \A k \in 1 .. Pieces(o) : v[k].len <= Unit(o) /\ v[k].len >= 0
  BY <1>0, SMT DEF Raw
<1>. QED
  BY <1>1, <1>2, <1>3 DEF Filled, Raw

\* The input ended in piece k: its length becomes what main takes it to be.
LEMMA InputEnds ==
    ASSUME NEW o \in SgArgs, NEW v, Raw(v, o), NEW k \in 1 .. Pieces(o),
           k * Unit(o) > o.input, (k - 1) * Unit(o) <= o.input,
           NEW n, n = o.input - (k - 1) * Unit(o) - (IF k = 1 THEN 0 ELSE Unit(o)),
           NEW w, w = [v EXCEPT ![k].len = n]
    PROVE  Filled(w, o)
<1>0. /\ Pieces(o) \in Nat /\ Unit(o) \in Nat /\ o.input \in Nat /\ o.len \in Nat /\ o.block \in Nat
      /\ o.block >= 512 /\ o.block % 512 = 0 /\ o.scattered \in BOOLEAN
  BY SgTyped
<1>1. /\ DOMAIN v = 1 .. Pieces(o) /\ Lengths(v, Pieces(o))
      /\ data_len(v) = Pieces(o) * Unit(o) /\ Len(v) = Pieces(o)
  BY RawData
<1> DEFINE m == (k - 1) * Unit(o)
<1>2. k \in Nat /\ k >= 1 /\ k <= Pieces(o) /\ m \in Nat /\ n \in Int
      /\ m <= o.input /\ o.input < m + Unit(o)
      /\ n = o.input - m - (IF k = 1 THEN 0 ELSE Unit(o))
  <2>1. k \in Nat /\ k >= 1 /\ k <= Pieces(o)
    BY <1>0, SMT
  <2>2. m \in Nat /\ k * Unit(o) = m + Unit(o)
    BY ONLY <1>0, <2>1, SMT
  <2> HIDE DEF m
  <2>3. m <= o.input /\ m + Unit(o) > o.input /\ n = o.input - m - (IF k = 1 THEN 0 ELSE Unit(o))
    BY <2>2 DEF m
  <2>. QED
    BY ONLY <1>0, <2>1, <2>2, <2>3, SMT
<1>3. n <= Unit(o) /\ n >= -Unit(o)
  <2> HIDE DEF m
  <2>. QED
    BY ONLY <1>0, <1>2, SMT
<1>4. w \in [1 .. Pieces(o) -> [base : Nat, len : Int]]
  BY <1>2 DEF Raw
<1>5. \A j \in 1 .. Pieces(o) : w[j].base = v[j].base /\ w[j].len = IF j = k THEN n ELSE Unit(o)
  BY <1>2 DEF Raw
<1>6. Based(w, o) /\ \A j \in 1 .. Pieces(o) : w[j].len <= Unit(o)
  <2>1. Based(v, o)
    BY DEF Raw
  <2>2. Based(w, o)
    BY ONLY <1>5, <2>1 DEF Based
  <2>3. Unit(o) <= Unit(o)
    BY <1>0, SMT
  <2>. QED
    BY ONLY <1>3, <1>5, <2>2, <2>3
<1>7. Len(w) = Pieces(o)
  BY <1>0, <1>4, LenIs
<1>8. data_len(w) = Pieces(o) * Unit(o) + n - Unit(o)
  <2>1. Lengths(w, Pieces(o))
    BY <1>0, <1>4 DEF Lengths
  <2>2. v[k].len = Unit(o) /\ w[k].len = n /\ \A j \in 1 .. Pieces(o) : j # k => w[j].len = v[j].len
    BY <1>5 DEF Raw
  <2>3. DataUpTo(w, Pieces(o)) = DataUpTo(v, Pieces(o)) + w[k].len - v[k].len
    BY ONLY <1>1, <2>1, <2>2, k \in 1 .. Pieces(o), OneChanged
  <2>. QED
    BY <1>1, <1>7, <2>2, <2>3 DEF data_len
<1>9. CASE ~o.scattered
  <2>1. Pieces(o) = 1 /\ k = 1
    BY <1>2, <1>9, SMT DEF Pieces
  <2>2. n = o.input
    <3>1. m = 0
      BY <1>0, <2>1, SMT
    <3> HIDE DEF m
    <3>. QED
      BY ONLY <1>0, <1>2, <2>1, <3>1, SMT
  <2>3. data_len(w) = o.input
    BY ONLY <1>0, <1>8, <2>1, <2>2, SMT
  <2>4. \A j \in 1 .. Pieces(o) : w[j].len >= 0
    BY ONLY <1>0, <1>5, <2>2, SMT
  <2>5. data_len(w) \in Nat /\ data_len(w) <= o.input
    BY ONLY <1>0, <2>3, SMT
  <2>. QED
    BY ONLY <1>4, <1>6, <2>4, <2>5 DEF Filled
<1>10. CASE o.scattered
  <2>0. Unit(o) = 4 /\ Pieces(o) = o.len \div 4
    BY <1>10 DEF Unit, Pieces
  <2>1. \/ k = 1 /\ n \in 0 .. 3
        \/ k >= 2 /\ n \in -4 .. -1
    <3>1. k = 1 => m = 0
      BY ONLY <1>0, SMT
    <3> HIDE DEF m
    <3>. QED
      BY ONLY <1>0, <1>2, <2>0, <3>1, SMT
  <2>2. data_len(w) = 4 * Pieces(o) + n - 4
    BY ONLY <1>0, <1>2, <1>8, <2>0, SMT
  <2>3. data_len(w) \in Nat
    <3> HIDE DEF m
    <3>. QED
      BY ONLY <1>0, <1>2, <2>1, <2>2, SMT
  <2>4. ~(data_len(w) # 0 /\ data_len(w) % o.block = 0 /\ o.len % o.block = 0)
    <3> SUFFICES ASSUME data_len(w) % o.block = 0, o.len % o.block = 0 PROVE FALSE
      OBVIOUS
    <3>1. (data_len(w)) % 512 = 0 /\ o.len % 512 = 0
      BY <1>0, <2>3, Divides
    <3>2. 4 * Pieces(o) = o.len
      BY ONLY <1>0, <2>0, <3>1, SMT
    <3>3. n - 4 \in -8 .. -1
      BY <2>1, SMT
    <3>. QED
      BY ONLY <1>0, <2>2, <3>1, <3>2, <3>3, SMT
  <2>. QED
    BY <1>4, <1>6, <2>3, <2>4 DEF Filled
<1>. QED
  BY <1>0, <1>9, <1>10

\* trunc leaves len bytes in a vector of equal pieces, some in the last.
LEMMA TruncExact ==
    ASSUME NEW o \in SgArgs, NEW v, Raw(v, o), NEW len \in Nat, len <= data_len(v), data_len(v) # 0
    PROVE  LET t == trunc(v, len)
           IN  data_len(t) = len /\ (t[Len(t)].len > 0 \/ len = 0)
<1>0. Pieces(o) \in Nat /\ Unit(o) \in Nat
  BY SgTyped
<1>1. /\ DOMAIN v = 1 .. Pieces(o) /\ Len(v) = Pieces(o) /\ Lengths(v, Pieces(o))
      /\ \A n \in 0 .. Pieces(o) : DataUpTo(v, n) = n * Unit(o)
      /\ data_len(v) = Pieces(o) * Unit(o) /\ data_len(v) \in Nat
  BY RawData
<1> DEFINE ends == {k \in DOMAIN v : DataUpTo(v, k) >= len}
           k == CHOOSE j \in ends : \A h \in ends : j <= h
           n == Unit(o) - (k * Unit(o) - len)
           t == [SubSeq(v, 1, k) EXCEPT ![k].len = @ - (DataUpTo(v, k) - len)]
<1>2. Pieces(o) \in ends
  <2>1. Pieces(o) # 0
    BY <1>0, <1>1, SMT
  <2>2. Pieces(o) \in 1 .. Pieces(o)
    BY <1>0, <2>1, SMT
  <2>3. data_len(v) >= len
    BY <1>1, SMT
  <2>. QED
    BY <1>1, <2>2, <2>3 DEF data_len
<1>3. k \in ends /\ \A h \in ends : k <= h
  <2>1. ends \subseteq Nat
    BY <1>0, <1>1, SMT
  <2>2. \E j \in ends : \A h \in ends : j <= h
    BY <1>2, <2>1, Least
  <2>. QED
    BY <2>2, Zenon
<1>4. trunc(v, len) = t
  BY <1>2, Zenon DEF trunc
<1>5. k \in Nat /\ k >= 1 /\ k <= Pieces(o) /\ DataUpTo(v, k) = k * Unit(o) /\ DataUpTo(v, k) >= len
  <2>1. k \in 1 .. Pieces(o) /\ DataUpTo(v, k) >= len
    BY <1>1, <1>3
  <2> HIDE DEF k
  <2>2. k \in Nat /\ k >= 1 /\ k <= Pieces(o) /\ k \in 0 .. Pieces(o)
    BY <1>0, <2>1, SMT
  <2>. QED
    BY <1>1, <2>1, <2>2
<1>6. k = 1 \/ (k - 1) * Unit(o) < len
  <2> SUFFICES ASSUME k # 1 PROVE (k - 1) * Unit(o) < len
    OBVIOUS
  <2>1. k - 1 \notin ends
    <3> HIDE DEF ends
    <3>1. k \in Nat /\ ~(k <= k - 1)
      BY <1>5, SMT
    <3>. QED
      BY <1>3, <3>1
  <2> HIDE DEF k
  <2>2. k - 1 \in 1 .. Pieces(o) /\ k - 1 \in 0 .. Pieces(o)
    BY <1>0, <1>5, SMT
  <2>3. ~((k - 1) * Unit(o) >= len)
    BY <1>1, <2>1, <2>2
  <2>4. (k - 1) * Unit(o) \in Nat
    BY ONLY <1>0, <1>5, <2>2, SMT
  <2>. QED
    BY ONLY <2>3, <2>4, len \in Nat, SMT
<1> HIDE DEF k, ends
<1>7. v \in [1 .. Pieces(o) -> [base : Nat, len : Int]] /\ v \in Seq([base : Nat, len : Int])
      /\ \A j \in 1 .. Pieces(o) : v[j].len = Unit(o)
  <2>1. v \in [1 .. Pieces(o) -> [base : Nat, len : Int]]
        /\ \A j \in 1 .. Pieces(o) : v[j].len = Unit(o)
    BY DEF Raw
  <2>2. Pieces(o) \in Nat
    BY <1>0
  <2>3. v \in Seq([base : Nat, len : Int])
    BY ONLY <2>1, <2>2, SeqDef, ZenonT(30)
  <2>. QED
    BY ONLY <2>1, <2>3
<1>8. /\ SubSeq(v, 1, k) \in [1 .. k -> [base : Nat, len : Int]]
      /\ \A j \in 1 .. k : SubSeq(v, 1, k)[j] = v[j]
  <2>1. 1 \in Int /\ k \in Int /\ 1 <= k /\ k - 1 + 1 = k /\ \A j \in 1 .. k : 1 + j - 1 = j /\ j \in 1 .. Pieces(o)
    BY ONLY <1>0, <1>5, SMT
  <2>2. \A j \in 1 .. k : v[j] \in [base : Nat, len : Int]
    BY ONLY <1>7, <2>1
  <2> DEFINE u == SubSeq(v, 1, k)
  <2>3. /\ u \in Seq([base : Nat, len : Int])
        /\ Len(u) = IF 1 <= k THEN k - 1 + 1 ELSE 0
        /\ \A j \in 1 .. k - 1 + 1 : u[j] = v[1 + j - 1]
    BY ONLY <2>1, <2>2, SubSeqProperties
  <2> HIDE DEF u
  <2>4. u \in [1 .. Len(u) -> [base : Nat, len : Int]]
    BY ONLY <2>3, LenProperties
  <2>5. u \in [1 .. k -> [base : Nat, len : Int]] /\ \A j \in 1 .. k : u[j] = v[j]
    BY ONLY <2>1, <2>3, <2>4
  <2>. QED
    BY <2>5 DEF u
<1>9. n \in Int /\ k \in 1 .. k /\ k \in 1 .. Pieces(o) /\ DataUpTo(v, k) - len = k * Unit(o) - len
  <2>1. k * Unit(o) \in Nat
    BY ONLY <1>0, <1>5, SMT
  <2>. QED
    BY ONLY <1>0, <1>5, <2>1, len \in Nat, SMT
<1>10. /\ t \in [1 .. k -> [base : Nat, len : Int]]
       /\ t[k].len = n
       /\ \A j \in 1 .. k : j # k => t[j].len = v[j].len
  <2> DEFINE u == SubSeq(v, 1, k)
  <2>1. u \in [1 .. k -> [base : Nat, len : Int]] /\ (\A j \in 1 .. k : u[j] = v[j]) /\ u[k].len = Unit(o)
    BY <1>7, <1>8, <1>9
  <2>2. t = [u EXCEPT ![k].len = @ - (k * Unit(o) - len)]
    BY <1>9
  <2> HIDE DEF u, t
  <2>3. u[k].len - (k * Unit(o) - len) = n
    BY <2>1
  <2> HIDE DEF n
  <2>4. t = [u EXCEPT ![k] = [u[k] EXCEPT !.len = n]]
    BY ONLY <2>2, <2>3, Zenon
  <2>5. [u[k] EXCEPT !.len = n] \in [base : Nat, len : Int] /\ [u[k] EXCEPT !.len = n].len = n
    BY ONLY <1>9, <2>1
  <2>. QED
    BY ONLY <1>9, <2>1, <2>4, <2>5
<1> HIDE DEF t
<1>11. Len(t) = k
  BY <1>5, <1>10, LenIs
<1>12. Lengths(t, k) /\ Lengths(v, k) /\ v[k].len = Unit(o)
  <2>1. \A j \in 1 .. k : j \in 1 .. Pieces(o)
    BY ONLY <1>0, <1>5, SMT
  <2>2. Unit(o) \in Int
    BY <1>0, SMT
  <2>. QED
    BY <1>5, <1>7, <1>9, <1>10, <2>1, <2>2 DEF Lengths
<1>13. DataUpTo(t, k) = DataUpTo(v, k) + t[k].len - v[k].len
  <2>1. k \in 1 .. k /\ \A j \in 1 .. k : j # k => t[j].len = v[j].len
    BY <1>9, <1>10
  <2>. QED
    BY ONLY <1>12, <2>1, OneChanged
<1>14. data_len(t) = len
  <2>1. data_len(t) = k * Unit(o) + (Unit(o) - (k * Unit(o) - len)) - Unit(o)
    BY <1>5, <1>10, <1>11, <1>12, <1>13 DEF data_len
  <2>2. k * Unit(o) \in Nat
    BY ONLY <1>0, <1>5, SMT
  <2>. QED
    BY ONLY <1>0, <2>1, <2>2, len \in Nat, SMT
<1>15. n > 0 \/ len = 0
  <2>1. (k - 1) * Unit(o) = k * Unit(o) - Unit(o) /\ k * Unit(o) \in Nat
    BY ONLY <1>0, <1>5, SMT
  <2>2. CASE k = 1
    BY ONLY <1>0, <2>2, len \in Nat, SMT
  <2>3. CASE (k - 1) * Unit(o) < len
    BY ONLY <1>0, <2>1, <2>3, len \in Nat, SMT
  <2>. QED
    BY <1>6, <2>2, <2>3
<1>. QED
  BY <1>4, <1>10, <1>11, <1>14, <1>15

\* What SgCommandExact says of a command block.
Exact(c, offs, block, bytes) ==
    /\ c[2] < 32
    /\ (c[2] * 65536 + c[3] * 256 + c[4]) * block = offs
    /\ c[5] > 0 /\ c[5] * block = bytes

\* The command block names the blocks that were asked for.
LEMMA CdbExact ==
    ASSUME NEW offs \in Nat, NEW block \in Nat, block >= 512, offs % block = 0, NEW op,
           NEW bytes \in Nat, bytes # 0, bytes % block = 0,
           bytes \div block <= MAX_READ_WRITE_6_LENGTH,
           offs \div block <= MAX_READ_WRITE_6_LBA,
           NEW c, c = Cdb(op, offs \div block, bytes \div block)
    PROVE  Exact(c, offs, block, bytes)
<1>0. offs \in Nat /\ block \in Nat /\ block >= 512
  OBVIOUS
<1> DEFINE lba == offs \div block
           blocks == bytes \div block
<1>1. lba \in Nat /\ lba <= 2097151 /\ lba * block = offs
  <2>1. block > 0
    BY ONLY <1>0, SMT
  <2>2. lba \in Nat /\ offs % block = offs - block * lba
    BY ONLY <1>0, <2>1, DivMod
  <2>3. 0 = offs - block * lba /\ lba <= 2097151
    BY <2>2, SMT DEF MAX_READ_WRITE_6_LBA
  <2> HIDE DEF lba
  <2>. QED
    BY ONLY <1>0, <2>2, <2>3, SMT
<1>2. blocks \in Nat /\ blocks <= 255 /\ blocks > 0 /\ blocks * block = bytes
  <2>1. block > 0
    BY ONLY <1>0, SMT
  <2>2. blocks \in Nat /\ bytes % block = bytes - block * blocks
    BY ONLY <1>0, <2>1, bytes \in Nat, DivMod
  <2>3. 0 = bytes - block * blocks /\ blocks <= 255
    BY <2>2, SMT DEF MAX_READ_WRITE_6_LENGTH
  <2> HIDE DEF blocks
  <2>4. blocks * block = bytes
    BY ONLY <1>0, <2>2, <2>3, bytes \in Nat, SMT
  <2>5. blocks # 0
    BY <1>0, <2>4, SMT
  <2>. QED
    BY ONLY <2>2, <2>3, <2>4, <2>5, SMT
<1> DEFINE a == lba \div 65536
           b == lba \div 256
           r == lba % 256
           e == b % 256
<1>3. c[2] = a % 256 /\ c[3] = e /\ c[4] = r /\ c[5] = blocks % 256
  BY SMT DEF Cdb
<1> HIDE DEF lba, blocks
<1>4. a % 256 < 32 /\ (a % 256) * 65536 + e * 256 + r = lba
  <2> DEFINE d == b \div 256
  <2>1. a \in Nat /\ 65536 * a <= lba /\ lba < 65536 * a + 65536
    BY ONLY <1>1, SMT
  <2>2. b \in Nat /\ r = lba - 256 * b
    BY ONLY <1>1, DivMod, SMT
  <2>3. r \in Nat /\ r <= 255
    BY ONLY <1>1, SMT
  <2> HIDE DEF b
  <2>4. d \in Nat /\ e = b - 256 * d
    BY ONLY <2>2, DivMod, SMT
  <2>5. e \in Nat /\ e <= 255
    BY ONLY <2>2, SMT
  <2>6. a < 32 => a % 256 = a
    BY ONLY <2>1, SMT
  <2> HIDE DEF a, r, d, e
  <2>7. a = d /\ a < 32
    BY ONLY <1>1, <2>1, <2>2, <2>3, <2>4, <2>5, SMT
  <2>8. a * 65536 + e * 256 + r = lba
    BY ONLY <1>1, <2>1, <2>2, <2>3, <2>4, <2>5, <2>7, SMT
  <2>. QED
    BY ONLY <2>6, <2>7, <2>8, SMT
<1> HIDE DEF a, b, r, e
<1>5. blocks % 256 = blocks
  BY ONLY <1>2, SMT
<1>. QED
  BY ONLY <1>1, <1>2, <1>3, <1>4, <1>5, SMT DEF Exact

\* What sg_read and sg_write may make of a vector.
Handed(v, o) == IF o.write THEN Filled(v, o) ELSE Raw(v, o)
SgReadOut ==
    ~opt.write /\ done >= 0 =>
        data_len(shown) = done /\ (shown[Len(shown)].len > 0 \/ done = 0)

SgInv ==
    /\ spc \in {"start", "build", "input", "send", "sent", "output", "exit"}
    /\ done \in Int
    /\ spc # "start" => opt \in SgArgs
    /\ spc \in {"build", "input", "send"} => Offs(opt) % opt.block = 0 /\ cdb = << >>
    /\ spc = "start" => cdb = << >>
    /\ spc = "input" => Raw(iov, opt) /\ opt.write
    /\ spc \in {"send", "sent", "output"} => Handed(iov, opt)
    /\ spc \in {"start", "build", "input", "send", "sent"} => done = -1
    /\ spc = "sent" => Sendable
    /\ spc = "output" /\ done >= 0 => done <= data_len(iov) /\ data_len(iov) # 0
    /\ spc = "exit" => SgReadOut
    /\ cdb # << >> => Exact(cdb, Offs(opt), opt.block, data_len(iov))

\* The length of a vector that is sent is a natural number.
LEMMA HandedData ==
    ASSUME NEW o \in SgArgs, NEW v, Handed(v, o)
    PROVE  data_len(v) \in Nat
BY RawData DEF Handed, Filled

\* Every step of main keeps to it.
LEMMA SgStep == SgInv /\ [SgNext]_sgVars => SgInv'
<1> SUFFICES ASSUME SgInv, [SgNext]_sgVars PROVE SgInv'
  OBVIOUS
<1>1. CASE Start
  BY <1>1 DEF SgInv, Start, SgReadOut
<1>2. CASE append
  <2>0. opt \in SgArgs /\ opt' = opt /\ cdb' = << >> /\ done' = -1 /\ spc' \in {"input", "send"}
        /\ (spc' = "input" <=> opt.write) /\ Offs(opt) % opt.block = 0
    BY <1>2 DEF SgInv, append
  <2>1. Raw(iov', opt)
    BY <1>2, <2>0, AppendRaw DEF append
  <2>. QED
    BY <2>0, <2>1 DEF SgInv, Handed
<1>3. CASE ReadInput
  <2>0. opt \in SgArgs /\ opt' = opt /\ cdb' = << >> /\ done' = -1 /\ spc' = "send" /\ opt.write
        /\ Offs(opt) % opt.block = 0 /\ Raw(iov, opt)
    BY <1>3 DEF SgInv, ReadInput
  <2> DEFINE dry == {k \in DOMAIN iov : DataUpTo(iov, k) > opt.input}
             k == CHOOSE j \in dry : \A h \in dry : j <= h
             gcount == opt.input - DataUpTo(iov, k - 1)
             prevgcount == IF k = 1 THEN 0 ELSE iov[k - 1].len
  <2>1. iov' = IF dry = {} THEN iov ELSE [iov EXCEPT ![k].len = gcount - prevgcount]
    BY <1>3, Zenon DEF ReadInput
  <2>2. ASSUME dry = {} PROVE Filled(iov', opt)
    BY <2>0, <2>1, <2>2, InputLasts
  <2>3. ASSUME dry # {} PROVE Filled(iov', opt)
    <3>0. Pieces(opt) \in Nat /\ Unit(opt) \in Nat /\ opt.input \in Nat
      BY <2>0, SgTyped
    <3>1. /\ DOMAIN iov = 1 .. Pieces(opt) 
          /\ \A n \in 0 .. Pieces(opt) : DataUpTo(iov, n) = n * Unit(opt)
          /\ \A n \in 1 .. Pieces(opt) : iov[n].len = Unit(opt)
      BY <2>0, RawData DEF Raw
    <3>2. k \in dry /\ \A h \in dry : k <= h
      <4>1. dry \subseteq Nat
        BY <3>0, <3>1, SMT
      <4>2. \E j \in dry : \A h \in dry : j <= h
        BY <2>3, <4>1, Least
      <4>. QED
        BY <4>2, Zenon
    <3>3. k \in 1 .. Pieces(opt) /\ DataUpTo(iov, k) > opt.input
      BY <3>1, <3>2
    <3> HIDE DEF k
    <3>4. k \in Nat /\ k \in 0 .. Pieces(opt) /\ k - 1 \in 0 .. Pieces(opt)
          /\ (k # 1 => k - 1 \in 1 .. Pieces(opt)) /\ ~(k <= k - 1)
      BY ONLY <3>0, <3>3, SMT
    <3>5. k * Unit(opt) > opt.input /\ DataUpTo(iov, k - 1) = (k - 1) * Unit(opt)
      BY <3>1, <3>3, <3>4
    <3>6. (k - 1) * Unit(opt) <= opt.input
      <4>1. CASE k = 1
        BY ONLY <3>0, <4>1, SMT
      <4>2. CASE k # 1
        <5>1. k - 1 \notin dry
          BY <3>2, <3>4
        <5>2. ~((k - 1) * Unit(opt) > opt.input)
          BY <3>1, <3>4, <3>5, <4>2, <5>1
        <5>3. (k - 1) * Unit(opt) \in Nat
          BY ONLY <3>0, <3>4, <4>2, SMT
        <5>. QED
          BY ONLY <3>0, <5>2, <5>3, SMT
      <4>. QED
        BY <4>1, <4>2
    <3>7. gcount - prevgcount = opt.input - (k - 1) * Unit(opt) - (IF k = 1 THEN 0 ELSE Unit(opt))
      BY <3>1, <3>4, <3>5
    <3>8. iov' = [iov EXCEPT ![k].len = gcount - prevgcount]
      BY <2>1, <2>3
    <3> HIDE DEF gcount, prevgcount
    <3>. QED
      BY ONLY <2>0, <3>3, <3>5, <3>6, <3>7, <3>8, InputEnds
  <2>4. Filled(iov', opt)
    BY <2>2, <2>3
  <2>. QED
    BY <2>0, <2>4 DEF SgInv, Handed
<1>4. CASE sg_io
  <2>0. opt \in SgArgs /\ opt' = opt /\ iov' = iov /\ done' = -1 /\ spc' \in {"output", "sent"}
        /\ Offs(opt) % opt.block = 0 /\ Handed(iov, opt) /\ cdb = << >> /\ shown' = shown /\ spc # "exit"
    BY <1>4 DEF SgInv, sg_io
  <2>1. data_len(iov) \in Nat
    BY <2>0, HandedData
  <2>2. ASSUME Sendable, spc' = "sent",
               cdb' = Cdb(IF opt.write THEN 10 ELSE 8, Lba, Blocks)
        PROVE  Exact(cdb', Offs(opt), opt.block, data_len(iov)) /\ Sendable'
    <3>1. /\ data_len(iov) # 0 /\ data_len(iov) % opt.block = 0
          /\ data_len(iov) \div opt.block <= MAX_READ_WRITE_6_LENGTH
          /\ Offs(opt) \div opt.block <= MAX_READ_WRITE_6_LBA
      BY <2>2 DEF Sendable, Lba, Blocks
    <3>2. cdb' = Cdb(IF opt.write THEN 10 ELSE 8, Offs(opt) \div opt.block, data_len(iov) \div opt.block)
      BY <2>2 DEF Lba, Blocks
    <3>4. Exact(cdb', Offs(opt), opt.block, data_len(iov))
      <4>1. Offs(opt) \in Nat /\ opt.block \in Nat /\ opt.block >= 512
        BY <2>0, SgTyped
      <4>. QED
        BY ONLY <2>0, <2>1, <3>1, <3>2, <4>1, CdbExact, Zenon
    <3>5. Sendable'
      BY <2>0, <2>2 DEF Sendable, Lba, Blocks
    <3>. QED
      BY <3>4, <3>5
  <2>3. \/ spc' = "output" /\ cdb' = << >>
        \/ spc' = "sent" /\ Exact(cdb', Offs(opt), opt.block, data_len(iov)) /\ Sendable'
    BY <1>4, <2>0, <2>2 DEF sg_io
  <2>4. ~(done' >= 0)
    BY <2>0, SMT
  <2>5. Handed(iov, opt)' /\ (opt \in SgArgs)' /\ (cdb' # << >> => Exact(cdb', Offs(opt'), opt'.block, data_len(iov)')) /\ (done \in Int)'
    <3>1. -1 \in Int
      BY SMT
    <3>. QED
      BY <2>0, <2>3, <3>1
  <2>. QED
    BY <2>0, <2>3, <2>4, <2>5 DEF SgInv
<1>5. CASE SgReturns
  <2>0. opt \in SgArgs /\ opt' = opt /\ iov' = iov /\ spc' = "output" /\ Handed(iov, opt)
        /\ Sendable /\ cdb' = cdb /\ (cdb # << >> => Exact(cdb, Offs(opt), opt.block, data_len(iov))) /\ done = -1
    BY <1>5 DEF SgInv, SgReturns
  <2>1. data_len(iov) \in Nat /\ data_len(iov) # 0
    BY <2>0, HandedData DEF Sendable
  <2>2. done' \in Int /\ (done' >= 0 => done' <= data_len(iov))
    <3>1. CASE done' = done
      BY <2>0, <3>1, SMT
    <3>2. CASE \E resid \in {r \in Resid : r <= data_len(iov)} : done' = data_len(iov) - resid
      <4>1. PICK r \in Resid : r <= data_len(iov) /\ done' = data_len(iov) - r
        BY <3>2
      <4>2. r \in Nat
        BY SgAssumption
      <4>. QED
        BY ONLY <2>1, <4>1, <4>2, SMT
    <3>. QED
      BY <1>5, <3>1, <3>2 DEF SgReturns
  <2>3. Handed(iov, opt)' /\ (cdb' # << >> => Exact(cdb', Offs(opt'), opt'.block, data_len(iov)'))
    BY <2>0
  <2>. QED
    BY <2>0, <2>1, <2>2, <2>3 DEF SgInv
<1>6. CASE Output
  <2>0. opt \in SgArgs /\ opt' = opt /\ iov' = iov /\ spc' = "exit" /\ Handed(iov, opt)
        /\ cdb' = cdb /\ (cdb # << >> => Exact(cdb, Offs(opt), opt.block, data_len(iov))) /\ done' = done /\ done \in Int
        /\ (done >= 0 => done <= data_len(iov) /\ data_len(iov) # 0)
    BY <1>6 DEF SgInv, Output
  <2>1. SgReadOut'
    <3> SUFFICES ASSUME ~opt.write, done >= 0
                 PROVE  data_len(shown') = done /\ (shown'[Len(shown')].len > 0 \/ done = 0)
      BY <2>0 DEF SgReadOut
    <3>1. shown' = trunc(iov, done)
      BY <1>6 DEF Output
    <3>2. Raw(iov, opt) /\ done \in Nat
      BY <2>0, SMT DEF Handed
    <3>. QED
      BY <2>0, <3>1, <3>2, TruncExact
  <2>2. (cdb' # << >> => Exact(cdb', Offs(opt'), opt'.block, data_len(iov)'))
    BY <2>0
  <2>. QED
    BY <2>0, <2>1, <2>2 DEF SgInv
<1>7. CASE UNCHANGED sgVars
  BY <1>7 DEF sgVars, SgInv, Handed, SgReadOut, Sendable, Lba, Blocks
<1>. QED
  BY <1>1, <1>2, <1>3, <1>4, <1>5, <1>6, <1>7 DEF SgNext

\* main starts before the command line is read.
LEMMA SgInitial == SgInit => SgInv
BY SMT DEF SgInit, SgInv

(***************************************************************************)
(* For every length, offset and block size, a READ(6) or WRITE(6) of       *)
(* discontiguous-io names exactly the blocks that were asked for, or for   *)
(* an offset of 4 GiB and more those at the lower 32 bits of it, which is  *)
(* all that offs keeps.                                                    *)
(***************************************************************************)
THEOREM SgNamesBlocks == SgSpec => []SgCommandExact
<1>1. SgInv => SgCommandExact
  BY DEF SgInv, SgCommandExact, Exact, Offs
<1>. QED
  BY <1>1, SgInitial, SgStep, PTL DEF SgSpec

(***************************************************************************)
(* However the input ends, discontiguous-io sends no byte that did not     *)
(* come from it: what main miscounts has no whole number of blocks.        *)
(***************************************************************************)
THEOREM SgSendsOnlyInput == SgSpec => []SgSendsInput
<1>1. SgInv => SgSendsInput
  <2> SUFFICES ASSUME SgInv, spc = "sent", opt.write, opt.len % opt.block = 0
               PROVE  data_len(iov) <= opt.input /\ \A k \in DOMAIN iov : iov[k].len >= 0
    BY DEF SgSendsInput
  <2>1. Filled(iov, opt) /\ Sendable
    BY DEF SgInv, Handed
  <2>2. DOMAIN iov = 1 .. Pieces(opt)
    BY <2>1 DEF Filled
  <2>. QED
    BY <2>1, <2>2 DEF Filled, Sendable
<1>. QED
  BY <1>1, SgInitial, SgStep, PTL DEF SgSpec

(***************************************************************************)
(* The pieces of a vector lie apart in the buffer, and after a READ(6)     *)
(* exactly the bytes transferred are written to stdout.                    *)
(***************************************************************************)
THEOREM SgShowsWhatWasRead == SgSpec => []SgShowsData
<1>1. SgInv => SgShowsData
  <2> SUFFICES ASSUME SgInv PROVE SgShowsData
    OBVIOUS
  <2>1. ASSUME spc = "send", NEW k \in DOMAIN iov
        PROVE  /\ iov[k].base + iov[k].len <= BufLen
               /\ k > 1 => iov[k - 1].base + iov[k - 1].len <= iov[k].base
    <3>0. opt \in SgArgs /\ Handed(iov, opt)
      BY <2>1 DEF SgInv
    <3>1. /\ iov \in [1 .. Pieces(opt) -> [base : Nat, len : Int]] /\ Based(iov, opt)
          /\ \A j \in 1 .. Pieces(opt) : iov[j].len <= Unit(opt)
      <4>1. Unit(opt) <= Unit(opt)
        BY <3>0, SgTyped, SMT
      <4>. QED
        BY <3>0, <4>1 DEF Handed, Filled, Raw
    <3>2. /\ opt.len \in Nat /\ Pieces(opt) \in Nat /\ k \in 1 .. Pieces(opt) /\ k \in Nat
          /\ (k > 1 => k - 1 \in 1 .. Pieces(opt)) /\ opt.scattered \in BOOLEAN
      <4>1. k \in 1 .. Pieces(opt) /\ opt.len \in Nat /\ Pieces(opt) \in Nat
            /\ opt.scattered \in BOOLEAN
        BY <3>0, <3>1, SgTyped
      <4>. QED
        BY ONLY <4>1, SMT
    <3>3. \A j \in 1 .. Pieces(opt) : /\ iov[j].len \in Int /\ iov[j].len <= Unit(opt)
                                       /\ iov[j].base = IF opt.scattered THEN 4 + (j - 1) * 8 ELSE 0
      BY <3>1 DEF Based
    <3>4. CASE opt.scattered
      <4>1. Unit(opt) = 4 /\ Pieces(opt) = opt.len \div 4 /\ BufLen = opt.len * 2
        BY <3>4 DEF Unit, Pieces, BufLen
      <4>2. 8 * Pieces(opt) <= opt.len * 2
        BY ONLY <3>2, <4>1, SMT
      <4>3. iov[k].base = 4 + (k - 1) * 8 /\ iov[k].len \in Int /\ iov[k].len <= 4
        BY <3>2, <3>3, <3>4, <4>1
      <4>4. k > 1 => iov[k - 1].base = 4 + (k - 1 - 1) * 8 /\ iov[k - 1].len \in Int /\ iov[k - 1].len <= 4
        BY <3>2, <3>3, <3>4, <4>1
      <4>5. 4 + (k - 1) * 8 + iov[k].len <= opt.len * 2
        BY ONLY <3>2, <4>2, <4>3, SMT
      <4>6. k > 1 => 4 + (k - 1 - 1) * 8 + iov[k - 1].len <= 4 + (k - 1) * 8
        BY ONLY <3>2, <4>4, SMT
      <4>. QED
        BY ONLY <4>1, <4>3, <4>4, <4>5, <4>6
    <3>5. CASE ~opt.scattered
      <4>1. Unit(opt) = opt.len /\ Pieces(opt) = 1 /\ BufLen = opt.len
        BY <3>5 DEF Unit, Pieces, BufLen
      <4>2. k = 1
        BY ONLY <3>2, <4>1, SMT
      <4>3. iov[k].base = 0 /\ iov[k].len \in Int /\ iov[k].len <= opt.len
        BY <3>2, <3>3, <3>5, <4>1
      <4>. QED
        BY ONLY <3>2, <4>1, <4>2, <4>3, SMT
    <3>. QED
      BY <3>2, <3>4, <3>5
  <2>2. spc = "exit" => SgReadOut
    BY DEF SgInv
  <2>. QED
    BY <2>1, <2>2 DEF SgShowsData, SgReadOut
<1>. QED
  BY <1>1, SgInitial, SgStep, PTL DEF SgSpec
=============================================================================
