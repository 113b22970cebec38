--------------------------- MODULE MetadataProofs ---------------------------
(***************************************************************************)
(* Theorems about metadata.c that hold for every format of a namespace     *)
(* whose block is a multiple of 256 bytes, and wherever a transfer is cut. *)
(***************************************************************************)
EXTENDS Metadata, TLAPS

\* A format main goes on with.
Usable(f) ==
    /\ f.lba \in Nat \ {0} /\ f.lba % 256 = 0 /\ DATA_SIZE % f.lba = 0
    /\ f.size \in 1 .. 255 /\ f.ref \in BOOLEAN
    /\ f.pi \in {0, 8, 16} /\ f.pioff \in Nat /\ f.pioff + f.pi <= f.size

-----------------------------------------------------------------------------
(* Tags.                                                                   *)

\* Tags stay below this: an offset and a number of intervals.
MaxTag == 16777215

\* The bytes of a number add up to it.
LEMMA BytesAddUp ==
    ASSUME NEW v \in Nat, v <= MaxTag
    PROVE  Byte(v, 0) + 256 * Byte(v, 1) + 65536 * Byte(v, 2) + 16777216 * Byte(v, 3) = v
<1>1. 256 ^ 0 = 1 /\ 256 ^ 1 = 256 /\ 256 ^ 2 = 65536 /\ 256 ^ 3 = 16777216
  BY SMT
<1>2. /\ Byte(v, 0) = v % 256 /\ Byte(v, 1) = (v \div 256) % 256
      /\ Byte(v, 2) = (v \div 65536) % 256 /\ Byte(v, 3) = (v \div 16777216) % 256
  BY <1>1, SMT DEF Byte
<1>3. v \div 16777216 = 0 /\ (v \div 16777216) % 256 = 0
  BY SMT DEF MaxTag
<1>4. v = (v % 256) + 256 * ((v \div 256) % 256) + 65536 * ((v \div 65536) % 256)
  BY SMT DEF MaxTag
<1>5. Byte(v, 3) = 0
  BY <1>2, <1>3
<1>6. v = Byte(v, 0) + 256 * Byte(v, 1) + 65536 * Byte(v, 2)
  BY <1>2, <1>4, SMT
<1>7. Byte(v, 0) \in Int /\ Byte(v, 1) \in Int /\ Byte(v, 2) \in Int
  BY <1>2, SMT
<1>. QED
  BY ONLY <1>5, <1>6, <1>7, SMT

\* A tag read from where init_metadata and the kernel put it is the one written,
\* in the byte order of either tuple.
LEMMA TagReadsBack ==
    ASSUME NEW f, Usable(f), Tuple(f) > 0, NEW m, NEW ref \in Nat, ref <= MaxTag, NEW r,
           \A k \in 0 .. RefLen(f) - 1 : m[RefAt(f) + k] = RefTag(f, ref)[k]
    PROVE  RefOk(f, m, r) <=> ref = r
<1> DEFINE tag == [k \in 0 .. RefLen(f) - 1 |-> m[RefAt(f) + k]]
<1>1. f.pi \in {8, 16}
  BY DEF Usable, Tuple
<1>2. CASE f.pi = 8
  <2>1. \A k \in 0 .. 3 : tag[k] = Byte(ref, 3 - k)
    BY <1>2 DEF RefLen, RefTag, swap
  <2>2. \A k \in 0 .. 3 : swap(tag)[k] = Byte(ref, k)
    BY <2>1 DEF swap
  <2>3. Value(swap(tag)) = ref
    BY <2>2, BytesAddUp, SMT DEF Value
  <2>. QED
    BY <1>2, <2>3 DEF RefOk
<1>3. CASE f.pi = 16
  <2>1. \A k \in 0 .. 5 : tag[k] = Byte(ref, 5 - k)
    BY <1>3 DEF RefLen, RefTag, put_be48
  <2>2. \A k \in 0 .. 3 : get_be48(tag)[k] = Byte(ref, k)
    BY <2>1 DEF get_be48
  <2>3. Value(get_be48(tag)) = ref
    BY <2>2, BytesAddUp, SMT DEF Value
  <2>. QED
    BY <1>3, <2>3 DEF RefOk
<1>. QED
  BY <1>1, <1>2, <1>3

-----------------------------------------------------------------------------
(* Intervals.                                                              *)

\* The reference tag is the last part of its tuple, which lies in the metadata.
LEMMA RefInTuple ==
    ASSUME NEW f, Usable(f)
    PROVE  /\ Tuple(f) \in {0, 8, 16} /\ f.pioff + Tuple(f) <= f.size
           /\ Tuple(f) > 0 => /\ RefLen(f) \in {4, 6} /\ RefAt(f) \in Nat /\ f.pioff < RefAt(f)
                              /\ RefAt(f) + RefLen(f) = f.pioff + Tuple(f)
<1>1. CASE ~f.ref \/ f.pi = 0
  BY <1>1, SMTT(30) DEF Usable, Tuple
<1>2. CASE f.ref /\ f.pi = 8
  BY <1>2 DEF Usable, Tuple, RefLen, RefAt
<1>3. CASE f.ref /\ f.pi = 16
  BY <1>3 DEF Usable, Tuple, RefLen, RefAt
<1>. QED
  BY <1>1, <1>2, <1>3 DEF Usable

\* The bytes of interval i are those init_metadata writes, or with the tag mapped.
AsWritten(f, m, i, ref) == \A j \in 0 .. f.size - 1 : m[j] = MetaByte(f, i, j, ref)
AsMapped(f, m, i, ref) == \A j \in 0 .. f.size - 1 :
    m[j] = IF Tuple(f) > 0 /\ j \in RefAt(f) .. RefAt(f) + RefLen(f) - 1
           THEN RefTag(f, ref)[j - RefAt(f)] ELSE MetaByte(f, i, j, ref)

\* The round of check_metadata for interval i.
PassesAt(f, m, i, ref) ==
    /\ \A j \in 0 .. f.pioff - 1 : m[j] = Before(ref, i, j)
    /\ Tuple(f) > 0 => RefOk(f, m, ref)
    /\ \A j \in 0 .. f.size - (f.pioff + Tuple(f)) - 1 :
          m[f.pioff + Tuple(f) + j] = After(ref, i, j)

\* What init_metadata writes for an interval passes check_metadata there, with the
\* tag the kernel maps it to.
LEMMA IntervalPasses ==
    ASSUME NEW f, Usable(f), NEW i \in Nat, NEW ref \in Nat, ref <= MaxTag, NEW m,
           AsMapped(f, m, i, ref)
    PROVE  PassesAt(f, m, i, ref)
<1>a. /\ Tuple(f) \in {0, 8, 16} /\ f.pioff + Tuple(f) <= f.size
      /\ Tuple(f) > 0 => /\ RefLen(f) \in {4, 6} /\ RefAt(f) \in Nat /\ f.pioff < RefAt(f)
                         /\ RefAt(f) + RefLen(f) = f.pioff + Tuple(f)
  BY RefInTuple
<1>0. f.pioff \in Nat /\ f.size \in Nat /\ Tuple(f) \in Nat /\ f.pioff + Tuple(f) <= f.size
  BY ONLY Usable(f), <1>a DEF Usable
<1>b. \A j \in 0 .. f.size - 1 :
         m[j] = IF Tuple(f) > 0 /\ j \in RefAt(f) .. RefAt(f) + RefLen(f) - 1
                THEN RefTag(f, ref)[j - RefAt(f)] ELSE MetaByte(f, i, j, ref)
  BY DEF AsMapped
<1>1. ASSUME NEW j \in 0 .. f.size - 1, j < f.pioff \/ j >= f.pioff + Tuple(f)
      PROVE  m[j] = MetaByte(f, i, j, ref)
  <2>1. ~(Tuple(f) > 0 /\ j \in RefAt(f) .. RefAt(f) + RefLen(f) - 1)
    BY ONLY <1>a, <1>0, <1>1, SMT
  <2>. QED
    BY ONLY <1>b, <2>1
<1>2. ASSUME NEW j \in 0 .. f.pioff - 1 PROVE m[j] = Before(ref, i, j)
  <2>1. j \in 0 .. f.size - 1 /\ j < f.pioff
    BY <1>0
  <2>2. MetaByte(f, i, j, ref) = Before(ref, i, j)
    BY ONLY <1>0, <1>a, <2>1, i \in Nat, ref \in Nat, SMT DEF MetaByte
  <2>. QED
    BY <1>1, <2>1, <2>2
<1>3. ASSUME NEW j \in 0 .. f.size - (f.pioff + Tuple(f)) - 1
      PROVE  m[f.pioff + Tuple(f) + j] = After(ref, i, j)
  <2> DEFINE at == f.pioff + Tuple(f) + j
  <2>1. at \in 0 .. f.size - 1 /\ at >= f.pioff + Tuple(f) /\ at - f.pioff - Tuple(f) = j
    BY <1>0
  <2>2. MetaByte(f, i, at, ref) = After(ref, i, at - f.pioff - Tuple(f))
    BY ONLY <1>0, <1>a, <2>1, i \in Nat, ref \in Nat, SMT DEF MetaByte
  <2>. QED
    BY <1>1, <2>1, <2>2
<1>4. ASSUME Tuple(f) > 0 PROVE RefOk(f, m, ref)
  <2>1. \A k \in 0 .. RefLen(f) - 1 : m[RefAt(f) + k] = RefTag(f, ref)[k]
    <3> SUFFICES ASSUME NEW k \in 0 .. RefLen(f) - 1 PROVE m[RefAt(f) + k] = RefTag(f, ref)[k]
      OBVIOUS
    <3> DEFINE at == RefAt(f) + k
    <3>1. /\ at \in 0 .. f.size - 1 /\ at \in RefAt(f) .. RefAt(f) + RefLen(f) - 1
          /\ at - RefAt(f) = k
      BY ONLY <1>0, <1>a, <1>4, k \in 0 .. RefLen(f) - 1, SMT
    <3>. QED
      BY ONLY <1>b, <1>4, <3>1
  <2>. QED
    BY <1>4, <2>1, TagReadsBack
<1>. QED
  BY <1>2, <1>3, <1>4 DEF PassesAt

\* Metadata of the first interval of a transfer does not pass for that of interval s,
\* unless it carries no tag and s is a multiple of the period of the pattern.
LEMMA FirstIntervalShows ==
    ASSUME NEW f, Usable(f), NEW s \in Nat \ {0}, NEW o \in Nat, o + s <= MaxTag, NEW m,
           AsWritten(f, m, 0, o), ~(Tuple(f) = 0 /\ s % 128 = 0)
    PROVE  ~PassesAt(f, m, s, o + s)
<1> SUFFICES ASSUME PassesAt(f, m, s, o + s) PROVE FALSE
  OBVIOUS
<1>a. /\ Tuple(f) \in {0, 8, 16} /\ f.pioff + Tuple(f) <= f.size
      /\ Tuple(f) > 0 => /\ RefLen(f) \in {4, 6} /\ RefAt(f) \in Nat /\ f.pioff < RefAt(f)
                         /\ RefAt(f) + RefLen(f) = f.pioff + Tuple(f)
  BY RefInTuple
<1>0. /\ f.pioff \in Nat /\ f.size \in Nat \ {0} /\ Tuple(f) \in Nat
      /\ f.pioff + Tuple(f) <= f.size
  BY ONLY Usable(f), <1>a DEF Usable
<1>b. \A j \in 0 .. f.size - 1 : m[j] = MetaByte(f, 0, j, o)
  BY DEF AsWritten
<1>c. /\ \A j \in 0 .. f.pioff - 1 : m[j] = Before(o + s, s, j)
      /\ Tuple(f) > 0 => RefOk(f, m, o + s)
      /\ \A j \in 0 .. f.size - (f.pioff + Tuple(f)) - 1 :
            m[f.pioff + Tuple(f) + j] = After(o + s, s, j)
  BY DEF PassesAt
<1>1. CASE Tuple(f) > 0
  <2>1. \A k \in 0 .. RefLen(f) - 1 : m[RefAt(f) + k] = RefTag(f, o)[k]
    <3> SUFFICES ASSUME NEW k \in 0 .. RefLen(f) - 1 PROVE m[RefAt(f) + k] = RefTag(f, o)[k]
      OBVIOUS
    <3> DEFINE at == RefAt(f) + k
    <3>1. /\ at \in 0 .. f.size - 1 /\ at \in RefAt(f) .. RefAt(f) + RefLen(f) - 1
          /\ at - RefAt(f) = k /\ at >= f.pioff /\ at < f.pioff + Tuple(f)
      BY ONLY <1>0, <1>a, <1>1, k \in 0 .. RefLen(f) - 1, SMT
    <3>2. MetaByte(f, 0, at, o) = RefTag(f, o)[at - RefAt(f)]
      BY ONLY <1>0, <1>1, <3>1, SMT DEF MetaByte
    <3>. QED
      BY ONLY <1>b, <3>1, <3>2
  <2>2. o <= MaxTag
    BY ONLY o \in Nat, s \in Nat \ {0}, o + s <= MaxTag, SMT DEF MaxTag
  <2>3. RefOk(f, m, o + s) <=> o = o + s
    <3>1. o \in Nat /\ Usable(f)
      OBVIOUS
    <3>. QED
      BY ONLY <1>1, <2>1, <2>2, <3>1, TagReadsBack
  <2>. QED
    BY <1>1, <1>c, <2>3
<1>2. CASE Tuple(f) = 0
  <2>1. (o + 2 * s) % 256 # o % 256 /\ (o + s) + 0 + s = o + 2 * s /\ o + 0 + 0 = o
    BY <1>2
  <2>2. CASE f.pioff > 0
    <3>1. m[0] = Before(o, 0, 0)
      <4>1. 0 \in 0 .. f.size - 1 /\ 0 < f.pioff
        BY ONLY <1>0, <2>2, SMT
      <4>2. MetaByte(f, 0, 0, o) = Before(o, 0, 0)
        BY ONLY <1>0, <1>2, <4>1, SMT DEF MetaByte
      <4>. QED
        BY ONLY <1>b, <4>1, <4>2
    <3>2. m[0] = Before(o + s, s, 0)
      <4>1. 0 \in 0 .. f.pioff - 1
        BY ONLY <1>0, <2>2, SMT
      <4>. QED
        BY ONLY <1>c, <4>1
    <3>. QED
      BY <2>1, <3>1, <3>2 DEF Before
  <2>3. CASE f.pioff = 0
    <3>1. m[0] = After(o, 0, 0)
      <4>1. 0 \in 0 .. f.size - 1 /\ 0 - f.pioff - Tuple(f) = 0
        BY ONLY <1>0, <1>2, <2>3, SMT
      <4>2. MetaByte(f, 0, 0, o) = After(o, 0, 0 - f.pioff - Tuple(f))
        BY ONLY <1>0, <1>2, <2>3, SMT DEF MetaByte
      <4>. QED
        BY ONLY <1>b, <4>1, <4>2
    <3>2. m[0] = After(o + s, s, 0)
      <4>1. 0 \in 0 .. f.size - (f.pioff + Tuple(f)) - 1 /\ f.pioff + Tuple(f) + 0 = 0
        BY ONLY <1>0, <1>2, <2>3, SMT
      <4>. QED
        BY ONLY <1>c, <4>1
    <3>. QED
      BY <2>1, <3>1, <3>2 DEF After
  <2>. QED
    BY <1>0, <2>2, <2>3
<1>. QED
  BY <1>0, <1>1, <1>2

-----------------------------------------------------------------------------
(* Transfers.                                                              *)

\* A transfer is made of at least one and at most 32768 blocks.
LEMMA FewIntervals == Usable(fmt) => intervals \in Nat \ {0} /\ intervals <= 32768
<1> SUFFICES ASSUME Usable(fmt) PROVE intervals \in Nat \ {0} /\ intervals <= 32768
  OBVIOUS
<1>1. fmt.lba \in Nat \ {0} /\ fmt.lba % 256 = 0 /\ 8388608 % fmt.lba = 0
  BY SMT DEF Usable, DATA_SIZE
<1>2. fmt.lba >= 256
  BY ONLY <1>1, SMT
<1>3. intervals = 8388608 \div fmt.lba
  BY SMT DEF intervals, DATA_SIZE
<1>4. intervals \in Nat /\ intervals * fmt.lba = 8388608
  BY ONLY <1>1, <1>3, SMT
<1>. QED
  BY ONLY <1>1, <1>2, <1>4, SMT

\* Without a fault both checks pass.
LEMMA CleanIsGood ==
    ASSUME Usable(fmt), offset \in 0 .. 511, stored = offset, fault = Fine
    PROVE  Good
<1> DEFINE n == intervals
<1>1. n \in Nat \ {0} /\ n <= 32768
  BY FewIntervals
<1>2. Behind = 0 /\ stored >= 0
  BY DEF Behind
<1>3. \A i \in 0 .. n - 1 : i + Behind = i /\ i + Behind < n
  BY <1>1, <1>2
<1>4. \A i \in 0 .. n - 1 : data_buf[i] = (170 + offset + i * fmt.lba) % 256
  BY <1>2, <1>3, SMT DEF data_buf, DataOnDevice, Fine, Fault, init_data
<1>5. ASSUME NEW i \in 0 .. n - 1 PROVE PassesAt(fmt, pi_buf[i], i, offset + i)
  <2>1. offset + i \in Nat /\ offset + i <= MaxTag /\ i \in Nat
    BY <1>1, SMT DEF MaxTag
  <2>2. pi_buf[i] = MetaOnDevice(i)
    BY SMT DEF pi_buf, Fine, Fault
  <2>3. MetaOnDevice(i) = Remapped(fmt, init_metadata(fmt, n, offset)[i], offset + i)
    BY <1>2, <1>3 DEF MetaOnDevice
  <2>4. \A j \in 0 .. fmt.size - 1 :
           init_metadata(fmt, n, offset)[i][j] = MetaByte(fmt, i, j, offset + i)
    BY DEF init_metadata
  <2>5. AsMapped(fmt, pi_buf[i], i, offset + i)
    BY <2>2, <2>3, <2>4 DEF Remapped, AsMapped
  <2>. QED
    BY <2>1, <2>5, IntervalPasses
<1>6. check_metadata(fmt, pi_buf, n, offset)
  BY <1>5 DEF check_metadata, PassesAt
<1>. QED
  BY <1>4, <1>6 DEF Good, check_data

\* A write that was lost leaves other data in the first block.
LEMMA LostShows ==
    ASSUME Usable(fmt), offset \in 0 .. 511, stored = offset - 1, fault.kind = "lost"
    PROVE  ~Good
<1>1. intervals \in Nat \ {0} /\ 0 \in 0 .. intervals - 1
  BY FewIntervals
<1>2. data_buf[0] = DataOnDevice(0) /\ Behind = 8
  BY <1>1, SMT DEF data_buf, Behind
<1>3. fmt.lba \in Nat /\ fmt.lba % 256 = 0
  BY DEF Usable
<1>4. CASE stored >= 0 /\ 8 < intervals
  <2>1. DataOnDevice(0) = (170 + stored + 8 * fmt.lba) % 256
    BY <1>1, <1>2, <1>4, SMT DEF DataOnDevice, init_data
  <2>2. 170 + stored \in Nat /\ 170 + offset + 0 * fmt.lba = (170 + stored) + 1
    BY <1>3, <1>4, SMT
  <2>3. (170 + stored + 8 * fmt.lba) % 256 # ((170 + stored) + 1) % 256
    BY ONLY <1>3, <2>2, SMT
  <2>. QED
    BY <1>1, <1>2, <2>1, <2>2, <2>3 DEF Good, check_data
<1>5. CASE ~(stored >= 0 /\ 8 < intervals)
  <2>1. DataOnDevice(0) = -1
    BY <1>1, <1>2, <1>5, SMT DEF DataOnDevice
  <2>2. (170 + offset + 0 * fmt.lba) % 256 # -1
    BY <1>3, SMT
  <2>. QED
    BY <1>1, <1>2, <2>1, <2>2 DEF Good, check_data
<1>. QED
  BY <1>4, <1>5

\* A short read leaves zeros in the block where it ends.
LEMMA ShortShows ==
    ASSUME Usable(fmt), offset \in 0 .. 511, fault.kind = "short",
           fault.at \in Nat \ {0}, fault.at < intervals
    PROVE  ~Good
<1> DEFINE s == fault.at
<1>1. s \in 0 .. intervals - 1 /\ s \in Nat
  BY FewIntervals
<1>2. data_buf[s] = -1
  BY <1>1, SMT DEF data_buf
<1>3. fmt.lba \in Nat
  BY DEF Usable
<1>4. s * fmt.lba \in Nat
  BY ONLY <1>1, <1>3, SMT
<1>5. (170 + offset + s * fmt.lba) % 256 # -1
  BY <1>4, SMT
<1>. QED
  BY <1>1, <1>2, <1>5 DEF Good, check_data

\* Metadata that starts again where the request was split is found there.
LEMMA SplitShows ==
    ASSUME Usable(fmt), offset \in 0 .. 511, fault.kind = "split",
           fault.at \in Nat \ {0}, fault.at < intervals, ~Alias(fault)
    PROVE  ~Good
<1> DEFINE s == fault.at
<1>0. intervals \in Nat \ {0} /\ intervals <= 32768
  BY FewIntervals
<1>1. s \in 0 .. intervals - 1 /\ s \in Nat \ {0} /\ 0 \in 0 .. intervals - 1 /\ s - s = 0
  BY <1>0
<1>2. pi_buf[s] = init_metadata(fmt, intervals, offset)[0]
  BY <1>1, SMT DEF pi_buf
<1>3. AsWritten(fmt, pi_buf[s], 0, offset)
  <2>1. \A j \in 0 .. fmt.size - 1 :
           init_metadata(fmt, intervals, offset)[0][j] = MetaByte(fmt, 0, j, offset + 0)
    BY <1>1 DEF init_metadata
  <2>2. offset + 0 = offset
    OBVIOUS
  <2>. QED
    BY ONLY <1>2, <2>1, <2>2 DEF AsWritten
<1>4. offset \in Nat /\ offset + s <= MaxTag
  BY <1>0, <1>1, SMT DEF MaxTag
<1>5. ~(Tuple(fmt) = 0 /\ s % 128 = 0)
  BY DEF Alias
<1>6. SUFFICES ASSUME check_metadata(fmt, pi_buf, intervals, offset) PROVE FALSE
  BY DEF Good
<1>7. PassesAt(fmt, pi_buf[s], s, offset + s)
  BY <1>1, <1>6 DEF check_metadata, PassesAt
<1>. QED
  BY ONLY Usable(fmt), <1>1, <1>3, <1>4, <1>5, <1>7, FirstIntervalShows

-----------------------------------------------------------------------------
(* The loop of main.                                                       *)

\* What is known of the format at each place.
FormatKnown ==
    /\ mpc \in {"start", "write", "written", "read", "back", "check", "drain", "exit", "stuck"}
    /\ mpc \notin {"start", "exit"} => Usable(fmt)

\* Every offset so far was checked.
Counted ==
    /\ offset \in 0 .. 512 /\ passed = offset
    /\ mpc \in {"written", "read", "back", "check"} => offset \in 0 .. 511
    /\ mpc = "drain" => offset = 512

\* The device holds the data of this offset, or of the one before until it is written.
Stored ==
    /\ mpc = "start" => unseen = {}
    /\ mpc \in {"start", "write", "written"} => stored = offset - 1 /\ fault = Fine
    /\ mpc \in {"read", "back", "check"} =>
          stored = IF fault.kind = "lost" THEN offset - 1 ELSE offset
    /\ mpc \in {"read", "back"} => fault \in {Fine, Fault("lost", 0)}
    /\ mpc = "check" =>
          \/ fault \in {Fine, Fault("lost", 0)}
          \/ /\ fault.kind \in {"short", "split", "moved"}
             /\ fault.at \in Nat \ {0} /\ fault.at < intervals

MetaInv == FormatKnown /\ Counted /\ Stored /\ MetaFaultsSeen /\ MetaVerdictFair

\* The program starts at offset 0 of a device it has not written to.
LEMMA MetaInitial == MetaInit => MetaInv
BY DEF MetaInit, MetaInv, FormatKnown, Counted, Stored, MetaFaultsSeen, MetaVerdictFair

\* A format of the capabilities that is not refused is usable.
LEMMA FormatsUsable == \A f \in Formats : f.lba # 0 /\ f.size # 0 => Usable(f)
BY MetadataAssumption, SMT DEF Usable

\* Every step of main keeps its invariant.
LEMMA MetaStep == MetaInv /\ [MetaNext]_metaVars => MetaInv'
<1> SUFFICES ASSUME MetaInv, [MetaNext]_metaVars PROVE MetaInv'
  OBVIOUS
<1>0. FormatKnown /\ Counted /\ Stored /\ MetaFaultsSeen /\ MetaVerdictFair
  BY DEF MetaInv
<1> USE DEF MetaExit, Fails
<1>1. CASE init_capabilities
  <2>1. FormatKnown'
    BY <1>0, <1>1, FormatsUsable DEF init_capabilities, FormatKnown
  <2>2. Counted'
    BY <1>0, <1>1, SMT DEF init_capabilities, Counted
  <2>3. Stored'
    BY <1>0, <1>1, SMT DEF init_capabilities, Stored, intervals
  <2>4. MetaFaultsSeen'
    BY <1>0, <1>1 DEF init_capabilities, Stored, MetaFaultsSeen, Alias, Tuple
  <2>5. MetaVerdictFair'
    BY <1>0, <1>1, SMT DEF init_capabilities, Counted, Offsets, MetaVerdictFair
  <2>. QED
    BY <2>1, <2>2, <2>3, <2>4, <2>5 DEF MetaInv
<1>2. CASE SubmitWrite
  <2>1. FormatKnown'
    BY <1>0, <1>2 DEF SubmitWrite, FormatKnown, Usable
  <2>2. Counted'
    BY <1>0, <1>2, SMT DEF SubmitWrite, Counted, Offsets
  <2>3. Stored'
    BY <1>0, <1>2, SMT DEF SubmitWrite, Stored, intervals
  <2>4. MetaFaultsSeen'
    BY <1>0, <1>2 DEF SubmitWrite, MetaFaultsSeen, Alias, Tuple
  <2>5. MetaVerdictFair'
    BY <1>0, <1>2, SMT DEF SubmitWrite, Counted, Offsets, MetaVerdictFair
  <2>. QED
    BY <2>1, <2>2, <2>3, <2>4, <2>5 DEF MetaInv
<1>3. CASE WaitWrite
  <2>1. FormatKnown'
    BY <1>0, <1>3 DEF WaitWrite, FormatKnown, Usable
  <2>2. Counted'
    BY <1>0, <1>3, SMT DEF WaitWrite, Counted
  <2>3. Stored'
    BY <1>0, <1>3, SMT DEF WaitWrite, Stored, intervals, Fault, Fine, Counted
  <2>4. MetaFaultsSeen'
    BY <1>0, <1>3 DEF WaitWrite, MetaFaultsSeen, Alias, Tuple
  <2>5. MetaVerdictFair'
    BY <1>0, <1>3, SMT DEF WaitWrite, Counted, Offsets, MetaVerdictFair
  <2>. QED
    BY <2>1, <2>2, <2>3, <2>4, <2>5 DEF MetaInv
<1>4. CASE SubmitRead
  <2>1. FormatKnown'
    BY <1>0, <1>4 DEF SubmitRead, FormatKnown, Usable
  <2>2. Counted'
    BY <1>0, <1>4, SMT DEF SubmitRead, Counted
  <2>3. Stored'
    BY <1>0, <1>4, SMT DEF SubmitRead, Stored, intervals
  <2>4. MetaFaultsSeen'
    BY <1>0, <1>4 DEF SubmitRead, MetaFaultsSeen, Alias, Tuple
  <2>5. MetaVerdictFair'
    BY <1>0, <1>4, SMT DEF SubmitRead, Counted, Offsets, MetaVerdictFair
  <2>. QED
    BY <2>1, <2>2, <2>3, <2>4, <2>5 DEF MetaInv
<1>5. CASE WaitRead
  <2>1. FormatKnown'
    BY <1>0, <1>5 DEF WaitRead, FormatKnown, Usable
  <2>2. Counted'
    BY <1>0, <1>5, SMT DEF WaitRead, Counted
  <2>3. Stored'
    <3>1. CASE fault' = fault
      BY <1>0, <1>5, <3>1, SMT DEF WaitRead, Stored, intervals
    <3>2. CASE fault = Fine /\ fault' \in Faults \ {Fine} /\ mpc' = "check"
      <4>1. PICK k \in {"short", "split", "moved"}, s \in Places : s < intervals /\ fault' = Fault(k, s)
        BY <3>2 DEF Faults
      <4>2. /\ fault'.kind \in {"short", "split", "moved"}
            /\ fault'.at \in Nat \ {0} /\ fault'.at < intervals
        BY <4>1, MetadataAssumption DEF Fault
      <4>3. stored' = offset /\ UNCHANGED <<offset, fmt, unseen>>
        BY <1>0, <1>5, <3>2 DEF WaitRead, Stored, Fine, Fault
      <4>4. intervals' = intervals
        BY <4>3 DEF intervals
      <4>. QED
        BY <3>2, <4>2, <4>3, <4>4 DEF Stored
    <3>. QED
      BY <1>5, <1>0, <3>1, <3>2 DEF WaitRead, Stored
  <2>4. MetaFaultsSeen'
    BY <1>0, <1>5 DEF WaitRead, MetaFaultsSeen, Alias, Tuple
  <2>5. MetaVerdictFair'
    BY <1>0, <1>5, SMT DEF WaitRead, Counted, Offsets, MetaVerdictFair
  <2>. QED
    BY <2>1, <2>2, <2>3, <2>4, <2>5 DEF MetaInv
<1>6. CASE Check
  <2>1. Usable(fmt) /\ offset \in 0 .. 511 /\ mpc = "check"
    BY <1>0, <1>6 DEF Check, FormatKnown, Counted
  <2>2. CASE Good
    <3>1. /\ passed' = passed + 1 /\ offset' = offset + 1 /\ fault' = Fine /\ mpc' = "write"
          /\ unseen' = unseen \cup ({fault} \ {Fine}) /\ UNCHANGED <<ret, fmt, stored, trouble>>
      BY <1>6, <2>2 DEF Check
    <3>2. fault = Fine \/ (fault.kind \in {"split", "moved"} /\ Alias(fault))
      <4>1. fault.kind # "lost"
        BY <1>0, <2>1, <2>2, LostShows DEF Stored
      <4>2. fault.kind # "short"
        BY <1>0, <2>1, <2>2, ShortShows DEF Stored, Fine, Fault
      <4>3. fault.kind = "split" => Alias(fault)
        BY <1>0, <2>1, <2>2, SplitShows DEF Stored, Fine, Fault
      <4>. QED
        BY <1>0, <2>1, <4>1, <4>2, <4>3 DEF Stored, Fault, Alias
    <3>3. FormatKnown' /\ Counted'
      BY <1>0, <2>1, <3>1, SMT DEF FormatKnown, Counted, Usable
    <3>4. Stored'
      BY <1>0, <2>1, <3>1, <3>2 DEF Stored, Fine, Fault
    <3>5. MetaFaultsSeen'
      BY <1>0, <3>1, <3>2 DEF MetaFaultsSeen, Alias, Tuple
    <3>6. MetaVerdictFair'
      BY <3>1 DEF MetaVerdictFair
    <3>. QED
      BY <3>3, <3>4, <3>5, <3>6 DEF MetaInv
  <2>3. CASE ~Good
    <3>1. mpc' = "exit" /\ ret' = 1 /\ UNCHANGED <<passed, offset, unseen, fault, fmt, stored, trouble>>
      BY <1>6, <2>3 DEF Check
    <3>2. fault # Fine
      BY <1>0, <2>1, <2>3, CleanIsGood DEF Stored, Fine, Fault
    <3>3. FormatKnown' /\ Counted' /\ Stored'
      BY <1>0, <2>1, <3>1, SMT DEF FormatKnown, Counted, Stored
    <3>4. MetaFaultsSeen'
      BY <1>0, <3>1 DEF MetaFaultsSeen, Alias, Tuple
    <3>5. MetaVerdictFair'
      BY <3>1, <3>2 DEF MetaVerdictFair
    <3>. QED
      BY <3>3, <3>4, <3>5 DEF MetaInv
  <2>. QED
    BY <2>2, <2>3
<1>7. CASE WriteZeros
  <2>1. FormatKnown'
    BY <1>0, <1>7 DEF WriteZeros, FormatKnown, Usable
  <2>2. Counted'
    BY <1>0, <1>7, SMT DEF WriteZeros, Counted, Offsets
  <2>3. Stored'
    BY <1>0, <1>7, SMT DEF WriteZeros, Stored, intervals
  <2>4. MetaFaultsSeen'
    BY <1>0, <1>7 DEF WriteZeros, MetaFaultsSeen, Alias, Tuple
  <2>5. MetaVerdictFair'
    BY <1>0, <1>7, SMT DEF WriteZeros, Counted, Offsets, MetaVerdictFair
  <2>. QED
    BY <2>1, <2>2, <2>3, <2>4, <2>5 DEF MetaInv
<1>8. CASE Drain
  <2>1. FormatKnown'
    BY <1>0, <1>8 DEF Drain, FormatKnown, Usable
  <2>2. Counted'
    BY <1>0, <1>8, SMT DEF Drain, Counted
  <2>3. Stored'
    BY <1>0, <1>8, SMT DEF Drain, Stored, intervals
  <2>4. MetaFaultsSeen'
    BY <1>0, <1>8 DEF Drain, MetaFaultsSeen, Alias, Tuple
  <2>5. MetaVerdictFair'
    BY <1>0, <1>8, SMT DEF Drain, Counted, Offsets, MetaVerdictFair
  <2>. QED
    BY <2>1, <2>2, <2>3, <2>4, <2>5 DEF MetaInv
<1>9. CASE UNCHANGED metaVars
  <2>1. FormatKnown'
    BY <1>0, <1>9 DEF metaVars, FormatKnown, Usable
  <2>2. Counted'
    BY <1>0, <1>9, SMT DEF metaVars, Counted
  <2>3. Stored'
    BY <1>0, <1>9, SMT DEF metaVars, Stored, intervals
  <2>4. MetaFaultsSeen'
    BY <1>0, <1>9 DEF metaVars, MetaFaultsSeen, Alias, Tuple
  <2>5. MetaVerdictFair'
    BY <1>0, <1>9, SMT DEF metaVars, Counted, Offsets, MetaVerdictFair
  <2>. QED
    BY <2>1, <2>2, <2>3, <2>4, <2>5 DEF MetaInv
<1>. QED
  BY <1>1, <1>2, <1>3, <1>4, <1>5, <1>6, <1>7, <1>8, <1>9 DEF MetaNext

(***************************************************************************)
(* The shifted copy of the metadata stays in orig_pi_buf at every offset,  *)
(* for every format with at least 2048 bytes of metadata per transfer.     *)
(***************************************************************************)
THEOREM MetaStaysInBounds == MetaSpec => []MetaInBounds
<1>1. MetaInv => MetaInBounds
  <2> SUFFICES ASSUME MetaInv, mpc \in {"written", "read", "back", "check"},
                      fmt.lba <= 4096 \/ (fmt.lba <= 32768 /\ fmt.size >= 8)
               PROVE  offset * 4 + metabuffer_tx_size <= metabuffer_size
    BY DEF MetaInBounds
  <2>1. Usable(fmt) /\ offset \in 0 .. 511
    BY DEF MetaInv, FormatKnown, Counted
  <2>2. fmt.lba \in Nat \ {0} /\ fmt.size \in Nat \ {0}
    BY <2>1 DEF Usable
  <2>3. intervals \in Nat
    BY <2>1, FewIntervals
  <2>4. intervals = 8388608 \div fmt.lba
    BY SMT DEF intervals, DATA_SIZE
  <2>5. metabuffer_tx_size = intervals * fmt.size /\ metabuffer_tx_size \in Nat
    BY ONLY <2>2, <2>3, SMT DEF metabuffer_tx_size
  <2>6. metabuffer_tx_size >= 2048
    <3>1. CASE fmt.lba <= 4096
      <4>1. intervals >= 2048
        BY ONLY <2>2, <2>4, <3>1, SMT
      <4>. QED
        BY ONLY <2>2, <2>3, <2>5, <4>1, SMT
    <3>2. CASE fmt.lba <= 32768 /\ fmt.size >= 8
      <4>1. intervals >= 256
        BY ONLY <2>2, <2>4, <3>2, SMT
      <4>. QED
        BY ONLY <2>2, <2>3, <2>5, <3>2, <4>1, SMT
    <3>. QED
      BY <3>1, <3>2
  <2>7. offset * 4 <= 2048
    BY <2>1, SMT
  <2>8. offset * 4 \in Nat
    BY <2>1, SMT
  <2>. QED
    BY ONLY <2>5, <2>6, <2>7, <2>8, SMT DEF metabuffer_size
<1>. QED
  BY <1>1, MetaInitial, MetaStep, PTL DEF MetaSpec

(***************************************************************************)
(* A lost write, a short read and metadata that starts again after a split *)
(* are found at the offset where they happen, on every format and wherever *)
(* the transfer is cut, but for the displacements the patterns repeat at.  *)
(***************************************************************************)
THEOREM MetaSeesFaults == MetaSpec => []MetaFaultsSeen
<1>1. MetaInv => MetaFaultsSeen
  BY DEF MetaInv
<1>. QED
  BY <1>1, MetaInitial, MetaStep, PTL DEF MetaSpec

(***************************************************************************)
(* metadata.c exits with 0 only after all 512 offsets, and with an error   *)
(* only after a failed call or a faulty transfer: check_metadata and       *)
(* check_data accept what init_metadata and init_data wrote, for every     *)
(* format.                                                                 *)
(***************************************************************************)
THEOREM MetaVerdict == MetaSpec => []MetaVerdictFair
<1>1. MetaInv => MetaVerdictFair
  BY DEF MetaInv
<1>. QED
  BY <1>1, MetaInitial, MetaStep, PTL DEF MetaSpec
=============================================================================
