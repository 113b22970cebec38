----------------------------- MODULE DioOffsets -----------------------------
(***************************************************************************)
(* blktests/src/dio-offsets.c, the body of block/042: thirteen tests that  *)
(* write parts of out_buf to a block device with O_DIRECT, read them back  *)
(* into the same parts of in_buf and compare, or that hand the kernel a    *)
(* vector it has to refuse.                                                *)
(*                                                                         *)
(* Memory is a set of ranges [base, len] relative to the start of a        *)
(* buffer; in_buf is abstracted to the ranges that hold what out_buf holds *)
(* at the same place (same).  All sizes are the real ones.                 *)
(*                                                                         *)
(* External: whether the kernel takes a vector (Rejects, Accepts, either   *)
(* answer in between) and what a device that is not `honest' may do.       *)
(***************************************************************************)
EXTENDS Integers, Sequences

CONSTANTS
    PageSize,   \* sysconf(_SC_PAGE_SIZE)
    DioArgs     \* command lines: queue limits of a device as sysfs has them

ASSUME DioAssumption ==
    /\ \E k \in 0 .. 16 : PageSize = 2 ^ k
    \* Whole sectors, and a device of whole blocks (external).
    /\ \A a \in DioArgs : a.lbs > 0 /\ a.lbs % 512 = 0 /\ a.dev % a.lbs = 0
    /\ DioArgs \subseteq [segs : Nat, kb : Nat, dma : Nat, virt : Nat, lbs : Nat, dev : Nat]

VARIABLES
    dpc,        \* start, buffers, write, again, compare, exit
    honest,     \* the kernel and the device follow the rules
    geo,        \* the static variables of the program
    at,         \* index of the test in run_tests
    same,       \* ranges of in_buf that equal out_buf
    spoilt,     \* the byte the last read got wrong, as a range
    missed,     \* history: tests that passed although a byte was wrong
    verdict     \* how the program ended

dioVars == <<dpc, honest, geo, at, same, spoilt, missed, verdict>>

NoGeo == [max_segments |-> 0, max_bytes |-> 0, dma |-> 1, virt |-> 1, lbs |-> 1,
          dev |-> 0, buf_size |-> 0]
NULL == -1000000000     \* an iov_base of 0, which lies in neither buffer

V(base, len) == [base |-> base, len |-> len]
Nothing == V(0, 0)

DioInit ==
    /\ dpc = "start" /\ honest \in BOOLEAN
    /\ geo = NoGeo /\ at = 1
    /\ same = {} /\ spoilt = Nothing /\ missed = {} /\ verdict = "none"

DioExit(v) == dpc' = "exit" /\ verdict' = v

-----------------------------------------------------------------------------
(* Set-up.                                                                 *)

AtMost(x, y) == IF x > y THEN y ELSE x
AtLeast(x, y) == IF x < y THEN y ELSE x

power_of_2(x) == \E k \in 0 .. 30 : x = 2 ^ k

BadParameters(a) ==
    \/ ~power_of_2(a.virt + 1) \/ ~power_of_2(a.dma + 1) \/ ~power_of_2(a.lbs)
    \/ a.virt + 1 > 1 /\ a.virt + 1 < a.lbs
    \/ a.dma + 1 > a.lbs

Limits(a) ==
    LET bytes == AtMost(a.kb * 1024, 16384 * 1024)
    IN  [max_segments |-> AtMost(a.segs, 4096), max_bytes |-> bytes - (bytes % a.lbs),
         dma |-> a.dma + 1, virt |-> a.virt + 1, lbs |-> a.lbs, dev |-> a.dev,
         buf_size |-> 0]

init_args ==
    /\ dpc = "start"
    /\ \/ DioExit("setup") /\ UNCHANGED geo         \* the device cannot be opened
       \/ \E a \in DioArgs :
            IF BadParameters(a)
            THEN DioExit("usage") /\ UNCHANGED geo
            ELSE dpc' = "buffers" /\ geo' = Limits(a) /\ UNCHANGED verdict
    /\ UNCHANGED <<honest, at, same, spoilt, missed>>

\* Mutant: no lower bound for the size.
BadBufSize(g) ==
    AtMost((((g.max_bytes * g.max_segments) \div 2 + g.lbs - 1) \div g.lbs) * g.lbs, g.dev)

\* A smaller device cuts the size down after all the other steps.
BufSize(g) ==
    LET half == AtLeast((g.max_bytes * g.max_segments) \div 2, g.lbs * 1024 * 4)
        full == ((half + g.lbs - 1) \div g.lbs) * g.lbs
    IN  AtMost(full, g.dev)

TooBig(g) == (g.max_bytes * g.max_segments) \div 2 < g.lbs * g.max_segments

init_buffers ==
    /\ dpc = "buffers"
    /\ \/ TooBig(geo) /\ DioExit("usage") /\ UNCHANGED geo
       \/ ~TooBig(geo) /\ DioExit("setup") /\ UNCHANGED geo   \* ioctl, memory or urandom
       \/ /\ ~TooBig(geo)
          /\ geo' = [geo EXCEPT !.buf_size = BufSize(geo)]
          /\ dpc' = "write"
          /\ UNCHANGED verdict
    /\ UNCHANGED <<honest, at, same, spoilt, missed>>

-----------------------------------------------------------------------------
(* The tests.  clear: it starts with memset(in_buf, 0); iov: the ranges it *)
(* transfers; tolerate: a failed write ends the test well; refuse: a write *)
(* that succeeds is an error; again: its second transfer; cmp: the ranges  *)
(* it compares.                                                            *)

ReadsBack(iov) == [clear |-> TRUE, iov |-> iov, tolerate |-> FALSE, refuse |-> FALSE,
                   again |-> "read", cmp |-> iov]
MustFail(iov) == [clear |-> FALSE, iov |-> iov, tolerate |-> TRUE, refuse |-> TRUE,
                  again |-> "none", cmp |-> << >>]

test_full_size_aligned(g) == ReadsBack(<<V(0, g.buf_size)>>)

test_dma_aligned(g) == ReadsBack(<<V(g.dma, g.max_bytes)>>)

\* Mutant: compares one of the two blocks of a vector.
BadPageVectors(g) ==
    LET iov == [k \in 1 .. 4 |-> V(g.lbs * (k - 1) * 4, g.lbs * 2)]
    IN  [ReadsBack(iov) EXCEPT !.cmp = [k \in 1 .. 4 |-> V(iov[k].base, g.lbs)]]

test_page_aligned_vectors(g) ==
    ReadsBack([k \in 1 .. 4 |-> V(g.lbs * (k - 1) * 4, g.lbs * 2)])

test_dma_aligned_vectors(g) ==
    ReadsBack([k \in 1 .. 4 |-> V(g.lbs * (k - 1) * 8 + g.dma * k, g.lbs * 2)])

\* The first vector ends at a page, the last makes the total whole blocks.
test_unaligned_page_vectors(g) ==
    LET mult == AtLeast(PageSize \div g.lbs, 2)
        quarter == PageSize - g.lbs \div 4
        start == IF quarter % g.dma # 0 THEN PageSize - g.dma ELSE quarter
        first == V(start, PageSize - start)
        whole(i) == V(g.lbs * i * 8 * mult, g.lbs * mult)
        last == [whole(3) EXCEPT !.len = @ - first.len]
    IN  [ReadsBack(<<first, whole(1), whole(2), last>>) EXCEPT !.tolerate = TRUE]

test_unaligned_vectors(g) ==
    [ReadsBack([k \in 1 .. 4 |-> V(g.lbs * (k - 1) * 8, g.lbs \div 2)])
        EXCEPT !.tolerate = TRUE]

test_invalid_starting_addr(g) ==
    MustFail([k \in 1 .. 4 |-> V(IF k = 1 THEN NULL ELSE g.lbs * (k - 1) * 8, g.lbs)])

test_invalid_middle_addr(g) ==
    MustFail([k \in 1 .. 1024 |->
                 V(IF k = 1024 \div 2 + 2 THEN NULL ELSE g.lbs * (k - 1) * 2, g.lbs)])

\* Tests that a device with byte alignment has to pass.
UnlessBytes(g, t) == [t EXCEPT !.tolerate = g.dma > 1, !.refuse = g.dma > 1]

test_invalid_dma_alignment(g) ==
    UnlessBytes(g, ReadsBack(<<V(2 * g.dma - 1, g.lbs * 256)>>))

test_invalid_dma_vector_alignment(g) ==
    UnlessBytes(g, ReadsBack(
        [k \in 1 .. 5 |-> V(g.max_bytes * 2 * (k - 1) + (IF k = 3 THEN g.dma * 2 - 1 ELSE 0),
                            g.max_bytes)]))

\* Mutant: one of the two conditions is enough.
BadVectorLimits(g) ==
    LET iov_size == g.dma
        should_fail == ~(PageSize \div iov_size < 256 \/ iov_size >= g.virt)
        part(len) == [k \in 1 .. 320 |-> V((k - 1) * iov_size * 2, len)]
    IN  [ReadsBack(part(iov_size)) EXCEPT
            !.tolerate = should_fail, !.refuse = should_fail, !.cmp = part(g.lbs \div 2)]

\* The compared length is half a block whatever iov_size is.
test_max_vector_limits(g) ==
    LET iovpb == g.lbs \div g.dma
        iov_size == g.lbs \div iovpb
        should_fail == ~(PageSize \div iov_size < 256 /\ iov_size >= g.virt)
        part(len) == [k \in 1 .. 320 |-> V((k - 1) * iov_size * 2, len)]
    IN  [ReadsBack(part(iov_size)) EXCEPT
            !.tolerate = should_fail, !.refuse = should_fail, !.cmp = part(g.lbs \div 2)]

test_invalid_dma_vector_alignment_large(g) ==
    LET second == g.max_bytes + g.lbs
    IN  MustFail(<<V(0, g.max_bytes - g.lbs), V(second, g.lbs),
                   V(second + PageSize * 2 + (g.dma - 1), g.lbs), V(g.max_bytes * 8, g.lbs)>>)

\* The second transfer is a pwritev of in_buf.
test_invalid_dma_vector_length(g) ==
    LET half == g.max_bytes \div 2
    IN  UnlessBytes(g,
            [ReadsBack(<<V(0, g.max_bytes * 2 - half),
                         V(g.max_bytes * 4, g.lbs * 2 - (g.dma + 1)),
                         V(g.max_bytes * 8, g.lbs * 2 + (g.dma + 1)),
                         V(g.max_bytes * 12, g.max_bytes - half)>>)
                EXCEPT !.clear = FALSE, !.again = "write"])

run_tests(g) ==
    <<test_full_size_aligned(g), test_dma_aligned(g), test_page_aligned_vectors(g),
      test_dma_aligned_vectors(g), test_unaligned_page_vectors(g), test_unaligned_vectors(g),
      test_invalid_starting_addr(g), test_invalid_middle_addr(g),
      test_invalid_dma_alignment(g), test_invalid_dma_vector_alignment(g),
      test_max_vector_limits(g), test_invalid_dma_vector_alignment_large(g),
      test_invalid_dma_vector_length(g)>>

NTests == 13
MaxVector == 11         \* place of test_max_vector_limits
Test == run_tests(geo)[at]

-----------------------------------------------------------------------------
(* What the kernel may answer, and one action per stage of a test.         *)

Total(iov) ==
    LET upTo[n \in 0 .. Len(iov)] == IF n = 0 THEN 0 ELSE upTo[n - 1] + iov[n].len
    IN  upTo[Len(iov)]

Rejects(g, iov) ==
    \/ \E k \in DOMAIN iov : \/ iov[k].base = NULL
                             \/ iov[k].base % g.dma # 0
                             \/ iov[k].len % g.dma # 0
    \/ Total(iov) % g.lbs # 0

Accepts(g, iov) == ~Rejects(g, iov) /\ \A k \in DOMAIN iov : iov[k].len % g.lbs = 0

Answers(g, iov) ==
    CASE ~honest -> {"ok", "error"}
      [] honest /\ Rejects(g, iov) -> {"error"}
      [] honest /\ Accepts(g, iov) -> {"ok"}
      [] OTHER -> {"ok", "error"}

NextTest ==
    IF at = NTests
    THEN DioExit("pass") /\ UNCHANGED at
    ELSE dpc' = "write" /\ at' = at + 1 /\ UNCHANGED verdict

WriteOut ==
    /\ dpc = "write"
    /\ same' = IF Test.clear THEN {} ELSE same
    /\ \E r \in Answers(geo, Test.iov) :
         \/ r = "error" /\ Test.tolerate /\ NextTest
         \/ r = "error" /\ ~Test.tolerate /\ DioExit("io") /\ UNCHANGED at
         \/ r = "ok" /\ Test.refuse /\ DioExit("enotsup") /\ UNCHANGED at
         \/ r = "ok" /\ ~Test.refuse /\ dpc' = "again" /\ UNCHANGED <<at, verdict>>
    /\ UNCHANGED <<honest, geo, spoilt, missed>>

\* The part of a range that does not hold the wrong byte.
Without(v, x) ==
    IF x.len = 0 THEN {v}
    ELSE {V(v.base, x.base - v.base), V(x.base + 1, v.base + v.len - x.base - 1)}

Holds(v, x) == x.len = 1 /\ v.base <= x.base /\ x.base < v.base + v.len

\* A device that is not honest may get a byte wrong, at either end of a
\* vector; a transfer that ends early is a wrong byte at the end.
WrongBytes(iov) ==
    {Nothing} \cup (IF honest THEN {}
                    ELSE UNION {{V(iov[k].base, 1), V(iov[k].base + iov[k].len - 1, 1)} :
                                   k \in {j \in {1, Len(iov)} : iov[j].len > 0}})

Again ==
    /\ dpc = "again"
    /\ \/ ~honest /\ DioExit("io") /\ UNCHANGED <<same, spoilt>>
       \/ /\ Test.again = "read"
          /\ spoilt' \in WrongBytes(Test.iov)
          /\ same' = UNION {Without(v, IF Holds(v, spoilt') THEN spoilt' ELSE Nothing) :
                               v \in {Test.iov[k] : k \in DOMAIN Test.iov}}
          /\ dpc' = "compare" /\ UNCHANGED verdict
       \/ /\ Test.again = "write"
          /\ spoilt' = Nothing
          /\ dpc' = "compare" /\ UNCHANGED <<same, verdict>>
    /\ UNCHANGED <<honest, geo, at, missed>>

\* A range lies in a union of ranges if its first byte does, and with every
\* end of one of them inside it the byte that follows.
In(x, R) == \E v \in R : v.base <= x /\ x < v.base + v.len
Covered(r, R) ==
    r.len > 0 =>
        /\ In(r.base, R)
        /\ \A v \in R : LET e == v.base + v.len
                        IN  r.base < e /\ e < r.base + r.len => In(e, R)

Matches == \A k \in DOMAIN Test.cmp : Covered(Test.cmp[k], same)

compare ==
    /\ dpc = "compare"
    /\ IF Matches
       THEN /\ missed' = IF spoilt.len = 0 THEN missed ELSE missed \cup {at}
            /\ NextTest
       ELSE DioExit("corruption") /\ UNCHANGED <<missed, at>>
    /\ spoilt' = Nothing
    /\ UNCHANGED <<honest, geo, same>>

DioNext == init_args \/ init_buffers \/ WriteOut \/ Again \/ compare
DioSpec == DioInit /\ [][DioNext]_dioVars

-----------------------------------------------------------------------------
(* Properties.                                                             *)

\* Inputs the sizes of the tests are made for: twelve and a half times
\* max_bytes fit in a buffer, and a quarter of a block and the alignment in
\* a page.
Roomy(g) ==
    /\ g.max_segments >= 25 /\ g.lbs <= 4 * PageSize /\ g.dma <= PageSize
    /\ g.dev >= AtLeast((g.max_bytes * g.max_segments) \div 2, g.lbs * 1024 * 4)

Inside(v) == v.base = NULL \/ (0 <= v.base /\ 0 <= v.len /\ v.base + v.len <= geo.buf_size)

(***************************************************************************)
(* Every range of out_buf or in_buf that a test passes to the kernel or to *)
(* memcmp lies in the buffer init_buffers allocated, although its size is  *)
(* computed from other quantities than the offsets of the tests are.       *)
(***************************************************************************)
DioInBounds ==
    dpc \in {"write", "again", "compare"} /\ Roomy(geo) =>
        /\ \A k \in DOMAIN Test.iov : Inside(Test.iov[k])
        /\ \A k \in DOMAIN Test.cmp : Inside(Test.cmp[k])

\* Alignments for which test_max_vector_limits knows what to expect: a
\* block, as most drivers have it, or so few bytes that its 320 vectors are
\* not whole blocks.
Decided(g) ==
    \/ g.dma = g.lbs /\ g.virt <= g.lbs
    \/ g.dma > 1 /\ PageSize \div g.dma >= 256 /\ (320 * g.dma) % g.lbs # 0

(***************************************************************************)
(* block/042 fails only on a kernel or device that broke a rule: no vector *)
(* a test declares invalid is valid, none it relies on is invalid, and     *)
(* compare looks only at bytes the same test has read.                     *)
(***************************************************************************)
DioVerdictFair ==
    verdict \in {"io", "enotsup", "corruption"} /\ Roomy(geo) /\ Decided(geo) => ~honest

(***************************************************************************)
(* A byte that comes back wrong ends in "data corruption": every byte read *)
(* is compared, except by test_max_vector_limits when its vectors are      *)
(* longer than the half block it looks at.                                 *)
(***************************************************************************)
DioCorruptionSeen == missed # {} => missed = {MaxVector} /\ 2 * geo.dma > geo.lbs
=============================================================================
