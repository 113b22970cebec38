------------------------------ MODULE Metadata ------------------------------
(***************************************************************************)
(* blktests/src/metadata.c, the body of block/043: for 512 offsets write   *)
(* 8 MiB and their per-block metadata through io_uring, read both back and *)
(* check them; at the end overwrite the start of the device with zeros.    *)
(*                                                                         *)
(* Data is abstracted to one number per block: byte x of block i is        *)
(* (phase + x) mod 256, which is exact because a block is a multiple of    *)
(* 256 bytes; -1 is a block of zeros.  Metadata is kept byte by byte.      *)
(*                                                                         *)
(* External: io_uring, and what a device that is not sound may do with one *)
(* write or read (Faults).                                                 *)
(***************************************************************************)
EXTENDS Integers

CONSTANTS
    Formats,    \* what FS_IOC_GETLBMD_CAP reports for a namespace
    Places      \* intervals at which a transfer may be cut or split

DATA_SIZE == 8 * 1024 * 1024
Offsets == 512

ASSUME MetadataAssumption ==
    /\ \A f \in Formats :
         /\ f.lba \in Nat /\ (f.lba = 0 \/ (f.lba % 256 = 0 /\ DATA_SIZE % f.lba = 0))
         /\ f.size \in 0 .. 255 /\ f.ref \in BOOLEAN
         /\ f.pi \in {0, 8, 16} /\ f.pioff \in Nat /\ f.pioff + f.pi <= f.size
    /\ Places \subseteq Nat \ {0}

VARIABLES
    mpc,        \* start, write, written, read, back, check, tail, drain, exit, stuck
    fmt,        \* lba_size, metadata_size, pi_size, pi_offset, reftag_enabled
    offset,     \* the loop variable
    stored,     \* last offset whose write reached the device, -1 for none
    fault,      \* what went wrong with the transfer of this offset
    passed,     \* history: offsets that were checked and found good
    unseen,     \* history: the faults among them
    trouble,    \* history: a call failed
    ret

metaVars == <<mpc, fmt, offset, stored, fault, passed, unseen, trouble, ret>>

NoFormat == [lba |-> 0, size |-> 0, pi |-> 0, pioff |-> 0, ref |-> FALSE]
Fault(kind, s) == [kind |-> kind, at |-> s]
Fine == Fault("none", 0)

MetaInit ==
    /\ mpc = "start" /\ fmt = NoFormat /\ offset = 0 /\ stored = -1
    /\ fault = Fine /\ passed = 0 /\ unseen = {} /\ trouble = FALSE /\ ret = 0

MetaExit(r) == mpc' = "exit" /\ ret' = r
Fails(r) == trouble' = TRUE /\ MetaExit(r)

intervals == DATA_SIZE \div fmt.lba
metabuffer_tx_size == intervals * fmt.size
\* Mutant: no room for the shifted copy.
BadBufferSize == metabuffer_tx_size

metabuffer_size == metabuffer_tx_size * 2

-----------------------------------------------------------------------------
(* Contents of the metadata buffer.                                        *)

\* Byte k of an int that is not negative, 0 the least significant; TLC has
\* no larger numbers.
Byte(v, k) == IF k > 3 THEN 0 ELSE (v \div 256 ^ k) % 256
Value(b) == b[0] + 256 * b[1] + 65536 * b[2] + 16777216 * b[3]

\* A tag in memory: the bytes of a little-endian unsigned int.
swap(b) == [k \in 0 .. 3 |-> b[3 - k]]
put_be48(v) == [k \in 0 .. 5 |-> Byte(v, 5 - k)]
get_be48(b) == [k \in 0 .. 3 |-> b[5 - k]]

\* Size of the tuple the program skips, and where its reference tag starts.
Tuple(f) == IF f.ref THEN f.pi ELSE 0
RefAt(f) == f.pioff + (IF f.pi = 8 THEN 4 ELSE 10)
RefLen(f) == IF f.pi = 8 THEN 4 ELSE 6

Before(ref, i, j) == (ref + j + i) % 256
After(ref, i, j) == 255 - ((ref + j + i) % 256)
RefTag(f, ref) ==
    IF f.pi = 8 THEN swap([k \in 0 .. 3 |-> Byte(ref, k)]) ELSE put_be48(ref)

\* Byte j of interval i; the guard and application tags are left alone.
MetaByte(f, i, j, ref) ==
    CASE j < f.pioff -> Before(ref, i, j)
      [] j >= f.pioff + Tuple(f) -> After(ref, i, j - f.pioff - Tuple(f))
      [] Tuple(f) > 0 /\ j \in RefAt(f) .. RefAt(f) + RefLen(f) - 1 ->
            RefTag(f, ref)[j - RefAt(f)]
      [] OTHER -> 0

init_metadata(f, n, o) ==
    [i \in 0 .. n - 1 |-> [j \in 0 .. f.size - 1 |-> MetaByte(f, i, j, o + i)]]

\* Mutant: the tag of an 8 byte tuple is compared as it lies in memory.
BadRefOk(f, m, ref) ==
    LET tag == [k \in 0 .. RefLen(f) - 1 |-> m[RefAt(f) + k]]
    IN  Value(IF f.pi = 8 THEN tag ELSE get_be48(tag)) = ref

RefOk(f, m, ref) ==
    LET tag == [k \in 0 .. RefLen(f) - 1 |-> m[RefAt(f) + k]]
    IN  Value(IF f.pi = 8 THEN swap(tag) ELSE get_be48(tag)) = ref

\* Mutant: only reference tags are checked.
BadCheck(f, p, n, o) ==
    \A i \in 0 .. n - 1 : Tuple(f) > 0 => RefOk(f, p[i], o + i)

check_metadata(f, p, n, o) ==
    \A i \in 0 .. n - 1 :
        LET ref == o + i
            rest == f.pioff + Tuple(f)
        IN  /\ \A j \in 0 .. f.pioff - 1 : p[i][j] = Before(ref, i, j)
            /\ Tuple(f) > 0 => RefOk(f, p[i], ref)
            /\ \A j \in 0 .. f.size - rest - 1 : p[i][rest + j] = After(ref, i, j)

init_data(f, n, o) == [i \in 0 .. n - 1 |-> (170 + o + i * f.lba) % 256]
check_data(f, d, n, o) == \A i \in 0 .. n - 1 : d[i] = (170 + o + i * f.lba) % 256

-----------------------------------------------------------------------------
(* What the buffers hold after the read.                                   *)

\* Interval i of this transfer is interval i + 8 of the one before.
Behind == 8 * (offset - stored)
Zeros(f) == [j \in 0 .. f.size - 1 |-> 0]

\* The kernel maps reference tags to the place they are read from.
Remapped(f, m, ref) ==
    [j \in 0 .. f.size - 1 |->
        IF Tuple(f) > 0 /\ j \in RefAt(f) .. RefAt(f) + RefLen(f) - 1
        THEN RefTag(f, ref)[j - RefAt(f)] ELSE m[j]]

MetaOnDevice(i) ==
    IF stored >= 0 /\ i + Behind < intervals
    THEN Remapped(fmt, init_metadata(fmt, intervals, stored)[i + Behind], offset + i)
    ELSE Remapped(fmt, Zeros(fmt), offset + i)

DataOnDevice(i) ==
    IF stored >= 0 /\ i + Behind < intervals
    THEN init_data(fmt, intervals, stored)[i + Behind] ELSE -1

pi_buf ==
    [i \in 0 .. intervals - 1 |->
        CASE fault.kind = "short" /\ i >= fault.at -> Zeros(fmt)
          [] fault.kind = "split" /\ i >= fault.at ->
                init_metadata(fmt, intervals, offset)[i - fault.at]
          [] OTHER -> MetaOnDevice(i)]

data_buf ==
    [i \in 0 .. intervals - 1 |->
        CASE fault.kind = "short" /\ i >= fault.at -> -1
          [] fault.kind = "moved" /\ i >= fault.at -> DataOnDevice(i - fault.at)
          [] OTHER -> DataOnDevice(i)]

\* One fault in a run: the read ends early, the metadata starts again at the
\* place where the request was split, or the data does.
Faults ==
    {Fine} \cup {Fault(k, s) : k \in {"short", "split", "moved"},
                               s \in {p \in Places : p < intervals}}

-----------------------------------------------------------------------------
(* main.                                                                   *)

init_capabilities ==
    /\ mpc = "start"
    /\ \E f \in Formats :
         /\ fmt' = f
         /\ \/ Fails(1)         \* open, ioctl, memory or io_uring_queue_init
            \/ f.lba = 0 /\ Fails(1)
            \/ f.size = 0 /\ Fails(1)
            \/ f.lba # 0 /\ f.size # 0 /\ mpc' = "write" /\ UNCHANGED <<trouble, ret>>
    /\ UNCHANGED <<offset, stored, fault, passed, unseen>>

\* init_data, init_metadata, io_uring_submit.
SubmitWrite ==
    /\ mpc = "write"
    /\ offset < Offsets
    /\ \/ Fails(1)
       \/ mpc' = "written" /\ UNCHANGED <<trouble, ret>>
    /\ UNCHANGED <<fmt, offset, stored, fault, passed, unseen>>

\* io_uring_wait_cqe, then memset of both buffers.  A write may be lost.
WaitWrite ==
    /\ mpc = "written"
    /\ \/ Fails(1) /\ UNCHANGED <<stored, fault>>
       \/ mpc' = "read" /\ stored' = offset /\ UNCHANGED <<fault, trouble, ret>>
       \/ /\ unseen = {}
          /\ mpc' = "read" /\ fault' = Fault("lost", 0) /\ UNCHANGED <<stored, trouble, ret>>
    /\ UNCHANGED <<fmt, offset, passed, unseen>>

SubmitRead ==
    /\ mpc = "read"
    /\ \/ Fails(1)
       \/ mpc' = "back" /\ UNCHANGED <<trouble, ret>>
    /\ UNCHANGED <<fmt, offset, stored, fault, passed, unseen>>

WaitRead ==
    /\ mpc = "back"
    /\ \/ Fails(1) /\ UNCHANGED fault
       \/ mpc' = "check" /\ UNCHANGED <<fault, trouble, ret>>
       \/ /\ unseen = {} /\ fault = Fine
          /\ fault' \in Faults \ {Fine}
          /\ mpc' = "check" /\ UNCHANGED <<trouble, ret>>
    /\ UNCHANGED <<fmt, offset, stored, passed, unseen>>

Good == /\ check_data(fmt, data_buf, intervals, offset)
        /\ check_metadata(fmt, pi_buf, intervals, offset)

Check ==
    /\ mpc = "check"
    /\ IF Good
       THEN /\ passed' = passed + 1 /\ offset' = offset + 1
            /\ unseen' = unseen \cup ({fault} \ {Fine})
            /\ fault' = Fine
            /\ mpc' = "write" /\ UNCHANGED ret
       ELSE MetaExit(1) /\ UNCHANGED <<passed, offset, unseen, fault>>
    /\ UNCHANGED <<fmt, stored, trouble>>

\* Two writes of zeros in one submit, whose result may be 0, 1 or 2.
WriteZeros ==
    /\ mpc = "write"
    /\ offset = Offsets
    /\ \/ \E r \in {-1, 0} : Fails(r)
       \/ mpc' = "drain" /\ UNCHANGED <<trouble, ret>>
       \/ mpc' = "stuck" /\ trouble' = TRUE /\ UNCHANGED ret
    /\ UNCHANGED <<fmt, offset, stored, fault, passed, unseen>>

\* io_uring_wait_cqe_nr of both; their results are not looked at.
Drain ==
    /\ mpc = "drain"
    /\ \/ MetaExit(0) /\ UNCHANGED trouble
       \/ Fails(-1)
    /\ UNCHANGED <<fmt, offset, stored, fault, passed, unseen>>

MetaNext ==
    \/ init_capabilities \/ SubmitWrite \/ WaitWrite \/ SubmitRead \/ WaitRead
    \/ Check \/ WriteZeros \/ Drain
MetaSpec == MetaInit /\ [][MetaNext]_metaVars

-----------------------------------------------------------------------------
(* Properties.                                                             *)

(***************************************************************************)
(* The copy of the metadata, which starts offset * 4 bytes into orig_pi_buf*)
(* to try every alignment, ends before the buffer does: it is only twice   *)
(* as long as one copy, whatever the number of offsets.                    *)
(***************************************************************************)
MetaInBounds ==
    /\ mpc \in {"written", "read", "back", "check"}
    /\ fmt.lba <= 4096 \/ (fmt.lba <= 32768 /\ fmt.size >= 8)
    => offset * 4 + metabuffer_tx_size <= metabuffer_size

\* Displacements that the patterns of init_data and init_metadata repeat
\* after: any number of blocks of data, and 128 intervals of metadata that
\* carry no reference tag.
Alias(f) == f.kind = "moved" \/ (f.kind = "split" /\ Tuple(fmt) = 0 /\ f.at % 128 = 0)

(***************************************************************************)
(* A lost write, a short read and metadata that does not continue after a  *)
(* split (the case block/043 is there for) are found at the offset where   *)
(* they happen, unless the displacement is one the patterns cannot show.   *)
(***************************************************************************)
MetaFaultsSeen == \A f \in unseen : Alias(f)

(***************************************************************************)
(* metadata.c exits with 0 only after all 512 offsets were compared, and   *)
(* with an error only when a call failed or a transfer went wrong: what    *)
(* check_metadata expects is what init_metadata writes, for every format.  *)
(***************************************************************************)
MetaVerdictFair ==
    mpc = "exit" =>
        /\ ret = 0 => passed = Offsets
        /\ ret # 0 => trouble \/ fault # Fine
=============================================================================
