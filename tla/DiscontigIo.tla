----------------------------- MODULE DiscontigIo ----------------------------
(***************************************************************************)
(* blktests/src/discontiguous-io.cpp, used by srp/013: one READ(6) or      *)
(* WRITE(6) through SG_IO, with a buffer that is one piece or, with -s,    *)
(* every other four bytes of a buffer twice as long.                       *)
(*                                                                         *)
(* A vector is a sequence of [base, len] into buf.  Lengths are size_t: a  *)
(* negative one stands for its value modulo 2^64, and sums agree with the  *)
(* program's because the wrap cancels in them.  The offset asked for has   *)
(* 64 bits, given as its upper and its lower 32; offs keeps the lower.     *)
(*                                                                         *)
(* External: the sg driver (whether a command is taken, resid).            *)
(***************************************************************************)
EXTENDS Integers, Sequences

CONSTANTS
    SgArgs,     \* command lines, block size of the device, bytes on stdin
    Resid       \* bytes a command may leave untransferred

ASSUME SgAssumption ==
    /\ \A a \in SgArgs : /\ a.asked \in Nat \X Nat
                         /\ a.asked[2] \div 65536 < 65536
                         /\ a.len \in Nat /\ a.input \in Nat
                         /\ a.block \in Nat \ {0} /\ a.block % 512 = 0  \* (external)
                         \* iovec_count, an unsigned short, counts all pieces
                         /\ a.scattered => a.len < 262144
                         /\ a.scattered \in BOOLEAN /\ a.write \in BOOLEAN
    /\ Resid \subseteq Nat

VARIABLES
    spc,        \* start, build, input, send, sent, output, exit
    opt,        \* one of SgArgs
    iov,
    cdb,        \* the command block that was sent, << >> before
    done,       \* what sg_read or sg_write returned
    shown       \* the vector written to stdout

sgVars == <<spc, opt, iov, cdb, done, shown>>

NoOpt == [len |-> 0, asked |-> <<0, 0>>, block |-> 1, input |-> 0, scattered |-> FALSE,
          write |-> FALSE]

SgInit == spc = "start" /\ opt = NoOpt /\ iov = << >> /\ cdb = << >> /\ done = -1
          /\ shown = << >>

Piece(base, len) == [base |-> base, len |-> len]

\* Bytes in the first n pieces of a vector.
DataUpTo(v, n) ==
    LET sum[k \in 0 .. n] == IF k = 0 THEN 0 ELSE sum[k - 1] + v[k].len IN sum[n]
data_len(v) == DataUpTo(v, Len(v))

-----------------------------------------------------------------------------
(* main up to the command.                                                 *)

\* offs = strtoul(): a uint32_t.
Offs(o) == o.asked[2]

Start ==
    /\ spc = "start"
    /\ opt' \in SgArgs
    /\ \/ spc' = "exit"                 \* the device cannot be opened or queried
       \/ spc' = IF Offs(opt') % opt'.block # 0 THEN "exit" ELSE "build"
    /\ UNCHANGED <<iov, cdb, done, shown>>

BufLen == IF opt.scattered THEN opt.len * 2 ELSE opt.len

append ==
    /\ spc = "build"
    /\ iov' = IF opt.scattered
              THEN [k \in 1 .. opt.len \div 4 |-> Piece(4 + (k - 1) * 8, 4)]
              ELSE <<Piece(0, opt.len)>>
    /\ spc' = IF opt.write THEN "input" ELSE "send"
    /\ UNCHANGED <<opt, cdb, done, shown>>

\* Mutant: the last piece keeps its length.
BadReadInput == spc = "input" /\ spc' = "send" /\ UNCHANGED <<opt, iov, cdb, done, shown>>

\* std::cin.read into each piece.  At the end of the input the length becomes
\* gcount() minus the gcount() of the read before, and the loop ends; the
\* pieces behind it stay.
ReadInput ==
    /\ spc = "input"
    /\ LET dry == {k \in DOMAIN iov : DataUpTo(iov, k) > opt.input}
           k == CHOOSE j \in dry : \A h \in dry : j <= h
           gcount == opt.input - DataUpTo(iov, k - 1)
           prevgcount == IF k = 1 THEN 0 ELSE iov[k - 1].len
       IN  iov' = IF dry = {} THEN iov ELSE [iov EXCEPT ![k].len = gcount - prevgcount]
    /\ spc' = "send"
    /\ UNCHANGED <<opt, cdb, done, shown>>

-----------------------------------------------------------------------------
(* sg_read and sg_write.                                                   *)

MAX_READ_WRITE_6_LBA == 2097151
MAX_READ_WRITE_6_LENGTH == 255

Lba == Offs(opt) \div opt.block
Blocks == data_len(iov) \div opt.block

\* Mutant: 256 blocks are taken to fit.
BadSendable ==
    /\ Lba <= MAX_READ_WRITE_6_LBA
    /\ data_len(iov) # 0 /\ data_len(iov) % opt.block = 0
    /\ Blocks <= MAX_READ_WRITE_6_LENGTH + 1

Sendable ==
    /\ Lba <= MAX_READ_WRITE_6_LBA
    /\ data_len(iov) # 0 /\ data_len(iov) % opt.block = 0
    /\ Blocks <= MAX_READ_WRITE_6_LENGTH

\* The six bytes of the command; a uint8_t keeps the low byte.
Cdb(opcode, lba, blocks) ==
    <<opcode, (lba \div 65536) % 256, (lba \div 256) % 256, lba % 256, blocks % 256, 0>>

sg_io ==
    /\ spc = "send"
    /\ \/ ~Sendable /\ spc' = "output" /\ UNCHANGED cdb
       \/ Sendable /\ spc' = "output" /\ UNCHANGED cdb       \* no sg version 3
       \/ Sendable /\ spc' = "sent" /\ cdb' = Cdb(IF opt.write THEN 10 ELSE 8, Lba, Blocks)
    /\ UNCHANGED <<opt, iov, done, shown>>

\* ioctl fails or reports a status (done stays -1), or some bytes are moved.
SgReturns ==
    /\ spc = "sent"
    /\ spc' = "output"
    /\ \/ UNCHANGED done
       \/ \E resid \in {r \in Resid : r <= data_len(iov)} : done' = data_len(iov) - resid
    /\ UNCHANGED <<opt, iov, cdb, shown>>

-----------------------------------------------------------------------------
(* The end of main.                                                        *)

\* Mutant: whole pieces only.
BadTrunc(v, len) ==
    LET ends == {k \in DOMAIN v : DataUpTo(v, k) >= len}
    IN  IF ends = {} THEN v ELSE SubSeq(v, 1, CHOOSE j \in ends : \A h \in ends : j <= h)

trunc(v, len) ==
    LET ends == {k \in DOMAIN v : DataUpTo(v, k) >= len}
        k == CHOOSE j \in ends : \A h \in ends : j <= h
    IN  IF ends = {} THEN v
        ELSE [SubSeq(v, 1, k) EXCEPT ![k].len = @ - (DataUpTo(v, k) - len)]

Output ==
    /\ spc = "output"
    /\ shown' = IF ~opt.write /\ done >= 0 THEN trunc(iov, done) ELSE shown
    /\ spc' = "exit"
    /\ UNCHANGED <<opt, iov, cdb, done>>

SgNext == Start \/ append \/ ReadInput \/ sg_io \/ SgReturns \/ Output
SgSpec == SgInit /\ [][SgNext]_sgVars

-----------------------------------------------------------------------------
(* Properties.                                                             *)

(***************************************************************************)
(* A command that is sent names the blocks the caller asked for, if their  *)
(* offset is below 4 GiB, and those at the offset modulo 2^32 otherwise:   *)
(* its 21 bits of address and its one byte of length give back the lower   *)
(* half of the offset and the bytes of the vector, and the length is never *)
(* 0, which a drive reads as 256.                                          *)
(***************************************************************************)
SgCommandExact ==
    cdb # << >> =>
        /\ cdb[2] < 32
        /\ (cdb[2] * 65536 + cdb[3] * 256 + cdb[4]) * opt.block = opt.asked[2]
        /\ cdb[5] > 0 /\ cdb[5] * opt.block = data_len(iov)

(***************************************************************************)
(* What a WRITE(6) sends is what came from stdin, byte for byte: with a    *)
(* length of whole blocks an input that ends early is either sent as far   *)
(* as it goes or, where main miscounts the last piece, not sent at all.    *)
(***************************************************************************)
SgSendsInput ==
    spc = "sent" /\ opt.write /\ opt.len % opt.block = 0 =>
        /\ data_len(iov) <= opt.input
        /\ \A k \in DOMAIN iov : iov[k].len >= 0

(***************************************************************************)
(* READ(6) data goes to separate places of the buffer and all of it, and   *)
(* no byte that was not transferred, reaches stdout; the assertion in      *)
(* trunc() holds.                                                          *)
(***************************************************************************)
SgShowsData ==
    /\ spc = "send" => \A k \in DOMAIN iov :
           /\ iov[k].base + iov[k].len <= BufLen
           /\ k > 1 => iov[k - 1].base + iov[k - 1].len <= iov[k].base
    /\ spc = "exit" /\ ~opt.write /\ done >= 0 =>
           /\ data_len(shown) = done
           /\ shown[Len(shown)].len > 0 \/ done = 0
=============================================================================
