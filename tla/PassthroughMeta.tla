--------------------------- MODULE PassthroughMeta --------------------------
(***************************************************************************)
(* blktests/src/nvme-passthrough-meta.c, the body of nvme/064: write and   *)
(* read 32 KiB with separate metadata, first at the start of a mapping,    *)
(* then across its page boundary, then with a read-only mapping, where the *)
(* read has to be refused.  One struct nvme_passthru_cmd is reused; each   *)
(* step sets only the fields that change.                                  *)
(*                                                                         *)
(* External: the NVMe driver (Replies) and the namespace format.           *)
(***************************************************************************)
EXTENDS Integers

CONSTANT LbaFormats     \* ds: block size as a power of 2; ms: metadata per block

ASSUME LbaFormatsAssumption ==
    \A f \in LbaFormats : f.ds \in 0 .. 30 /\ f.ms \in 0 .. 65535

VARIABLES
    npc,        \* open, map, send, exit
    step,       \* commands sent so far
    lbaf,       \* ns.lbaf[ns.flbas & 0xf]
    cmd,        \* opcode, metadata: mapping and place in it, of the last command
    sound,      \* the driver, the device and the system calls work
    refused,    \* history: commands that were not carried out
    nret

nvmeVars == <<npc, step, lbaf, cmd, sound, refused, nret>>

BUFFER_SIZE == 32768
MapSize == 8192
NoCmd == [opcode |-> 0, prot |-> "rw", at |-> 0]

NvmeInit ==
    /\ npc = "open" /\ step = 0 /\ lbaf = [ds |-> 0, ms |-> 0] /\ cmd = NoCmd
    /\ sound \in BOOLEAN /\ refused = {} /\ nret = 0

NvmeReturn(r) == npc' = "exit" /\ nret' = r

blocks == BUFFER_SIZE \div 2 ^ lbaf.ds
meta_buffer_size == blocks * lbaf.ms

\* open, NVME_IOCTL_ID and Identify Namespace, whose positive status is not looked
\* at: ns then holds any format.
Identify ==
    /\ npc = "open"
    /\ \E f \in LbaFormats :
         /\ lbaf' = f
         /\ \/ ~sound /\ NvmeReturn(1)
            \/ f.ms = 0 /\ NvmeReturn(22)
            \/ f.ms # 0 /\ npc' = "map" /\ UNCHANGED nret
    /\ UNCHANGED <<step, cmd, sound, refused>>

\* The two calls of mmap.
MapMeta ==
    /\ npc = "map"
    /\ \/ ~sound /\ NvmeReturn(1)
       \/ npc' = "send" /\ UNCHANGED nret
    /\ UNCHANGED <<step, lbaf, cmd, sound, refused>>

\* Mutants: the sign of the offset; the last mapping is not put into cmd.
BadOffset(n, c) ==
    CASE n = 1 -> [opcode |-> 1, prot |-> "rw", at |-> 0]
      [] n \in {2, 4, 6} -> [c EXCEPT !.opcode = 2]
      [] n = 3 -> [c EXCEPT !.opcode = 1, !.at = 4096 + 16]
      [] n = 5 -> [opcode |-> 1, prot |-> "ro", at |-> 0]
BadMapping(n, c) ==
    CASE n = 1 -> [opcode |-> 1, prot |-> "rw", at |-> 0]
      [] n \in {2, 4, 6} -> [c EXCEPT !.opcode = 2]
      [] n = 3 -> [c EXCEPT !.opcode = 1, !.at = 4096 - 16]
      [] n = 5 -> [c EXCEPT !.opcode = 1]

\* The command of each step, from that of the step before.
Prepare(n, c) ==
    CASE n = 1 -> [opcode |-> 1, prot |-> "rw", at |-> 0]
      [] n \in {2, 4, 6} -> [c EXCEPT !.opcode = 2]
      [] n = 3 -> [opcode |-> 1, prot |-> c.prot, at |-> 4096 - 16]
      [] n = 5 -> [opcode |-> 1, prot |-> "ro", at |-> 0]

\* ioctl returns -1, or the status of the command, which is positive when the
\* device refused it.
Replies(c) ==
    CASE ~sound -> {-1, 0, 2}
      [] sound /\ c.opcode = 2 /\ c.prot = "ro" -> {-1}
      [] OTHER -> {0}

Unwelcome(n, r) == IF n = 6 THEN r = 0 ELSE r < 0

Command ==
    /\ npc = "send"
    /\ step' = step + 1
    /\ cmd' = Prepare(step', cmd)
    /\ \E r \in Replies(cmd') :
         /\ refused' = IF r = 0 THEN refused ELSE refused \cup {step'}
         /\ \/ Unwelcome(step', r) /\ NvmeReturn(1)
            \/ ~Unwelcome(step', r) /\ step' = 6 /\ NvmeReturn(0)
            \/ /\ ~Unwelcome(step', r) /\ step' < 6
               /\ npc' = IF step' = 4 THEN "map" ELSE "send"
               /\ UNCHANGED nret
    /\ UNCHANGED <<lbaf, sound>>

NvmeNext == Identify \/ MapMeta \/ Command
NvmeSpec == NvmeInit /\ [][NvmeNext]_nvmeVars

-----------------------------------------------------------------------------
(* Properties.                                                             *)

\* Formats nvme/064 asks for: ms=8, ms=16 or ms=64, and a block that is a
\* sector or a page.
Suited(f) == f.ms \in {8, 16, 64} /\ f.ds \in 9 .. 12

(***************************************************************************)
(* The metadata of every command lies in the mapping it is given, also     *)
(* where it starts 16 bytes before the page boundary, and the number of    *)
(* blocks, sent as blocks - 1, is not zero.                                *)
(***************************************************************************)
PassthruInBounds ==
    cmd.opcode # 0 /\ Suited(lbaf) => blocks > 0 /\ cmd.at + meta_buffer_size <= MapSize

(***************************************************************************)
(* With a working driver nvme/064 passes on every format it asks for, and  *)
(* the last command is the only one that is refused; a driver that stores  *)
(* into the read-only mapping never passes.                                *)
(***************************************************************************)
PassthruFair ==
    npc = "exit" /\ Suited(lbaf) =>
        /\ sound => nret = 0 /\ refused = {6}
        /\ nret = 0 => 6 \in refused /\ cmd.opcode = 2 /\ cmd.prot = "ro"
=============================================================================
