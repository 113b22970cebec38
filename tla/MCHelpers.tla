------------------------------ MODULE MCHelpers -----------------------------
(***************************************************************************)
(* The C helpers of blktests on the command lines their test cases give    *)
(* them.  A behaviour is one invocation of one of them: prog says which,   *)
(* and the variables of the others stay as they are initially.             *)
(***************************************************************************)
EXTENDS DioOffsets, Metadata, DiscontigIo, PciMem, MountClearSock, PassthroughMeta,
        AdminUring

VARIABLE prog

Parked(p, vars) == prog # p => UNCHANGED vars

HelpersInit ==
    /\ prog \in {"dio-offsets", "metadata", "discontiguous-io", "pcimem", "mount_clear_sock",
                "nvme-passthrough-meta", "nvme-passthru-admin-uring"}
    /\ DioInit /\ MetaInit /\ SgInit /\ PciInit /\ KidInit /\ NvmeInit /\ UringInit
    /\ prog # "dio-offsets" => honest
    /\ prog # "nvme-passthrough-meta" => sound

HelpersNext ==
    /\ \/ prog = "dio-offsets" /\ DioNext
       \/ prog = "metadata" /\ MetaNext
       \/ prog = "discontiguous-io" /\ SgNext
       \/ prog = "pcimem" /\ PciNext
       \/ prog = "mount_clear_sock" /\ KidNext
       \/ prog = "nvme-passthrough-meta" /\ NvmeNext
       \/ prog = "nvme-passthru-admin-uring" /\ UringNext
    /\ Parked("dio-offsets", dioVars)
    /\ Parked("metadata", metaVars)
    /\ Parked("discontiguous-io", sgVars)
    /\ Parked("pcimem", pciVars)
    /\ Parked("mount_clear_sock", kidVars)
    /\ Parked("nvme-passthrough-meta", nvmeVars)
    /\ Parked("nvme-passthru-admin-uring", uringVars)
    /\ UNCHANGED prog

helperVars ==
    <<prog, dioVars, metaVars, sgVars, pciVars, kidVars, nvmeVars, uringVars>>
HelpersSpec == HelpersInit /\ [][HelpersNext]_helperVars

-----------------------------------------------------------------------------
(* Queue limits in the units of sysfs: typical SATA, NVMe and SCSI ones,   *)
(* each limit at its boundary, and values that init_args refuses.          *)
Queue(s, k, d, v, l, b) == [segs |-> s, kb |-> k, dma |-> d, virt |-> v, lbs |-> l, dev |-> b]
GiB == 1073741824
MCDioArgs ==
    {Queue(128, 1280, 511, 0, 512, GiB),    \* libata
     Queue(127, 512, 3, 4095, 512, GiB),    \* nvme, block of 512
     Queue(127, 512, 3, 4095, 4096, GiB),   \* nvme, block of 4096
     Queue(25, 8, 3, 0, 512, GiB),          \* fewest segments the offsets fit in
     Queue(24, 1024, 511, 0, 512, GiB),     \* one fewer
     Queue(64, 20001, 1, 0, 512, GiB),      \* more than 16 MiB, not whole blocks
     Queue(5000, 16, 4095, 0, 4096, GiB),   \* more segments than are used
     Queue(128, 1280, 511, 0, 512, 4194304),
     Queue(128, 1280, 0, 0, 512, GiB),      \* byte alignment
     Queue(128, 1280, 31, 0, 512, GiB),
     Queue(128, 1, 3, 0, 4096, GiB),        \* less than a block per request
     Queue(128, 4, 4095, 4095, 4096, GiB),
     Queue(128, 64, 3, 0, 16384, GiB),      \* block of four pages
     Queue(128, 64, 3, 0, 32768, GiB),
     Queue(128, 64, 5, 0, 512, GiB), Queue(128, 64, 1023, 0, 512, GiB),
     Queue(128, 2, 3, 511, 4096, GiB)}      \* refused

Format(l, s, p, o, r) == [lba |-> l, size |-> s, pi |-> p, pioff |-> o, ref |-> r]
MCFormats ==
    {Format(0, 8, 8, 0, TRUE), Format(4096, 0, 0, 0, FALSE),      \* refused
     Format(32768, 8, 8, 0, TRUE), Format(32768, 16, 16, 0, TRUE),
     Format(32768, 16, 8, 4, TRUE), Format(32768, 8, 0, 0, FALSE)}

Sg(l, o, i, s, w) ==
    [len |-> l, asked |-> o, block |-> 512, input |-> i, scattered |-> s, write |-> w]
MCSgArgs ==
    {Sg(l, o, i, s, w) : l \in {0, 512, 520},
                         o \in {<<0, 0>>, <<0, 512>>, <<0, 1000>>, <<0, 1073741312>>,
                                <<0, 1073741824>>, <<1, 0>>, <<1, 512>>},
                         i \in {0, 3, 4, 511, 512, 1024},
                         s \in BOOLEAN, w \in BOOLEAN}
    \cup {Sg(l, <<0, 0>>, i, FALSE, w) : l \in {1024, 130560, 131072}, i \in {512, 600, 1024, 131072},
                               w \in BOOLEAN}

MCPciArgs ==
    [page : {4096, 65536}, target : {8, 4092, 65532}, width : {4, 8}, count : {0, 1, 4},
     data : BOOLEAN]
    \* With ints of 18 bits: 16382 * 8 bytes just fit, 16384 * 8 wrap to less than none,
    \* 32768 * 8 to none and 32769 * 8 to one item; the others are counts below 0, or 1.
    \cup [page : {4096}, target : {8}, width : {8}, data : BOOLEAN,
          count : {16382, 16383, 16384, 32768, 32769, 131072, 262143, 262145}]

MCLbaFormats == [ds : {9, 12, 16}, ms : {0, 8, 16, 64, 128}]
=============================================================================
