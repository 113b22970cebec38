# A verification project for ndt

ndt boots a kernel and an NVMe test initramfs in QEMU, runs one blktests case K
times inside the guest and turns the outcome into an exit status on the host.
This directory holds TLA+ models of its moving parts, TLC configurations that
check them on small instances, and TLAPS proofs of the results that matter for
every instance.

Paths below are relative to `src/`; `rootfs` is `initramfs/rootfs`, `blktests`
is `rootfs/opt/blktests`.

## 1. The system

    host                                         guest (QEMU)
    ndt.sh ── boot_qemu ──> qemu ── ttyS0 ──<── init (PID 1)
      │                       │                    │ K times
      │ socat <── /tmp/qemu-serial.sock            v
      v                                          ./check nvme/NNN
    console.log ──> sentinel ──> exit status       │ per condition, per device
                                                   v
                                                 test body (may start miniublk,
                                                 nvmet targets, null_blk, ...)

### Inventory

| component | state it keeps | operations | talks to |
|---|---|---|---|
| host wrapper, `ndt.sh` | run directory, pids of the background shell and of socat, console.log, result line, cause | preflight, launch, wait for the socket, connect, poll, shut down, parse, exit; the EXIT/INT/TERM trap | QEMU through one Unix socket path shared by all invocations; the guest through one line of text |
| guest init, `rootfs/init`, `rootfs/vnvme_load.sh` | command line, loop index, three counters, `results/` tree | parse, validate, bring up vnvme, wait for the node, run check, fold, wipe, print, power off | `./check` through status files; the host through the sentinel |
| blktests runner, `blktests/check`, `blktests/common/rc` | groups, cases, conditions, devices, SKIP_REASONS, MODULES_TO_UNLOAD, TEST_CLEANUP, saved settings, return values on four levels | run group, run test, requires, call, clean up, judge, unload modules | test bodies through shell globals and subshells; modprobe |
| ublk server, `blktests/src/miniublk.c`: queue | per tag flags and result, two in-flight counters, STOPPING and IDLE, both rings, I/O buffers | fetch, submit, wait, reap, complete, idle in and out, stop | the ublk driver and the backing file through io_uring |
| ublk server: control plane | /dev/ublkcN, the daemon process and its pid, device state in the driver | add, del, recover, list | the driver, the forked daemon, other command invocations |
| nvme target helpers, `blktests/common/nvme`, `blktests/tests/nvme/rc` | configfs tree, loop devices, connected controllers | set up and tear down targets, connect, wait for states | the kernel's nvmet and nvme drivers |
| C helpers of test cases, `blktests/src`: `dio-offsets.c`, `metadata.c`, `discontiguous-io.cpp`, `pcimem.c`, `mount_clear_sock.c`, `nvme-passthrough-meta.c`, `nvme-passthru-admin-uring.c` | buffers and their sizes, patterns, vectors, command structures, child processes | set up from queue limits or a format, transfer, compare, report by exit status or output | the kernel through O_DIRECT, io_uring, SG_IO, mmap, passthrough ioctls; the test case through the exit status |
| tracing helper, `rootfs/usr/local/bin/vnvme-trace` | tracefs | on, off, show | tracefs |
| build scripts, manual bring-up scripts | none | straight-line command lists | – |

### What is hard here

* **Text as a protocol.** The host learns the verdict from one line on a serial
  console that other writers share and that is read while it is still being
  written (`ndt.sh:315-320`). Reading a prefix must never yield a pass that the
  guest did not report.
* **Two pids for one machine.** `qemu_pid` is the background shell, not QEMU
  (`ndt.sh:284`).
* **One socket path for everybody** (`ndt.sh:256`, `ndt.sh:296`).
* **Files left from an earlier iteration** (`rootfs/init:159-161`): a run of
  `./check` may write any subset of the status files.
* **Error status through four levels of shell functions and subshells**
  (`blktests/check:693-905`), with globals that survive from device to device.
* **A ring of fixed size shared by two kinds of entries**, counters that decide
  when a thread may sleep without a timeout and when it may leave, and requests
  delivered by task work at any return to user space (`miniublk.c:609-862`).
* **Offsets and sizes computed apart.** The C helpers size a buffer from some
  limits of a device and address it with others (`dio-offsets.c:93`,
  `metadata.c:343`, `nvme-passthrough-meta.c:187`, `pcimem.c:105`); for which
  devices this fits is written nowhere.
* **A test that cannot fail, or cannot pass.** A helper that compares too little,
  or expects a refusal that the rules do not require, gives a wrong verdict on the
  kernel it tests.

Each of these is a hazard in `PROJECT.json`, with the line where it bites and the
properties that would catch it going wrong.

## 2. Modules

| module | models | abstract specification |
|---|---|---|
| `GuestContract` | what the host may assume about a guest | is one |
| `NdtInit` | `rootfs/init` | implements `GuestContract` |
| `NdtHost`, `MCNdtHost` | `ndt.sh` in test mode, any number of invocations, QEMU, socat | assumes `GuestContract` of every guest |
| `RequestService` | what a block device queue promises | is one |
| `UblkQueue` | one queue thread of miniublk with the null or loop target | implements `RequestService` |
| `UblkDaemon` | the commands add, recover and del of miniublk and its daemon | relies on what `UblkQueue` shows of a queue thread |
| `BlkCheck`, `MCBlkCheck` | the runner from `_check` down to `_call_test` | – |
| `DioOffsets` | `dio-offsets.c` (block/042) | – |
| `Metadata` | `metadata.c` (block/043) | – |
| `DiscontigIo` | `discontiguous-io.cpp` (srp/013) | – |
| `PciMem` | `pcimem.c` (nvme/068) | – |
| `MountClearSock` | `mount_clear_sock.c` (nbd/003) | – |
| `PassthroughMeta` | `nvme-passthrough-meta.c` (nvme/064) | – |
| `AdminUring` | `nvme-passthru-admin-uring.c` (nvme/067) | – |
| `MCHelpers` | the seven helpers above, one of them per behaviour | – |
| `NdtInitProofs`, `NdtHostProofs`, `UblkQueueProofs`, `UblkDaemonProofs`, `BlkCheckProofs` | theorems about the module they are named after | – |
| `VectorProofs` | theorems about `DioOffsets` and `DiscontigIo`, and what the sum of a vector's lengths is | – |
| `MetadataProofs` | theorems about `Metadata` | – |
| `HelperProofs` | theorems about `PciMem`, `MountClearSock`, `PassthroughMeta` and `AdminUring` | – |

### NdtInit
`pc` is the position in the script: `boot` (init:64), `validate` (87), `load`
(99), `configfs` (104), `wait` (113), `loop` (127), `fold` (135), `wipe` (159),
`poweroff`, and `shell` for the interactive exec. `results` maps each directory
below `results/` to the status line of the case's file. `RunCheck` lets
`./check` rewrite any subset of the files with any statuses, an empty file
included, which is all init can know about it. `good` is a history variable:
the iterations whose own run left a pass and no fail. The validity of the
command line is three-valued (absent, malformed, a number); the text itself does
not matter to any property. External: when the device node appears
(`NodeAppears`), a kernel panic (`Panic`), a helper or test case that does not
return (`Hang`).

### NdtHost
Every run has its own wrapper (`pc`, `exit`, `cause`, `rd`), background shell
(`sub`), QEMU process (`qemu`), socat (`socat`, `conn`, `buf`) and console.log
(`con`); `sock` is the QEMU that owns the shared path. The sentinel is four
pieces: its prefix, `pass=` with the first digits, the other digits, the rest.
Pieces may be lost (nobody connected, or garbled by a kernel message on a
`Noisy` console) but not reordered. `Reading` is what the parser of
`ndt.sh:358-379` gets from the pieces that are there: a field that is missing
counts as zero, and a torn pass counter yields a decimal prefix of it. One
action per step of the poll loop, because QEMU, socat and Ctrl-C act between
them. The trap does not leave the script (`Interrupt` keeps `pc`), as in bash.

### UblkQueue
`flags`, `result`, `cmd_inflight`, `io_inflight`, `stopping`, `idle` are the
fields of `struct ublk_io` and `struct ublk_queue`; `sqe` and `cqe` are the
rings, `busy` the target I/Os under way, `drv` the driver's view of a tag. One
completion is handled per step, in any order between tags. `ublk_complete_io`
includes `ublk_queue_io_cmd` and its way out when no submission entry is free.
`Discard` is one `madvise` of the idle transition, because task work can deliver
a request between two of them. `outcome` (the result of the target I/O) and
`buf` (whether the buffer holds the data of a write) belong to the environment.
External: the driver stops a device by waiting for the outstanding requests
before it aborts commands (`Drained`), which is what `del_gendisk` does. It may
refuse a fetch (`HandleError`), not the commit of a request the thread has.

The target (`tgt`) is part of the initial state, so one run covers both. So is
`unsup`: whether the device sends requests the loop target does not support. The
parameters both targets set (`UBLK_PARAM_TYPE_BASIC` alone, `miniublk.c:1297`) rule
that out, but recover keeps those of whoever added the device (`miniublk.c:1085`).
For such a request `loop_queue_tgt_io` has taken a submission entry before it returns
-ENOTSUP or -EINVAL; the entry stays in the ring unprepared (`stale`) and the answer
takes a second one. When it is submitted the kernel runs the command the entry was last
used for. The model goes as far as that submission (`SubmitUnprepared`, `qpc =
"astray"`).

### UblkDaemon
Every invocation of miniublk is a command `p` with its position `pc[p]`, the
number it works on, what it read with GET_DEV_INFO (`seen`, `ipid`), its queue
threads `th` and what it `hold`s of /dev/ublkcN. Between any two control commands
of one process all the others may act. A device is identified by the add that made
it, so that two devices with the same number can be told apart (`gen`, `stray`).
`ublk_start_daemon` is `Fork`, `ublk_dev_prep`, `ublk_ctrl_start_dev`, `Join`,
`ublk_dev_unprep`; then DEL_DEV, on every path, as in cmd_dev_add and
cmd_dev_recover. `careless` records that the commands were used in a way the tests
under `blktests/tests/ublk` avoid: two at a time, one while a daemon is still
starting, a kill in the middle of a command, recover before the driver noticed the
death, or a daemon that outlives the three seconds del waits for it. External:
the driver's side of each control command, and that DEL_DEV returns only when the
node is closed and the number free. That aborted commands end the queue threads
(`QueuesEnd`) is what `StopEndsThread` shows of `UblkQueue`.

### BlkCheck
The four levels of `check` are one control flow: group, case, condition and
device loops, with the return values `gret`, `ret`, `drc`, `rc`. `skip` records
for each skip reason the condition and device it was found for, so that a leak is
visible; `mine`, `stuck`, `how` and `failed` are history. What `requires()`,
`device_requires()`, `fallback_device()` and the body do is chosen freely. A body may
end the subshell of its case (`BodyExits`) with any status: `exit 0` makes the case a
success whatever its earlier devices or conditions recorded, so `casefail`, the
failure the case owes its caller, is wiped out there. It may also replace the EXIT
trap, as `tests/srp/013:38` does (`trapped`): then `_cleanup` does not run when it
ends the subshell.

### The C helpers
A test case starts one of these programs and believes its exit status or output, so
the question is the same for all of them: does it hand the kernel what it means
to, and is its verdict earned? `MCHelpers` picks one program per behaviour and
leaves the variables of the others alone.

* `DioOffsets`. `geo` holds the program's static variables, computed from the queue
  limits by `init_args` and `init_buffers`. Every `test_*` function of the source is
  an operator of the same name that returns what the function does: the ranges it
  transfers, whether a refusal is tolerated or required, and the ranges it
  compares. `WriteOut`, `Again` and `compare` carry it out. `in_buf` is abstracted
  to the set of ranges that equal `out_buf`, so that comparing bytes that were not
  read is visible. External: a vector whose addresses and lengths are not multiples
  of the DMA alignment or whose total is not whole blocks is refused, one of whole
  blocks is taken, for anything in between both answers are possible (they differ
  between kernel versions). If not `honest`, the device may also get a byte at
  either end of a vector wrong, which stands for a short transfer as well.
* `Metadata`. The patterns are byte for byte those of the program; a block of data is
  represented by its first byte, because the pattern continues from there. In each
  round the write may be lost, or the read may end early, continue with the wrong
  metadata after a split, or with shifted data; one such fault per behaviour.
* `DiscontigIo`. The offset, given as two halves of 32 bits of which `offs` keeps the
  lower (`Offs`), the vector, what `std::cin.gcount()` makes of it at the end of the
  input, the command block, and what is printed.
* `PciMem`. The mapping and the condensed dump. The numbers are ints (`ToInt`): the
  count and the size of the mapping keep the low bits, and a product that overflows,
  which is undefined, either wraps or is computed in 64 bits (`Products`). A load
  outside the mapping returns anything or kills the program (`ReadFaults`).
  `WriteAstray` is the store through a pointer that was never set.
* `MountClearSock`. The parent and its children as processes; a child may be killed.
* `PassthroughMeta`. `cmd` is the one command structure; `Prepare` sets the fields
  each step sets.
* `AdminUring`. `held` is what the clean-up labels have to give back.

## 3. Runs

| run | question | result |
|---|---|---|
| `guest` | does init count honestly, report at most once, and power off? | holds |
| `guest_kunit` | does `--kunit` produce a sentinel, as ndt.sh says? | no: init never looks for `ndt.kunit` |
| `host_one` | is exit 0 earned, console.log final, and does every run end? | holds for one invocation |
| `host_shared` | the same verdict property with two invocations | violated: a run reports the other's guest |
| `host_torn` | does a complete success always exit 0? | violated: the line can be read half-written |
| `host_leak` | is QEMU gone when the wrapper is? | violated on timeout and Ctrl-C |
| `queue` | ownership of tags, counters, ring space, service refinement, progress | holds, up to an unprepared entry |
| `queue_write` | is a write carried out with its data? | violated in the idle transition |
| `daemon` | are devices deleted, served, recovered and numbered correctly while commands interleave and daemons die? | holds, with the exceptions named below |
| `check` | do device failures reach the exit status, skip reasons stay put, cleanups run, modules go? | holds, with the exceptions named below |
| `check_exit` | non-zero exit whenever a test failed? | violated for `test()` cases |
| `helpers` | do the C helpers stay in their buffers, send what was asked for, and judge fairly? | holds, for the devices each property names |

### What the properties say
* `HonestTally`: pass is the number of iterations whose *own* run passed.
* `ImplementsContract`: refinement of `GuestContract`; the mapping keeps `line`
  and `power` and reads `asked` and `iters` off the command line.
* `TestModeEnds`, `EveryRunEnds`, `EveryRequestAnswered`, `StopEndsThread`:
  liveness, see fairness below.
* `OwnVerdict`: exit status 0 only if the run's own guest passed all K
  iterations. `PassFromGuest`, its weaker form for any number of invocations, is
  proved.
* `ConsoleFinal`: action property, no byte reaches console.log after the exit.
* `IInv`, `HInv`, `QInv`, `CInv`: the inductive invariants (section 5), checked by
  TLC before they were proved. Each contains the module's type invariant.
* `SqNeverFull`: the path whose error nobody looks at is never taken while there is no
  unprepared entry in the ring. `LostToStale`, a part of `QInv`, says that without such
  an entry no answer is lost, and that only a device whose parameters allow unsupported
  requests, on the loop target, ever has one. With one entry per tag and one unprepared
  the ring can be full, and then an answer is lost.
* `EveryRequestAnswered`, `StopEndsThread` except a thread that submits an unprepared
  entry. The second has another exception: if the driver refused every fetch the thread
  is not told to stop (`miniublk.c:763-781`) and waits for ever.
* `ImplementsService`: a request is performed, then answered, once; the thread
  leaves only when it owes nothing. A tag is pending while the driver or the
  daemon has its request and no target result, performed once it has one.
* `NoOrphan`: a device that is not being deleted has a process that will delete it,
  unless its daemon was killed. `LiveServed`: a LIVE device has its daemon's
  threads behind it. `DelDone`: a del that ended leaves its device deleted.
  These three hold for every interleaving.
* `OwnOnly` and `RecoverChecked` hold as long as the commands are not used
  carelessly in the sense above: numbers are not confused and a recovered backing
  file is compared with the device. Without that proviso both fail: a late DEL_DEV
  of an old daemon deletes a new device of the same number, and a state read too
  early selects `init_tgt`.
* `DelEnds`: every del ends unless a daemon is wedged; the two ways to be wedged are
  a failed `ublk_queue_init` (START_DEV waits for ever) and a failed target set-up
  (the daemon deletes its device while it has the node open itself).
* `DeviceFailSeen`, `NotRunEarned`, `CleanStart`, `ModulesRemoved`, `NeedsMet`: see
  the comments in `BlkCheck`. `DeviceFailSeen` has an exception: a later body of the
  same case that ends the subshell with exit 0. `CleanStart` has one: a body that ends
  the subshell behind a trap of its own. `ModulesRemoved` has one: a case that made
  no call (no device, or an early return of a fallback device) keeps its modules,
  although `common/rc:52-53` says they go "regardless of whether the test case is
  skipped or executed". `NeedsMet` has another: from the second device
  on a body may run without the drivers that `requires()` loaded.
* `DioInBounds` holds for devices with at least 25 segments, blocks of at most four
  pages, a DMA alignment of at most a page and room for the buffer (`Roomy`);
  outside, the tests reach behind it. That the alignment matters came out of the
  proof: with blocks and alignment of two pages `test_unaligned_page_vectors` starts
  its first vector a page before the buffer (`dio-offsets.c:283-285`).
* `DioVerdictFair` holds for the alignments in `Decided`. It fails for byte
  alignment, although `dio-offsets.c:643-645` says of that case "this should
  succeed": line 625 declares a valid vector invalid, and line 691 writes where it
  should read and then compares bytes this test never read. It also fails for
  alignments of 8 and 16 bytes where 320 vectors are whole blocks, and for those
  longer than 16 bytes but shorter than half a block, where line 601 compares bytes
  between the vectors.
* `DioCorruptionSeen`: no byte that came back wrong is missed, except in the second
  half of a vector in `test_max_vector_limits`.
* `MetaInBounds` holds for the formats in use (4 bytes to spare at 32 KiB blocks
  with 8 bytes of metadata). `MetaFaultsSeen` says exactly which shifts the patterns
  cannot show. `MetaVerdictFair`: what is checked is what was written, for every
  format.
* `SgCommandExact`, `SgSendsInput`, `SgShowsData`: the command names the blocks at
  the lower 32 bits of the offset that was asked for, which are the ones asked for
  below 4 GiB (with `-o 4294967296` it names block 0), sends no byte that did not
  come from the input, prints none that did not come from the device. The miscounted
  last piece (line 305) is harmless only because its length is never a whole number
  of blocks.
* `PciMapped`, `PciDumpFaithful`: accesses hit the mapping as long as its size fits an
  int (`Fits`; `d*268435456` does not, maps one page and reads on) and there is an item,
  and the values read can be recovered from the condensed output.
* `RoundsApart`: children of two rounds never run at once, mounts do not stack.
* `PassthruInBounds`, `PassthruFair`: for the formats nvme/064 asks for. A positive
  status of a command counts as success in all steps but the last, so a device that
  refuses everything passes; the property only says that a store into the
  read-only mapping does not.
* `UringCleanExit`: nothing is left allocated, on every path.

### Bounds
* `NdtInit`: two result directories (a fold of two statuses shows every
  combination the case statement tells apart), three iterations (a stale file
  needs two, the third shows that nothing accumulates), three probes instead of 20.
* `NdtHost`: one run with ten iterations, so that the counter has two digits and
  can be torn; two runs for the shared socket. The model reads at most three
  digits (`HostAssumption`).
* `UblkQueue`: depth 2. Ring space and counters are sums over tags, interference
  is between a tag and one other; the safety part is proved for every depth.
* `UblkDaemon`: three commands on one number: one makes a device, one deletes or
  recovers it, the third is the one that gets hit. All state of the driver is per
  number, so a second number adds nothing.
* The helpers: all sizes are the real ones, except that an int of `PciMem` has 18 bits
  (`IntMax`), so that counts that overflow it are within TLC's own integers, and that
  at most four items are read (`MaxItems`). The inputs are queue limits of common
  drivers and each limit at its boundary, formats with and without tags, offsets at
  the end of 21 bits and beyond 32, lengths of 255 and 256 blocks, inputs that end inside a
  piece, four registers with two values, three rounds. Of the 13 tests and 512
  rounds none is left out.
* `BlkCheck`: two groups, two cases, two conditions, two devices, one module:
  each loop can carry something from one round to the next and lose it. The
  violation runs use one group.

`CHECK_DEADLOCK FALSE` is set throughout because every one of these programs
ends: a powered-off guest, an exited wrapper, thread or runner has no step left.

### Fairness
* `NdtInit`: weak fairness of `Script`. PID 1 is always runnable; a helper that
  never returns is the `Hang` step.
* `NdtHost`: weak fairness of the wrapper, a running shell; strong fairness of
  `Timeout`, because wall-clock time passes and a loop that keeps coming back to
  the clock finds the budget spent. Nothing is assumed of QEMU, socat or guest.
* `UblkQueue`: weak fairness of the thread and of handling each completion (a
  reap drains the ring); strong fairness of `Deliver`, since task work runs every
  time the thread is in the kernel; weak fairness of `TargetDone` and `AbortCmd`,
  which io_uring and the driver owe. No fairness of `NewRequest` and `StopDev`.
* `UblkDaemon`: weak fairness of a started process and of the end of aborted queue
  threads. Nobody has to start a command, kill a daemon or notice a death.

## 4. Findings
Six runs end in a violation; `PROJECT.json` quotes for each the line of the
repository that says otherwise. The two that concern the verdict are that two
concurrent invocations can swap guests, and that a success read half-written is
reported as a failure. The reverse of the latter, a failure reported as a
success, is excluded by `OwnVerdict` for a single invocation.

## 5. Proofs

| theorem | says |
|---|---|
| `GuestInvariant` | `Spec => []IInv` |
| `GuestHonest` | `Spec => []HonestTally` |
| `GuestImplementsContract` | `Spec => ImplementsContract` |
| `WrapperInvariant` | `Spec => []HInv`, any number of runs |
| `WrapperSound` | `Spec => []PassFromGuest`, any number of runs |
| `SingleRunOwnVerdict` | with one run, not `--kunit`, `Spec => []OwnVerdict` |
| `ConsoleIsFinal` | `Spec => ConsoleFinal`, any number of runs |
| `QueueInvariant` | `Spec => []QInv`, any depth, both targets |
| `QueueSqNeverFull` | `Spec => []SqNeverFull` |
| `QueueImplementsService` | `Spec => ImplementsService`, the refinement of `RequestService` |
| `DaemonInvariant` | `Spec => []DInv`, any number of commands and numbers |
| `DaemonLeavesNoOrphan`, `DaemonServesLive`, `DelLeavesDeleted`, `CommandsHitTheirOwn`, `RecoveryIsChecked` | `NoOrphan`, `LiveServed`, `DelDone`, `OwnOnly`, `RecoverChecked` |
| `CheckInvariant` | `Spec => []CInv`, any groups, cases, conditions, devices, modules |
| `CheckSeesDeviceFails`, `CheckNotRunEarned`, `CheckStartsClean`, `CheckRemovesModules`, `CheckNeedsMet` | `DeviceFailSeen`, `NotRunEarned`, `CleanStart`, `ModulesRemoved`, `NeedsMet` |
| `DioStaysInBounds`, `DioSeesCorruption`, `DioVerdict` | `DioInBounds`, `DioCorruptionSeen`, `DioVerdictFair`, any page size and queue limits |
| `MetaStaysInBounds`, `MetaSeesFaults`, `MetaVerdict` | `MetaInBounds`, `MetaFaultsSeen`, `MetaVerdictFair`, any format |
| `SgNamesBlocks`, `SgSendsOnlyInput`, `SgShowsWhatWasRead` | `SgCommandExact`, `SgSendsInput`, `SgShowsData`, any 64-bit offset, any length of up to 65535 pieces |
| `PciStaysMapped`, `PciDumpIsFaithful` | `PciMapped` where the size fits an int, `PciDumpFaithful`; any page size, offset, width, count, values and size of an int |
| `RoundsStayApart` | `KidSpec => []RoundsApart`, any number of rounds |
| `PassthruStaysInBounds`, `PassthruVerdict` | `PassthruInBounds`, `PassthruFair`, any format |
| `UringExits` | `UringSpec => []UringCleanExit` |

Every safety property that a passing run checks is the subject of one of them.

**Guest.** `HonestTally` is not inductive: whether the next fold counts correctly
depends on which files are on disk. `FreshResults` says they all belong to the
iteration being folded, `Counting` that the counters account for every finished
iteration, `LastWord` that a sentinel is followed by nothing but the power-off.
The refinement theorem needs the last two: the printed tally must add up to K and
no step may change it. Assumes `InitAssumption` (finite set of directories,
natural bounds).

**Host.** `HInv` follows the sentinel: `Provenance` (bytes in console.log come
from the guest socat connected to, and that guest has decided on its line),
`TallySums` (the contract), `ReadBelow` (what was parsed never exceeds what the
guest wrote: a decimal prefix of n is at most n), `ExitFromVerdict`, and
`SocatBracketed` (socat runs only between its start and its kill, which is what
`ConsoleFinal` needs). With one run, `conn[r]` can only be `r`, and a tally of at
least K passes out of K is K passes and nothing else. Assumes `HostAssumption`.

**Queue.** `OwnedOnce` puts every tag in exactly one of twelve places, on which
`ios[].flags`, both rings, the target and the driver agree. `Counters` equates the
two counters with the sizes of sets of tags; that it is kept rests on `CountMove`
(one tag changes its set). `SqNeverFull` follows because a tag with a completion has
no entry in the ring, and no tag has more than one, so fewer than Depth are taken
(`SqRoom`), unless an unprepared entry takes one of them. For the refinement,
`ServiceSteps` takes each action under `QInv` to a step of `RequestService` or a
stutter: the place of a tag decides what the service sees of it, and a thread that
may leave owes nothing. Assumes `QueueAssumption`.

**Control plane.** `DInv` has two layers. The first holds for every interleaving:
`Flow` (what a command at a position holds and has learnt), `Naming` (a number
belongs to one device at a time), `DaemonStates`, `Nodes` (who has a node open) and
`Live`, with `NoOrphan`, `LiveServed` and `DelDone` as consequences. The second,
`Careful`, is conditional on `~careless`: `Tidy` then says that at most one command is
under way (`OneBusy`), that a daemon serves or is being waited for, has no rival and
has the number of its own device, and that what GET_DEV_INFO returned is still
true (`FreshInfo`). From it no STOP_DEV, DEL_DEV or recovery strays. `careless` is
never reset, so each part is proved from `~careless'` only. Assumes
`DaemonAssumption`.

**Runner.** `CInv`: `LoopsInStep` (the positions of the four loops fit together),
`FailCarried` (a failure of a device case that no exit 0 wiped out is in one of the
four return values until it is in the exit status, which is what `DeviceFailSeen`
lacks), `SkipScoped` (reasons belong to the condition and device at hand),
`CleanOutside` (nothing saved outside a call, unless a body left behind its own
trap), `UntrappedEnds`, `ModulesTracked` and `ReadyToCall`. Assumes
`CheckAssumption`.

**dio-offsets.** `DioInv` says that the limits are `Sane` and the size of the buffer is
what `init_buffers` computes from them; `BuffersAreAmple` then gives the space the
offsets need, test by test. For the verdict, `Whole` adds that the sizes are
multiples of one another: `SureTests`, `RefusedTests` and `MaxVectorFair` show that
no test relies on a vector the kernel need not take or declares one invalid that is
not, and `FairInv` that an honest read makes equal what is compared. `SeenInv` keeps,
from the read to the comparison, that a wrong byte lies at an edge of a vector and in
no range of in_buf that is right (`ByteLost`, `LostIsSeen`). `DioAssumption` says that a
page is a power of two of at most 64 KiB, as on the machines ndt targets, and that a
block is whole sectors and a device whole blocks, which the kernel sees to.

**metadata.** `MetaInv` records which offsets have been compared and what the device
holds; the work is in the lemmas about the patterns: a tag that is put into bytes
reads back, `CleanIsGood` for what was written, `LostShows`, `ShortShows`, `SplitShows`
for each fault. Assumes `MetadataAssumption`.

**discontiguous-io.** `Raw` is the vector `append` builds, `Filled` what reading stdin
makes of it, `Exact` what a command block says. `SgAssumption` has two conditions that
matter: the block size is a multiple of 512, as a SCSI disk reports it, and a
scattered vector has at most 65535 pieces, since `iovec_count` is an unsigned short.

**Sums.** What `data_len` and `Total` compute is a recursive function, and the library's
induction rules cannot be applied. `VectorProofs` derives induction from the least
element of a set instead: `Least` is the minimum of the well-founded order on Nat, and
`UpTo` says that a set with 0 that is closed under successors has all the numbers up to
N. The set is a term, not an operator, which the provers can instantiate. From it follow
`DataUpToStep`, `EqualPieces`, `OneChanged` and `SumDivides`.

**The other helpers.** `PciInv` adds that the window reaches behind the last item from
the moment it is mapped, if the size fits an int; `PciProducts` shows that then no
product wraps. `DumpInv` says that each item has a line that tells it
(`Tells`), that a line is followed by its successor or by one mark (`Spaced`), and that
`dupped` is TRUE exactly while the output ends with a mark (`EndsWith`). `KidInv` says
which children there can be at each position of the parent and that a mounted device
has a child that will unmount it, or is `dirtied`. `CmdOfStep` gives the one reused
command structure of nvme-passthrough-meta at each step. `UringInv` lists what is held
at each label. Assume `PciAssumption`, `LoopsAssumption`, `LbaFormatsAssumption`.

**Only model-checked:** the liveness properties `TestModeEnds`, `EveryRunEnds`,
`EveryRequestAnswered`, `StopEndsThread` and `DelEnds`: liveness under fairness is out of
the prover's reach.

## 6. Not modelled
Argument parsing, `--last`, `--help` and the interactive session of ndt.sh (no state
the verdict depends on); Ctrl-C before the trap is set; the wording of summaries;
finding and filtering of test cases in `check`; `vnvme-trace`; the build scripts,
which stop at the first error and keep no state; the test bodies, which exercise the
kernel; the C helpers that make a single call and report its result (`loblksize`,
`loop_change_fd`, `loop_get_status_null`, `nbdsetsize`, `openclose`, `zbdioctl`,
`ioctl-lbmd-query`, `sg/dxfer-from-dev`) and the generated `sg/syzkaller1.c`; what
the kernel does with the old command in an unprepared submission entry of miniublk
(repeat an old write, answer a tag twice); transfers of 2 GiB and more in
`dio-offsets`; `miniublk list`, which only reads. The reuse of process ids in
`ublk_stop_io_daemon` is left out as well.

## 7. Plan
1. **NvmetTarget**: set-up and tear-down of `blktests/common/nvme` in the order
   the helpers impose, with a body that ends at any point, and the invariant that the
   tear-down leaves configfs empty.
2. Proofs of the safety part of the liveness arguments: a variant that every step of
   `del` lowers, and that a thread which sleeps without a timeout has something to
   wake it up.
3. `vnvme-trace` and the CPU and cgroup helpers of blktests, where `_cleanup`
   has to take back what they did.
