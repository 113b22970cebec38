------------------------------ MODULE NdtInit ------------------------------
(***************************************************************************)
(* The guest's PID 1 (initramfs/rootfs/init): parse the kernel command     *)
(* line, bring up the vnvme endpoint, run ./check the requested number of  *)
(* times, fold the per-device status files into pass/fail/skip, print one  *)
(* NDT_RESULT sentinel on ttyS0 and power off.                             *)
(*                                                                         *)
(* External to this script, and therefore chosen freely: the outcome of    *)
(* /vnvme_load.sh, when the NVMe driver publishes /dev/nvme0n1, which      *)
(* status files a run of ./check leaves behind, and a kernel panic.        *)
(***************************************************************************)
EXTENDS Naturals, FiniteSets

CONSTANTS
    Devs,       \* directories below results/: nodev, nvme0n1, nodev_tr_loop, ...
    MaxIter,    \* bound on ndt.iter
    MaxTries    \* how often the device node is looked for (20 in the script)

ASSUME InitAssumption == IsFiniteSet(Devs) /\ MaxIter \in Nat /\ MaxTries \in Nat

VARIABLES
    cmd,        \* /proc/cmdline: shape of ndt.test and ndt.iter, K, ndt.kunit
    pc,         \* where the script is
    i,          \* iterations completed so far (the loop index minus one)
    pass, fail, skip,
    results,    \* results/<dev>/nvme/NNN: "none" or the text of its status line
    tries,      \* probes of /dev/nvme0n1 made so far
    node,       \* /dev/nvme0n1 exists
    line,       \* the sentinel printed on ttyS0
    power,      \* "on" | "off"
    good        \* history: iterations whose own check run passed and never failed

vars == <<cmd, pc, i, pass, fail, skip, results, tries, node, line, power, good>>

NoLine == [kind |-> "none"]
ErrorLine == [kind |-> "error"]

Shapes == {"absent", "bad", "number"}
\* Status lines written by blktests' check; "empty" is a file without one.
Statuses == {"pass", "not run", "fail", "empty"}
Pcs == {"boot", "validate", "load", "configfs", "wait", "loop", "fold", "wipe",
        "poweroff", "shell", "hung"}

Init ==
    /\ cmd \in [test : Shapes, iter : Shapes, k : 0 .. MaxIter, kunit : BOOLEAN]
    /\ pc = "boot"
    /\ i = 0 /\ pass = 0 /\ fail = 0 /\ skip = 0
    /\ results = [d \in Devs |-> "none"]
    /\ tries = 0
    /\ node = FALSE
    /\ line = NoLine
    /\ power = "on"
    /\ good = 0

tally == <<i, pass, fail, skip>>

-----------------------------------------------------------------------------
(* Steps of the script.  Each is taken by a running machine at its pc.     *)

At(label) == power = "on" /\ pc = label

\* Mutant: the error is printed but the script runs on.
BadDie ==
    /\ line' = ErrorLine
    /\ pc' = "load"
    /\ UNCHANGED <<cmd, tally, results, tries, node, power, good>>

\* Print an error sentinel; poweroff -f and exit 0 follow.
ndt_die ==
    /\ line' = ErrorLine
    /\ pc' = "poweroff"
    /\ UNCHANGED <<cmd, tally, results, tries, node, power, good>>

Goto(label) ==
    /\ pc' = label
    /\ UNCHANGED <<cmd, tally, results, tries, node, line, power, good>>

\* No ndt.test on the command line: exec /bin/bash on the console.  ndt.kunit
\* is not among the tokens that are looked for.
ParseCmdline ==
    /\ At("boot")
    /\ IF cmd.test = "absent" THEN Goto("shell") ELSE Goto("validate")

\* The three command line checks and the look-up of the test file.
Validate ==
    /\ At("validate")
    /\ \E found \in BOOLEAN :
         IF cmd.iter = "number" /\ cmd.k > 0 /\ cmd.test = "number" /\ found
         THEN Goto("load")
         ELSE ndt_die

\* /vnvme_load.sh runs without `set -e`: only its last command decides.
LoadVnvme ==
    /\ At("load")
    /\ \E ok \in BOOLEAN : IF ok THEN Goto("configfs") ELSE ndt_die

Hotplug ==
    /\ At("configfs")
    /\ \E present \in BOOLEAN : IF present THEN Goto("wait") ELSE ndt_die

\* The nvme driver binds the endpoint and udev creates the node, at any time
\* after the hotplug trigger (external).
NodeAppears ==
    /\ power = "on"
    /\ pc = "wait"
    /\ ~node
    /\ node' = TRUE
    /\ UNCHANGED <<cmd, pc, tally, results, tries, line, power, good>>

\* Mutant: the probe loop never gives up.
BadWaitNode ==
    /\ At("wait")
    /\ \/ node /\ Goto("loop")
       \/ ~node /\ UNCHANGED vars

\* One probe; after the last failed one the node is tested again (init:119).
WaitNode ==
    /\ At("wait")
    /\ \/ node /\ Goto("loop")
       \/ /\ ~node
          /\ tries < MaxTries
          /\ tries' = tries + 1
          /\ UNCHANGED <<cmd, pc, tally, results, node, line, power, good>>
       \/ ~node /\ tries = MaxTries /\ ndt_die

\* What the fold makes of a set of status lines: any fail wins, else any pass.
Outcome(ss) ==
    CASE "fail" \in ss -> "fail"
      [] "fail" \notin ss /\ "pass" \in ss -> "pass"
      [] OTHER -> "skip"

\* History only: the statuses of one check run say the case passed.
Clean(ss) == "pass" \in ss /\ "fail" \notin ss

\* One ./check run: it (re)writes some of the status files, maybe none.
RunCheck ==
    /\ At("loop")
    /\ i < cmd.k
    /\ \E wrote \in SUBSET Devs : \E new \in [wrote -> Statuses] :
         /\ results' = [d \in Devs |-> IF d \in wrote THEN new[d] ELSE results[d]]
         /\ good' = IF Clean({new[d] : d \in wrote}) THEN good + 1 ELSE good
    /\ pc' = "fold"
    /\ UNCHANGED <<cmd, tally, tries, node, line, power>>

Fold ==
    /\ At("fold")
    /\ LET o == Outcome({results[d] : d \in Devs} \ {"none"})
       IN  /\ fail' = IF o = "fail" THEN fail + 1 ELSE fail
           /\ pass' = IF o = "pass" THEN pass + 1 ELSE pass
           /\ skip' = IF o = "skip" THEN skip + 1 ELSE skip
    /\ pc' = "wipe"
    /\ UNCHANGED <<cmd, i, results, tries, node, line, power, good>>

\* Mutant: the results of this iteration stay for the next one.
BadWipe ==
    /\ At("wipe")
    /\ i' = i + 1
    /\ pc' = "loop"
    /\ UNCHANGED <<cmd, pass, fail, skip, results, tries, node, line, power, good>>

\* rm -rf results/*, then the loop's increment.
Wipe ==
    /\ At("wipe")
    /\ results' = [d \in Devs |-> "none"]
    /\ i' = i + 1
    /\ pc' = "loop"
    /\ UNCHANGED <<cmd, pass, fail, skip, tries, node, line, power, good>>

Emit ==
    /\ At("loop")
    /\ i = cmd.k
    /\ line' = [kind |-> "tally", pass |-> pass, fail |-> fail, skip |-> skip]
    /\ pc' = "poweroff"
    /\ UNCHANGED <<cmd, tally, results, tries, node, power, good>>

Poweroff ==
    /\ At("poweroff")
    /\ power' = "off"
    /\ UNCHANGED <<cmd, pc, tally, results, tries, node, line, good>>

\* Kernel panic: panic=-1 and QEMU's -no-reboot end the machine (external).
Panic ==
    /\ power = "on"
    /\ power' = "off"
    /\ UNCHANGED <<cmd, pc, tally, results, tries, node, line, good>>

\* A helper or a test case that never returns (external).
Hang ==
    /\ power = "on"
    /\ pc \in {"load", "configfs", "loop"}
    /\ Goto("hung")

Script == \/ ParseCmdline \/ Validate \/ LoadVnvme \/ Hotplug \/ WaitNode
          \/ RunCheck \/ Fold \/ Wipe \/ Emit \/ Poweroff

Next == Script \/ NodeAppears \/ Hang \/ Panic

Spec == Init /\ [][Next]_vars

\* PID 1 is always scheduled while the machine is on; Hang is the alternative to
\* a helper or a test case returning.
FairSpec == Spec /\ WF_vars(Script)
-----------------------------------------------------------------------------
(* Properties.                                                             *)

\* Type invariant of the script's variables and of the files it reads.
TypeOK ==
    /\ cmd \in [test : Shapes, iter : Shapes, k : 0 .. MaxIter, kunit : BOOLEAN]
    /\ pc \in Pcs
    /\ i \in Nat /\ pass \in Nat /\ fail \in Nat /\ skip \in Nat /\ good \in Nat
    /\ results \in [Devs -> Statuses \cup {"none"}]
    /\ tries \in 0 .. MaxTries
    /\ node \in BOOLEAN
    /\ line \in {NoLine, ErrorLine} \cup
                [kind : {"tally"}, pass : Nat, fail : Nat, skip : Nat]
    /\ power \in {"on", "off"}

\* The pass counter of the loop in init counts exactly the iterations whose own
\* ./check run left a pass and no fail: no status file of an earlier iteration
\* is ever folded in again, whatever files a later run leaves unwritten.
HonestTally ==
    /\ pc = "loop" => pass = good
    /\ line.kind = "tally" => line.pass = good

\* The counters account for every finished iteration, and before the loop nothing
\* has been counted.
Counting ==
    /\ i <= cmd.k
    /\ pass + fail + skip = (IF pc = "wipe" THEN i + 1 ELSE i)
    /\ pc \in {"fold", "wipe"} => i < cmd.k
    /\ pc \in {"boot", "validate", "load", "configfs", "wait"} => i = 0 /\ good = 0

\* The status files on disk belong to the iteration that is being folded.
FreshResults ==
    /\ pc \notin {"fold", "wipe"} => \A d \in Devs : results[d] = "none"
    /\ pc = "fold" =>
         good = (IF Clean({results[d] : d \in Devs}) THEN pass + 1 ELSE pass)
    /\ pc # "fold" => good = pass

\* A sentinel is printed right before the machine powers off, in test mode only.
LastWord ==
    /\ line # NoLine => pc = "poweroff"
    /\ cmd.test = "absent" => pc \in {"boot", "shell"}
    /\ line.kind = "tally" => /\ line.pass = pass /\ line.fail = fail
                              /\ line.skip = skip /\ i = cmd.k

\* The inductive invariant behind HonestTally and ImplementsContract: it ties
\* the counters of init's loop (init:127-161) to the iteration being folded.
IInv == TypeOK /\ Counting /\ FreshResults /\ LastWord

\* init implements the contract the host relies on: at most one sentinel, never
\* changed once printed, none without ndt.test, its counters adding up to K.
Contract == INSTANCE GuestContract WITH
    asked <- cmd.test # "absent", iters <- cmd.k
ImplementsContract == Contract!ContractSpec

\* Every boot with ndt.test on the command line ends with the machine off, however
\* bad the command line and whether the device shows up or not, unless a helper or
\* the test case itself never returns (init:58-62, 113-119, 164).
TestModeEnds == [](cmd.test # "absent" => <>(power = "off" \/ pc = "hung"))

\* ndt.sh:204-205: in KUnit mode init "emits a pass/fail/skip sentinel".
KunitReports == [](cmd.kunit => <>(line # NoLine \/ power = "off"))
=============================================================================
