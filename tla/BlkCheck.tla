------------------------------ MODULE BlkCheck ------------------------------
(***************************************************************************)
(* The test runner of blktests, ./check (initramfs/rootfs/opt/blktests):   *)
(* _check runs the groups, each in a subshell, _run_group the test cases   *)
(* of a group, each in a subshell of its own, _run_test the conditions of  *)
(* a case and, for test_device(), the devices of TEST_DEVS.  Module, skip  *)
(* reason, cleanup and exit status bookkeeping all happen along the way.   *)
(*                                                                         *)
(* External, and therefore chosen freely: which test cases there are, what *)
(* requires(), device_requires(), fallback_device() and the test body do   *)
(* through the helpers of common/rc, and whether modprobe succeeds.  A     *)
(* body may end the subshell with any status, 0 included, and may put an   *)
(* EXIT trap of its own in place of _cleanup (tests/srp/013:38).           *)
(***************************************************************************)
EXTENDS Naturals, FiniteSets

CONSTANTS
    Devs,           \* TEST_DEVS
    Mods,           \* kernel modules that can be loaded and removed
    MaxGroups, MaxTests, MaxConds,
    Fallback, Array, All    \* not device names

ASSUME CheckAssumption ==
    /\ IsFiniteSet(Devs) /\ IsFiniteSet(Mods)
    /\ MaxGroups \in Nat /\ MaxTests \in Nat \ {0} /\ MaxConds \in Nat
    /\ {Fallback, Array, All} \cap Devs = {}
    /\ Cardinality({Fallback, Array, All}) = 3

VARIABLES
    pc,
    groups, left,       \* groups and test cases of the group still to run
    test,               \* the test case: kind, conditions, drivers it requires
    devs,               \* TEST_DEVS in the subshell of the group
    cond, todo, cur,    \* conditions and devices still to run, TEST_DEV
    skip,               \* SKIP_REASONS, each with the condition and device it is about
    own,                \* unset_skip_reason
    unload, loaded,     \* MODULES_TO_UNLOAD and the modules in the kernel
    rc, drc,            \* status of _call_test and of _check_and_call_*
    ret, gret, cret,    \* ret of _run_test, _run_group and _check
    status,             \* status line of the current result file
    reg, dirty,         \* TEST_CLEANUP; what the subshell has for _cleanup to take back
    trapped,            \* the EXIT trap of the subshell is _cleanup
    failed,             \* history: kinds of test case with a fail status line
    casefail, owed,     \* history: the case, an earlier case failed on a device or
                        \* an array, and no exit 0 of a body wiped that out
    mine, stuck, how    \* history: modules the case loaded, those that would not
                        \* go, and whether a condition made no call or a body
                        \* ended the subshell, with or without _cleanup

levels == <<groups, left, gret, cret>>
case == <<test, devs, cond, todo, cur, own, drc, ret>>
mods == <<unload, loaded, mine, stuck>>
env == <<reg, dirty, trapped>>
fails == <<failed, casefail, owed>>
vars == <<pc, levels, case, mods, env, skip, rc, status, fails, how>>

Kinds == {"test", "device", "array"}
Tests == [kind : Kinds, conds : 0 .. MaxConds, fallback : BOOLEAN, needs : SUBSET Mods]
NoTest == [kind |-> "test", conds |-> 0, fallback |-> FALSE, needs |-> {}]

Init ==
    /\ pc = "group"
    /\ groups \in 0 .. MaxGroups /\ left = 0
    /\ gret = 0 /\ cret = 0
    /\ test = NoTest /\ devs = Devs /\ cond = 0 /\ todo = {} /\ cur = All
    /\ own = FALSE /\ drc = 0 /\ ret = 0 /\ rc = 0
    /\ loaded \in SUBSET Mods
    /\ unload = {} /\ mine = {} /\ stuck = {}
    /\ reg = "none" /\ dirty = FALSE /\ trapped = FALSE
    /\ skip = {} /\ status = "none" /\ how = "normal"
    /\ failed = {} /\ casefail = FALSE /\ owed = FALSE

Goto(label) == pc' = label
Reasons(c, d) == SUBSET {<<c, d>>}

-----------------------------------------------------------------------------
(* _check and _run_group.                                                  *)

\* group_setup and group_requires, which may load modules nobody records for
\* unloading, then group_device_requires on each device.
GroupStarts ==
    /\ pc = "group"
    /\ groups > 0
    /\ groups' = groups - 1
    /\ gret' = 0
    /\ \E more \in SUBSET (Mods \ loaded) : loaded' = loaded \cup more
    /\ \/ left' = 0 /\ UNCHANGED devs
       \/ left' \in 1 .. MaxTests /\ devs' \in SUBSET Devs
    /\ Goto("test")
    /\ UNCHANGED <<cret, test, cond, todo, cur, own, drc, ret, unload, mine, stuck, env,
                   skip, rc, status, fails, how>>

GroupEnds ==
    /\ pc = "test"
    /\ left = 0
    /\ cret' = IF gret # 0 THEN 1 ELSE cret
    /\ Goto("group")
    /\ UNCHANGED <<groups, left, gret, case, mods, env, skip, rc, status, fails, how>>

CheckEnds ==
    /\ pc = "group"
    /\ groups = 0
    /\ Goto("done")
    /\ UNCHANGED <<levels, case, mods, env, skip, rc, status, fails, how>>

-----------------------------------------------------------------------------
(* _run_test, in a subshell.                                               *)

_run_test ==
    /\ pc = "test"
    /\ left > 0
    /\ test' \in Tests
    /\ test'.kind = "array" => test'.conds = 1
    /\ test'.fallback => test'.kind = "device"
    /\ cond' = test'.conds
    /\ left' = left - 1
    /\ ret' = 0
    /\ unload' = {} /\ mine' = {} /\ stuck' = {} /\ skip' = {}
    /\ reg' = "none" /\ dirty' = FALSE /\ trapped' = FALSE /\ how' = "normal"
    /\ Goto(IF test'.conds = 0 THEN "testend" ELSE "requires")
    /\ UNCHANGED <<groups, gret, cret, devs, todo, cur, own, drc, loaded, rc, status,
                   fails>>

\* _have_driver or _load_module: modprobe, and record what it loaded.
Load(got) ==
    /\ loaded' = loaded \cup got
    /\ unload' = unload \cup got
    /\ mine' = mine \cup got

LoadMore == \E more \in SUBSET (Mods \ loaded) : Load(more)

\* Mutant: a driver that cannot be loaded is no reason to skip.
BadRequires ==
    /\ pc = "requires"
    /\ \E got \in SUBSET (test.needs \ loaded) :
         /\ Load(got)
         /\ \E other \in Reasons(cond, All) : skip' = skip \cup other
    /\ todo' = CASE test.kind # "device" -> {}
                 [] test.kind = "device" /\ devs = {} /\ test.fallback -> {Fallback}
                 [] OTHER -> devs
    /\ how' = IF test.kind = "device" /\ todo' = {} THEN "no call" ELSE how
    /\ drc' = 0
    /\ cur' = IF test.kind = "array" THEN Array ELSE All
    /\ Goto(CASE test.kind = "test" -> "call" [] test.kind = "array" -> "array"
              [] OTHER -> "devices")
    /\ UNCHANGED <<levels, test, devs, cond, own, ret, stuck, env, rc, status, fails>>

\* requires(): _have_driver loads and records what is missing; whatever cannot be
\* had becomes a skip reason, here for every device of the condition.
Requires ==
    /\ pc = "requires"
    /\ \E got \in SUBSET (test.needs \ loaded) :
         /\ Load(got)
         /\ \E other \in Reasons(cond, All) :
              skip' = skip \cup other \cup
                      (IF test.needs \subseteq loaded' THEN {} ELSE {<<cond, All>>})
    /\ todo' = CASE test.kind # "device" -> {}
                 [] test.kind = "device" /\ devs = {} /\ test.fallback -> {Fallback}
                 [] OTHER -> devs
    /\ how' = IF test.kind = "device" /\ todo' = {} THEN "no call" ELSE how
    /\ drc' = 0
    /\ cur' = IF test.kind = "array" THEN Array ELSE All
    /\ Goto(CASE test.kind = "test" -> "call" [] test.kind = "array" -> "array"
              [] OTHER -> "devices")
    /\ UNCHANGED <<levels, test, devs, cond, own, ret, stuck, env, rc, status, fails>>

\* The devices of TEST_CASE_DEV_ARRAY are looked at one by one; without any the
\* case is skipped.
DeviceArray ==
    /\ pc = "array"
    /\ \E why \in Reasons(cond, Array) : skip' = skip \cup why
    /\ Goto("call")
    /\ UNCHANGED <<levels, case, mods, env, rc, status, fails, how>>

\* Mutant: every device starts from the skip reasons of the one before.
BadNextDevice ==
    /\ pc = "devices"
    /\ \E d \in todo \ {Fallback} :
         /\ todo' = todo \ {d}
         /\ cur' = d
         /\ own' = FALSE
         /\ \E why \in Reasons(cond, d) : skip' = skip \cup why
    /\ Goto("call")
    /\ UNCHANGED <<levels, test, devs, cond, drc, ret, mods, env, rc, status, fails, how>>

\* zoned or device_requires() may add a reason, unless there is one already.
NextDevice ==
    /\ pc = "devices"
    /\ \E d \in todo \ {Fallback} :
         /\ todo' = todo \ {d}
         /\ cur' = d
         /\ own' = (skip = {})
         /\ IF skip = {} THEN skip' \in Reasons(cond, d) ELSE UNCHANGED skip
    /\ Goto("call")
    /\ UNCHANGED <<levels, test, devs, cond, drc, ret, mods, env, rc, status, fails, how>>

\* fallback_device, which may load modules, and its three early returns.
FallbackFails ==
    /\ pc = "devices"
    /\ Fallback \in todo
    /\ \/ skip # {} /\ UNCHANGED <<unload, loaded, mine>>
       \/ skip = {} /\ LoadMore
    /\ drc' = 0
    /\ todo' = {}
    /\ how' = "no call"
    /\ Goto("condend")
    /\ UNCHANGED <<levels, test, devs, cond, cur, own, ret, stuck, env, skip, rc, status,
                   fails>>

FallbackReady ==
    /\ pc = "devices"
    /\ Fallback \in todo
    /\ skip = {}
    /\ LoadMore
    /\ todo' = {}
    /\ cur' = Fallback
    /\ own' = TRUE
    /\ skip' \in Reasons(cond, Fallback)
    /\ Goto("call")
    /\ UNCHANGED <<levels, test, devs, cond, drc, ret, stuck, env, rc, status, fails, how>>

DevicesDone ==
    /\ pc = "devices"
    /\ todo = {}
    /\ Goto("condend")
    /\ UNCHANGED <<levels, case, mods, env, skip, rc, status, fails, how>>

-----------------------------------------------------------------------------
(* _call_test.                                                             *)

\* The old result files go; then a skipped case is recorded as not run.
CallSkipped ==
    /\ pc = "call"
    /\ skip # {}
    /\ status' = "not run"
    /\ rc' = 0
    /\ Goto("after")
    /\ UNCHANGED <<levels, case, mods, env, skip, fails, how>>

\* mktemp fails: `return` passes on the status of `! TMPDIR=...`, which is 0.
CallNoTmpdir ==
    /\ pc = "call"
    /\ skip = {}
    /\ status' = "none"
    /\ rc' = 0
    /\ reg' = "none" /\ trapped' = TRUE
    /\ Goto("after")
    /\ UNCHANGED <<levels, case, mods, dirty, skip, fails, how>>

CallBody ==
    /\ pc = "call"
    /\ skip = {}
    /\ status' = "none"
    /\ reg' = "none" /\ trapped' = TRUE
    /\ dirty' = TRUE
    /\ Goto("body")
    /\ UNCHANGED <<levels, case, mods, skip, rc, fails, how>>

\* The body changes settings, registers a cleanup, loads modules, may find a
\* reason to skip and may replace the EXIT trap.
BodyWorks ==
    /\ pc = "body"
    /\ reg' \in {reg, "pending"}
    /\ trapped' \in BOOLEAN
    /\ LoadMore
    /\ skip' \in {skip, {<<cond, cur>>}}
    /\ Goto("judge")
    /\ UNCHANGED <<levels, case, stuck, dirty, rc, status, fails, how>>

_cleanup ==
    /\ reg' = IF reg = "pending" THEN "ran" ELSE reg
    /\ dirty' = FALSE

\* What the EXIT trap of the subshell does: _cleanup, or what a body put in its place.
ExitTrap == IF trapped THEN _cleanup ELSE UNCHANGED <<reg, dirty>>

\* The body ends the subshell (exit, set -e, a signal), with any status: only the
\* EXIT trap runs, nothing is recorded, and the status replaces that of the case.
BodyExits ==
    /\ pc = "judge"
    /\ ExitTrap
    /\ ret' \in {0, 1}
    /\ casefail' = (casefail /\ ret' # 0)
    /\ how' = IF trapped THEN "aborted" ELSE "untrapped"
    /\ Goto("testend")
    /\ UNCHANGED <<levels, test, devs, cond, todo, cur, own, drc, mods, trapped, skip, rc, status,
                   failed, owed>>

\* Mutant: the cleanup is left to the trap at the end of the subshell.
BadJudge ==
    /\ pc = "judge"
    /\ \E s \in (IF skip # {} THEN {"not run"} ELSE {"pass", "fail"}) :
         /\ status' = s
         /\ rc' = IF s = "fail" THEN 1 ELSE 0
         /\ failed' = IF s = "fail" THEN failed \cup {test.kind} ELSE failed
         /\ casefail' = (casefail \/ (s = "fail" /\ test.kind # "test"))
    /\ Goto("after")
    /\ UNCHANGED <<levels, case, mods, env, skip, owed, how>>

\* Clean up, compare the output, look at the exit status, dmesg and kmemleak,
\* write the result file.
Judge ==
    /\ pc = "judge"
    /\ _cleanup
    /\ \E s \in (IF skip # {} THEN {"not run"} ELSE {"pass", "fail"}) :
         /\ status' = s
         /\ rc' = IF s = "fail" THEN 1 ELSE 0
         /\ failed' = IF s = "fail" THEN failed \cup {test.kind} ELSE failed
         /\ casefail' = (casefail \/ (s = "fail" /\ test.kind # "test"))
    /\ Goto("after")
    /\ UNCHANGED <<levels, case, mods, trapped, skip, owed, how>>

-----------------------------------------------------------------------------
(* After a call.                                                           *)

\* Mutant: the loop over MODULES_TO_UNLOAD misses one module.
BadUnload ==
    /\ \E one \in SUBSET unload :
         Cardinality(one) <= 1 /\ loaded' = loaded \ (unload \ one)
    /\ unload' = {}
    /\ UNCHANGED <<mine, stuck>>

\* modprobe -r with patience; a module that is still in use stays.
_unload_modules ==
    /\ \E stay \in SUBSET (unload \cap loaded) :
         /\ loaded' = loaded \ (unload \ stay)
         /\ stuck' = stuck \cup stay
    /\ unload' = {}
    /\ UNCHANGED mine

\* _check_and_call_test: its status is that of _unload_modules, always 0.
AfterTest ==
    /\ pc = "after"
    /\ test.kind = "test"
    /\ _unload_modules
    /\ drc' = 0
    /\ Goto("condend")
    /\ UNCHANGED <<levels, test, devs, cond, todo, cur, own, ret, env, skip, rc, status,
                   fails, how>>

\* Mutant: only the status of the last device is returned.
BadAfterDevice ==
    /\ pc = "after"
    /\ test.kind = "device"
    /\ drc' = rc
    /\ skip' = IF own THEN {} ELSE skip
    /\ _unload_modules
    /\ Goto("devices")
    /\ UNCHANGED <<levels, test, devs, cond, todo, cur, own, ret, env, rc, status, fails, how>>

AfterDevice ==
    /\ pc = "after"
    /\ test.kind = "device"
    /\ drc' = IF rc # 0 THEN 1 ELSE drc
    /\ skip' = IF own THEN {} ELSE skip
    /\ _unload_modules
    /\ Goto("devices")
    /\ UNCHANGED <<levels, test, devs, cond, todo, cur, own, ret, env, rc, status, fails, how>>

AfterArray ==
    /\ pc = "after"
    /\ test.kind = "array"
    /\ drc' = IF rc # 0 THEN 1 ELSE 0
    /\ _unload_modules
    /\ Goto("condend")
    /\ UNCHANGED <<levels, test, devs, cond, todo, cur, own, ret, env, skip, rc, status,
                   fails, how>>

\* Mutant: the condition loop runs once too often.
BadConditionEnds ==
    /\ pc = "condend"
    /\ ret' = IF ret # 0 \/ drc # 0 THEN 1 ELSE 0
    /\ skip' = {}
    /\ cond' = cond - 1
    /\ Goto(IF cond > 0 THEN "requires" ELSE "testend")
    /\ UNCHANGED <<levels, test, devs, todo, cur, own, drc, mods, env, rc, status, fails, how>>

\* ret=$(( ret || $? )); unset SKIP_REASONS.
ConditionEnds ==
    /\ pc = "condend"
    /\ ret' = IF ret # 0 \/ drc # 0 THEN 1 ELSE 0
    /\ skip' = {}
    /\ cond' = cond - 1
    /\ Goto(IF cond > 1 THEN "requires" ELSE "testend")
    /\ UNCHANGED <<levels, test, devs, todo, cur, own, drc, mods, env, rc, status, fails, how>>

\* The subshell ends; its EXIT trap runs, for _cleanup a second time.
TestEnds ==
    /\ pc = "testend"
    /\ ExitTrap
    /\ gret' = IF ret # 0 THEN 1 ELSE gret
    /\ owed' = (owed \/ casefail)
    /\ casefail' = FALSE
    /\ Goto("test")
    /\ UNCHANGED <<groups, left, cret, case, mods, trapped, skip, rc, status, failed, how>>

Next ==
    \/ GroupStarts \/ GroupEnds \/ CheckEnds
    \/ _run_test \/ Requires \/ DeviceArray
    \/ NextDevice \/ FallbackFails \/ FallbackReady \/ DevicesDone
    \/ CallSkipped \/ CallNoTmpdir \/ CallBody \/ BodyWorks \/ BodyExits \/ Judge
    \/ AfterTest \/ AfterDevice \/ AfterArray \/ ConditionEnds \/ TestEnds

Spec == Init /\ [][Next]_vars

-----------------------------------------------------------------------------
(* Properties.                                                             *)

\* Type invariant of the runner's bookkeeping.
TypeOK ==
    /\ pc \in {"group", "test", "requires", "array", "devices", "call", "body", "judge",
               "after", "condend", "testend", "done"}
    /\ groups \in 0 .. MaxGroups /\ left \in 0 .. MaxTests
    /\ {gret, cret, ret, rc, drc} \subseteq {0, 1}
    /\ test \in Tests
    /\ cond \in 0 .. MaxConds
    /\ devs \subseteq Devs /\ todo \subseteq Devs \cup {Fallback}
    /\ cur \in Devs \cup {Fallback, Array, All}
    /\ own \in BOOLEAN /\ dirty \in BOOLEAN /\ trapped \in BOOLEAN
    /\ casefail \in BOOLEAN /\ owed \in BOOLEAN
    /\ unload \subseteq Mods /\ loaded \subseteq Mods /\ mine \subseteq Mods /\ stuck \subseteq Mods
    /\ skip \subseteq (1 .. MaxConds) \X (Devs \cup {Fallback, Array, All})
    /\ status \in {"none", "pass", "fail", "not run"}
    /\ reg \in {"none", "pending", "ran"}
    /\ failed \subseteq Kinds
    /\ how \in {"normal", "no call", "aborted", "untrapped"}

Calling == {"call", "body", "judge", "after"}

\* Where the two loops of _run_test are: the conditions count down to 1, TEST_DEV
\* is no longer among the devices to come, and a fallback device is the only one.
LoopsInStep ==
    /\ pc \in {"requires", "array", "devices", "condend"} \cup Calling => cond >= 1
    /\ pc = "array" => test.kind = "array" /\ cur = Array
    /\ pc = "devices" => test.kind = "device" /\ todo \subseteq devs \cup {Fallback}
    /\ Fallback \in todo => pc = "devices" /\ todo = {Fallback} /\ drc = 0
    /\ pc \in Calling /\ test.kind = "device" =>
         \/ cur \in devs /\ cur \notin todo /\ todo \subseteq devs
         \/ cur = Fallback /\ todo = {}

\* A fail of a test_device() or test_device_array() case that no exit 0 wiped out
\* is on its way up in rc, drc, ret, gret or cret: whichever level still runs holds it.
FailCarried ==
    /\ owed => cret # 0 \/ (gret # 0 /\ pc \notin {"group", "done"})
    /\ casefail =>
        \/ ret # 0 /\ pc \notin {"group", "done", "test"}
        \/ drc # 0 /\ \/ pc = "condend"
                      \/ test.kind = "device" /\ pc \in {"devices"} \cup Calling
        \/ rc # 0 /\ pc = "after" /\ test.kind # "test"

\* SKIP_REASONS only ever holds reasons of the current condition, found for all its
\* devices or for this one; what unset_skip_reason leaves is about all of them.
SkipScoped ==
    /\ pc \in {"requires", "body"} => skip = {}
    /\ pc \in {"array", "devices"} => skip \subseteq {<<cond, All>>}
    /\ pc \in Calling => skip \subseteq {<<cond, All>>, <<cond, cur>>}
    /\ pc \in Calling /\ test.kind = "device" /\ ~own => skip = {<<cond, All>>}
    /\ pc = "after" /\ status = "not run" => skip # {}

\* Only a running body has settings to restore or a cleanup to run, and one that
\* ended the subshell behind a trap of its own.
CleanOutside ==
    pc \notin {"body", "judge"} /\ how # "untrapped" => ~dirty /\ reg # "pending"

\* An ended subshell has no call to come.
UntrappedEnds == how \in {"aborted", "untrapped"} => pc \in {"group", "test", "testend", "done"}

\* What the case loaded is in MODULES_TO_UNLOAD, is gone or would not go, and the
\* list is empty whenever a condition that made its calls has ended.
ModulesTracked ==
    /\ pc \notin {"group", "test", "done"} => mine \cap loaded \subseteq stuck \cup unload
    /\ how = "normal" /\ (pc \in {"requires", "condend", "testend"} \/ (pc = "devices" /\ todo = {}))
         => unload = {}

DriversReady == test.needs \subseteq loaded \/ <<cond, All>> \in skip

\* The drivers of requires() are there, or the case is skipped, until the first
\* call of the condition.
ReadyToCall ==
    /\ pc = "array" => DriversReady
    /\ pc = "devices" /\ todo # {} /\ (todo = devs \/ Fallback \in todo) => DriversReady
    /\ pc \in {"call", "body"} /\ (test.kind = "device" /\ cur # Fallback => todo = devs \ {cur})
         => DriversReady

\* The inductive invariant of _check, _run_group, _run_test and _call_test.
CInv == TypeOK /\ LoopsInStep /\ FailCarried /\ SkipScoped /\ CleanOutside /\ UntrappedEnds
        /\ ModulesTracked /\ ReadyToCall

\* A fail recorded for a test_device() or test_device_array() case makes ./check
\* exit non-zero, whatever devices, conditions, cases and groups come after it.
\* The one exception: a later body of the same case that ends the subshell with
\* exit 0 (check:461, 706-849, 851-905, 974-982, 1063-1090).
DeviceFailSeen == pc = "done" /\ owed => cret # 0

\* A call is recorded as not run only for a reason found for this very condition
\* and device: no reason leaks to the next one (check:750-766, 851-905).
NotRunEarned ==
    pc = "after" /\ status = "not run" =>
        \E d \in {All, cur} : <<cond, d>> \in skip

\* Nothing of a test body is left when the next one starts: the settings it saved
\* are restored and its cleanup ran, also when the body ended the subshell, unless
\* it did so behind an EXIT trap of its own (check:392-418, 453-467).
CleanStart ==
    /\ pc \in {"requires", "devices", "call"} => ~dirty /\ reg # "pending"
    /\ pc \in {"test", "done"} /\ how # "untrapped" => ~dirty /\ reg # "pending"

\* A test case that called _call_test for each of its conditions has removed every module it loaded
\* that could be removed (common/rc:50-53; check:680-704, 775, 847).
ModulesRemoved ==
    pc = "testend" /\ how = "normal" => mine \cap loaded \subseteq stuck

\* A body runs with the drivers requires() asked for, or the case is skipped: on
\* the first device of a condition.  On a later one it may run without them,
\* because _unload_modules ends every round of the device loop and requires() is
\* not called again (check:714-716, 768-775; common/rc:54-70).
NeedsMet ==
    pc = "body" /\ (test.kind = "device" /\ cur # Fallback => todo = devs \ {cur}) =>
        test.needs \subseteq loaded

\* running-tests.md:3-4: "`./check` exits with a zero exit status if all tests
\* passed and non-zero otherwise".
ExitStatusDoc == pc = "done" /\ cret = 0 => failed = {}
=============================================================================
