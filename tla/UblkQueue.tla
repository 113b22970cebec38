----------------------------- MODULE UblkQueue -----------------------------
(***************************************************************************)
(* One queue thread of miniublk (src/miniublk.c): ublk_io_handler_fn and   *)
(* everything it calls, against the ublk driver.                           *)
(*                                                                         *)
(* A tag is one slot of the queue.  Its command travels to the driver and  *)
(* comes back as a completion when a request arrives (res OK), when the    *)
(* device is stopped (res ABORT) or when the driver refuses it (any other  *)
(* res); a request is answered by the next command for the tag,            *)
(* COMMIT_AND_FETCH.  The loop target puts an I/O on the same ring in      *)
(* between, the null target answers at once.                               *)
(*                                                                         *)
(* A request the loop target does not support costs two entries: the one   *)
(* it takes first stays in the ring unprepared, with what an earlier use   *)
(* left in it.  The kernel is about to run that old command once more;     *)
(* what follows (an old write repeated, a tag answered twice) is not       *)
(* modelled: the thread is "astray" and takes no further step.  The block  *)
(* layer issues such requests only when the device's parameters say so     *)
(* (unsup).  Both targets set UBLK_PARAM_TYPE_BASIC alone and exclude it;  *)
(* a recovered device keeps the parameters of the server that added it.    *)
(*                                                                         *)
(* External: the driver (drv, StopDev, NewRequest, Deliver, AbortCmd) and  *)
(* io_uring.  The driver may refuse a fetch, but not the commit of a       *)
(* request that is with the thread.  STOP_DEV waits for the outstanding    *)
(* requests before it aborts the commands.  A request is delivered, and    *)
(* the data of a write copied into the tag's buffer, by task work of this  *)
(* thread, which runs whenever the thread leaves the kernel: in the wait   *)
(* and after madvise.                                                      *)
(***************************************************************************)
EXTENDS Naturals, FiniteSets

CONSTANTS
    Depth       \* q_depth; also the size of both rings (io_uring only rounds up)

ASSUME QueueAssumption == Depth \in Nat \ {0}

Tags == 0 .. Depth - 1

VARIABLES
    qpc,            \* where the thread is
    flags,          \* ublk_io.flags of each tag
    result,         \* ublk_io.result of each tag
    cmd_inflight, io_inflight,
    stopping, idle, \* the two bits of ublk_queue.state
    etime, reapped, \* outcome of the last wait and reap
    next,           \* next buffer to discard
    sqe,            \* what is queued for each tag and not yet submitted
    stale,          \* entries taken from the submission ring and left unprepared
    cqe,            \* completions of each tag that were not handled yet
    busy,           \* tags whose target I/O is running
    drv,            \* the driver's view of each tag
    outcome,        \* result of the target I/O of the tag's request
    buf,            \* data of a write request in the tag's buffer
    devstop,        \* STOP_DEV was issued
    unsup,          \* the parameters allow requests the loop target does not know
    tgt             \* tgt_ops of the queue: "null" or "loop"

thread == <<qpc, etime, reapped, next, idle, stopping>>
slots == <<flags, result, cmd_inflight, io_inflight>>
rings == <<sqe, stale, cqe, busy>>
setup == <<tgt, unsup>>
driver == <<drv, outcome, buf, devstop, setup>>
vars == <<thread, slots, rings, driver>>

Init ==
    /\ qpc = "init"
    /\ flags = [t \in Tags |-> {"FETCH", "FREE"}]
    /\ result = [t \in Tags |-> "none"]
    /\ cmd_inflight = 0 /\ io_inflight = 0
    /\ stopping = FALSE /\ idle = FALSE /\ etime = FALSE /\ reapped = FALSE
    /\ next = 0
    /\ sqe = [t \in Tags |-> {}]
    /\ stale = 0
    /\ cqe = [t \in Tags |-> {}]
    /\ busy = {}
    /\ drv = [t \in Tags |-> "none"]
    /\ outcome = [t \in Tags |-> "none"]
    /\ buf = [t \in Tags |-> "none"]
    /\ devstop = FALSE
    /\ tgt \in {"null", "loop"}
    /\ unsup \in BOOLEAN

-----------------------------------------------------------------------------
(* The thread.                                                             *)

Ops == {"fetch", "commit", "tgt"}

\* Entries of the submission ring that were prepared for a tag.
Prepared == Cardinality({p \in Tags \X Ops : p[2] \in sqe[p[1]]})

\* Mutant: the ring is set up one entry short.
BadSqeAvailable(junk) == Prepared + junk < Depth - 1

\* io_uring_get_sqe finds a free entry; junk of the others are unprepared.
SqeAvailable(junk) == Prepared + junk < Depth

ublk_queue_is_idle == (\A t \in Tags : sqe[t] = {}) /\ stale = 0 /\ io_inflight = 0

\* Mutant: an idle queue counts as a stopped one.
BadIsDone == ublk_queue_is_idle

ublk_queue_is_done == stopping /\ ublk_queue_is_idle

\* ublk_queue_init may fail; the thread then ends before it fetched anything.
InitFails ==
    /\ qpc = "init"
    /\ qpc' = "failed"
    /\ UNCHANGED <<etime, reapped, next, idle, stopping, slots, rings, driver>>

ublk_submit_fetch_commands ==
    /\ qpc = "init"
    /\ qpc' = "check"
    /\ sqe' = [t \in Tags |-> {"fetch"}]
    /\ flags' = [t \in Tags |-> {}]
    /\ cmd_inflight' = cmd_inflight + Depth
    /\ UNCHANGED <<etime, reapped, next, idle, stopping, result, io_inflight,
                   stale, cqe, busy, driver>>

\* Head of ublk_process_io: leave, or enter io_uring_enter, which hands every
\* queued entry to the driver or to the target file.
Finish ==
    /\ qpc = "check"
    /\ ublk_queue_is_done
    /\ qpc' = "exited"
    /\ UNCHANGED <<etime, reapped, next, idle, stopping, slots, rings, driver>>

Submit ==
    /\ qpc = "check"
    /\ ~ublk_queue_is_done
    /\ stale = 0
    /\ qpc' = "wait"
    /\ sqe' = [t \in Tags |-> {}]
    /\ busy' = busy \cup {t \in Tags : "tgt" \in sqe[t]}
    /\ \E refused \in SUBSET {t \in Tags : "fetch" \in sqe[t]} :
         /\ drv' = [t \in Tags |-> IF t \in refused THEN "refused"
                                   ELSE IF sqe[t] \cap {"fetch", "commit"} # {} THEN "fetched"
                                   ELSE drv[t]]
         /\ cqe' = [t \in Tags |-> IF t \in refused THEN {"err"} ELSE cqe[t]]
    /\ buf' = [t \in Tags |-> IF "commit" \in sqe[t] THEN "none" ELSE buf[t]]
    /\ outcome' = [t \in Tags |-> IF "commit" \in sqe[t] THEN "none" ELSE outcome[t]]
    /\ etime' = FALSE /\ reapped' = FALSE
    /\ UNCHANGED <<next, idle, stopping, slots, stale, devstop, setup>>

\* The same call with an unprepared entry in the ring: the kernel takes what the
\* entry was last used for as a new command.
SubmitUnprepared ==
    /\ qpc = "check"
    /\ ~ublk_queue_is_done
    /\ stale > 0
    /\ qpc' = "astray"
    /\ UNCHANGED <<etime, reapped, next, idle, stopping, slots, rings, driver>>

\* A completion is there, or twenty seconds passed (never when IDLE is set).
WaitReturns ==
    /\ qpc = "wait"
    /\ \E t \in Tags : cqe[t] # {}
    /\ qpc' = "reap"
    /\ UNCHANGED <<etime, reapped, next, idle, stopping, slots, rings, driver>>

WaitTimesOut ==
    /\ qpc = "wait"
    /\ ~idle
    /\ \A t \in Tags : cqe[t] = {}
    /\ qpc' = "reap"
    /\ etime' = TRUE
    /\ UNCHANGED <<reapped, next, idle, stopping, slots, rings, driver>>

\* Mutant: the commit is queued but the command is not counted.
BadCompleteIo(t, res, cmds, junk) ==
    /\ result' = [result EXCEPT ![t] = res]
    /\ sqe' = [sqe EXCEPT ![t] = @ \cup {"commit"}]
    /\ flags' = [flags EXCEPT ![t] = {}]
    /\ cmd_inflight' = cmds

\* Mutant: ublk_mark_io_done does not set FREE, so ublk_queue_io_cmd returns at once.
BadMarkDone(t, res, cmds, junk) ==
    /\ result' = [result EXCEPT ![t] = res]
    /\ flags' = [flags EXCEPT ![t] = @ \cup {"COMMIT"}]
    /\ cmd_inflight' = cmds
    /\ UNCHANGED sqe

\* ublk_mark_io_done, then ublk_queue_io_cmd: without a free entry the commit
\* stays in the flags and nobody looks at the -1 that is returned.  cmds is the
\* command counter on entry, junk the number of unprepared entries.
ublk_complete_io(t, res, cmds, junk) ==
    /\ result' = [result EXCEPT ![t] = res]
    /\ IF SqeAvailable(junk)
       THEN /\ sqe' = [sqe EXCEPT ![t] = @ \cup {"commit"}]
            /\ flags' = [flags EXCEPT ![t] = {}]
            /\ cmd_inflight' = cmds + 1
       ELSE /\ flags' = [flags EXCEPT ![t] = @ \cup {"COMMIT", "FREE"}]
            /\ cmd_inflight' = cmds
            /\ UNCHANGED sqe

\* loop_queue_tgt_io: the target I/O gets an entry of its own.
QueueTarget(t) ==
    /\ SqeAvailable(stale)
    /\ sqe' = [sqe EXCEPT ![t] = @ \cup {"tgt"}]
    /\ io_inflight' = io_inflight + 1
    /\ cmd_inflight' = cmd_inflight - 1
    /\ UNCHANGED <<flags, result, outcome, stale>>

\* The request is answered at once; junk entries are unprepared by now.
AnswerNow(t, res, junk) ==
    /\ stale' = junk
    /\ ublk_complete_io(t, res, cmd_inflight - 1, junk)
    /\ outcome' = [outcome EXCEPT ![t] = res]
    /\ UNCHANGED io_inflight

\* A request: the null target answers it at once, the loop target queues the
\* target I/O.  It answers with an error when there is no entry for it
\* (-ENOMEM), and when it has taken one and only then finds that it does not
\* support the request (-ENOTSUP, -EINVAL).
HandleRequest(t) ==
    /\ qpc = "reap"
    /\ "ok" \in cqe[t]
    /\ cqe' = [cqe EXCEPT ![t] = @ \ {"ok"}]
    /\ reapped' = TRUE
    /\ \/ tgt = "null" /\ AnswerNow(t, "ok", stale)
       \/ tgt = "loop" /\ QueueTarget(t)
       \/ tgt = "loop" /\ ~SqeAvailable(stale) /\ AnswerNow(t, "err", stale)
       \/ tgt = "loop" /\ unsup /\ SqeAvailable(stale) /\ AnswerNow(t, "err", stale + 1)
    /\ UNCHANGED <<qpc, etime, next, idle, stopping, busy, drv, buf, devstop, setup>>

\* Mutant: the aborted command does not mark the queue as stopping.
BadHandleAbort(t) ==
    /\ qpc = "reap"
    /\ "abort" \in cqe[t]
    /\ cqe' = [cqe EXCEPT ![t] = @ \ {"abort"}]
    /\ reapped' = TRUE
    /\ cmd_inflight' = cmd_inflight - 1
    /\ flags' = [flags EXCEPT ![t] = {"FREE"}]
    /\ UNCHANGED <<qpc, etime, next, idle, stopping, result, io_inflight, sqe, stale, busy, driver>>

\* An aborted command: stop, and keep the tag free without issuing it again.
HandleAbort(t) ==
    /\ qpc = "reap"
    /\ "abort" \in cqe[t]
    /\ cqe' = [cqe EXCEPT ![t] = @ \ {"abort"}]
    /\ reapped' = TRUE
    /\ cmd_inflight' = cmd_inflight - 1
    /\ stopping' = TRUE
    /\ flags' = [flags EXCEPT ![t] = {"FREE"}]
    /\ UNCHANGED <<qpc, etime, next, idle, result, io_inflight, sqe, stale, busy, driver>>

\* A refused command: the tag stays free and is never issued again, but the
\* thread does not stop.
HandleError(t) ==
    /\ qpc = "reap"
    /\ "err" \in cqe[t]
    /\ cqe' = [cqe EXCEPT ![t] = @ \ {"err"}]
    /\ reapped' = TRUE
    /\ cmd_inflight' = cmd_inflight - 1
    /\ flags' = [flags EXCEPT ![t] = {"FREE"}]
    /\ UNCHANGED <<qpc, etime, next, idle, stopping, result, io_inflight, sqe, stale, busy, driver>>

\* The target I/O of a tag has finished (ublk_loop_io_done).
HandleTarget(t) ==
    /\ qpc = "reap"
    /\ "tgt" \in cqe[t]
    /\ cqe' = [cqe EXCEPT ![t] = @ \ {"tgt"}]
    /\ reapped' = TRUE
    /\ ublk_complete_io(t, outcome[t], cmd_inflight, stale)
    /\ io_inflight' = io_inflight - 1
    /\ UNCHANGED <<qpc, etime, next, idle, stopping, stale, busy, driver>>

\* The ring is empty: enter or leave the idle state, unless stopping.
ReapEnds ==
    /\ qpc = "reap"
    /\ \A t \in Tags : cqe[t] = {}
    /\ IF ~stopping /\ etime /\ ~reapped /\ ublk_queue_is_idle /\ ~idle
       THEN qpc' = "discard" /\ next' = 0 /\ UNCHANGED idle
       ELSE /\ qpc' = "check"
            /\ idle' = (idle /\ (stopping \/ (etime /\ ~reapped /\ ublk_queue_is_idle)))
            /\ UNCHANGED next
    /\ UNCHANGED <<etime, reapped, stopping, slots, rings, driver>>

\* ublk_queue_discard_io_pages: one madvise(MADV_DONTNEED) per buffer.
Discard ==
    /\ qpc = "discard"
    /\ next < Depth
    /\ buf' = [buf EXCEPT ![next] = IF @ = "data" THEN "lost" ELSE @]
    /\ next' = next + 1
    /\ UNCHANGED <<qpc, etime, reapped, idle, stopping, slots, rings, drv, outcome, devstop, setup>>

IdleEntered ==
    /\ qpc = "discard"
    /\ next = Depth
    /\ idle' = TRUE
    /\ qpc' = "check"
    /\ UNCHANGED <<etime, reapped, next, stopping, slots, rings, driver>>

Handle(t) == HandleRequest(t) \/ HandleAbort(t) \/ HandleError(t) \/ HandleTarget(t)

Thread ==
    \/ ublk_submit_fetch_commands \/ Finish \/ Submit \/ SubmitUnprepared
    \/ WaitReturns \/ WaitTimesOut
    \/ (\E t \in Tags : Handle(t)) \/ ReapEnds \/ Discard \/ IdleEntered

-----------------------------------------------------------------------------
(* The driver, the block layer and the backing file (external).            *)

\* The block layer picks a tag whose command is with the driver.
NewRequest(t) ==
    /\ ~devstop
    /\ drv[t] = "fetched"
    /\ drv' = [drv EXCEPT ![t] = "queued"]
    /\ UNCHANGED <<thread, slots, rings, outcome, buf, devstop, setup>>

\* Task work of the queue thread hands the request over.
Deliver(t) ==
    /\ drv[t] = "queued"
    /\ qpc = "wait" \/ (qpc = "discard" /\ next > 0)
    /\ drv' = [drv EXCEPT ![t] = "daemon"]
    /\ cqe' = [cqe EXCEPT ![t] = @ \cup {"ok"}]
    /\ \E b \in {"none", "data"} : buf' = [buf EXCEPT ![t] = b]
    /\ UNCHANGED <<thread, slots, sqe, stale, busy, outcome, devstop, setup>>

\* The read or write on the backing file ends, well or badly.
TargetDone(t) ==
    /\ t \in busy
    /\ busy' = busy \ {t}
    /\ cqe' = [cqe EXCEPT ![t] = @ \cup {"tgt"}]
    /\ \E res \in {"ok", "err"} : outcome' = [outcome EXCEPT ![t] = res]
    /\ UNCHANGED <<thread, slots, sqe, stale, drv, buf, devstop, setup>>

StopDev ==
    /\ ~devstop
    /\ devstop' = TRUE
    /\ UNCHANGED <<thread, slots, rings, drv, outcome, buf, setup>>

\* After the gendisk is gone nothing is outstanding; then commands are aborted.
Drained == \A t \in Tags : drv[t] \notin {"queued", "daemon"}

AbortCmd(t) ==
    /\ devstop
    /\ Drained
    /\ drv[t] = "fetched"
    /\ drv' = [drv EXCEPT ![t] = "none"]
    /\ cqe' = [cqe EXCEPT ![t] = @ \cup {"abort"}]
    /\ UNCHANGED <<thread, slots, sqe, stale, busy, outcome, buf, devstop, setup>>

Kernel(t) == NewRequest(t) \/ Deliver(t) \/ TargetDone(t) \/ AbortCmd(t)

Next == Thread \/ InitFails \/ StopDev \/ \E t \in Tags : Kernel(t)

Spec == Init /\ [][Next]_vars

\* The thread is scheduled and every posted completion is reaped; task work runs
\* whenever the thread passes through the kernel (hence strong fairness), target
\* I/O ends, and the driver aborts what is left after STOP_DEV.
FairSpec ==
    /\ Spec
    /\ WF_vars(Thread)
    /\ \A t \in Tags : /\ WF_vars(Handle(t))
                        /\ SF_vars(Deliver(t))
                        /\ WF_vars(TargetDone(t))
                        /\ WF_vars(AbortCmd(t))

-----------------------------------------------------------------------------
(* Properties.                                                             *)

\* Type invariant of the queue's fields, the rings and the driver's tag states.
TypeOK ==
    /\ qpc \in {"init", "failed", "check", "wait", "reap", "discard", "exited", "astray"}
    /\ flags \in [Tags -> SUBSET {"FETCH", "COMMIT", "FREE"}]
    /\ result \in [Tags -> {"none", "ok", "err"}]
    /\ cmd_inflight \in Nat /\ io_inflight \in Nat
    /\ stopping \in BOOLEAN /\ idle \in BOOLEAN
    /\ etime \in BOOLEAN /\ reapped \in BOOLEAN
    /\ next \in 0 .. Depth
    /\ sqe \in [Tags -> SUBSET Ops]
    /\ stale \in Nat
    /\ cqe \in [Tags -> SUBSET {"ok", "abort", "err", "tgt"}]
    /\ busy \in SUBSET Tags
    /\ drv \in [Tags -> {"none", "fetched", "refused", "queued", "daemon"}]
    /\ outcome \in [Tags -> {"none", "ok", "err"}]
    /\ buf \in [Tags -> {"none", "data", "lost"}]
    /\ devstop \in BOOLEAN
    /\ tgt \in {"null", "loop"}
    /\ unsup \in BOOLEAN

\* Where a tag can be.  Each of these excludes all the others.
Fresh(t)     == qpc \in {"init", "failed"} /\ flags[t] = {"FETCH", "FREE"}
                /\ sqe[t] = {} /\ cqe[t] = {} /\ t \notin busy /\ drv[t] = "none"
FetchSqe(t)  == flags[t] = {} /\ sqe[t] = {"fetch"} /\ cqe[t] = {} /\ t \notin busy
                /\ drv[t] = "none"
WithDrv(t)   == flags[t] = {} /\ sqe[t] = {} /\ cqe[t] = {} /\ t \notin busy
                /\ drv[t] \in {"fetched", "queued"}
Delivered(t) == flags[t] = {} /\ sqe[t] = {} /\ cqe[t] = {"ok"} /\ t \notin busy
                /\ drv[t] = "daemon"
TargetSqe(t) == flags[t] = {} /\ sqe[t] = {"tgt"} /\ cqe[t] = {} /\ t \notin busy
                /\ drv[t] = "daemon"
Running(t)   == flags[t] = {} /\ sqe[t] = {} /\ cqe[t] = {} /\ t \in busy
                /\ drv[t] = "daemon"
TargetCqe(t) == flags[t] = {} /\ sqe[t] = {} /\ cqe[t] = {"tgt"} /\ t \notin busy
                /\ drv[t] = "daemon"
CommitSqe(t) == flags[t] = {} /\ sqe[t] = {"commit"} /\ cqe[t] = {} /\ t \notin busy
                /\ drv[t] = "daemon"
AbortCqe(t)  == flags[t] = {} /\ sqe[t] = {} /\ cqe[t] = {"abort"} /\ t \notin busy
                /\ drv[t] = "none"
ErrCqe(t)    == flags[t] = {} /\ sqe[t] = {} /\ cqe[t] = {"err"} /\ t \notin busy
                /\ drv[t] = "refused"
Retired(t)   == flags[t] = {"FREE"} /\ sqe[t] = {} /\ cqe[t] = {} /\ t \notin busy
                /\ drv[t] \in {"none", "refused"}
Lost(t)      == flags[t] = {"COMMIT", "FREE"} /\ sqe[t] = {} /\ cqe[t] = {} /\ t \notin busy
                /\ drv[t] = "daemon"

\* Every tag is in exactly one place: ios[].flags, the rings, the target and the
\* driver agree on who owns it, so it can be neither lost nor issued twice
\* (ublk_queue_io_cmd, miniublk.c:617-624, 656).
OwnedOnce ==
    \A t \in Tags :
        \/ Fresh(t) \/ FetchSqe(t) \/ WithDrv(t) \/ Delivered(t) \/ TargetSqe(t)
        \/ Running(t) \/ TargetCqe(t) \/ CommitSqe(t) \/ AbortCqe(t) \/ ErrCqe(t)
        \/ Retired(t) \/ Lost(t)

CmdTags == {t \in Tags : FetchSqe(t) \/ WithDrv(t) \/ Delivered(t) \/ CommitSqe(t)
                          \/ AbortCqe(t) \/ ErrCqe(t)}
IoTags == {t \in Tags : TargetSqe(t) \/ Running(t) \/ TargetCqe(t)}

\* The two counters that decide when the thread idles and ends
\* (miniublk.c:658, 761, 1364, 1390) count what they are named for.
Counters ==
    /\ cmd_inflight = Cardinality(CmdTags)
    /\ io_inflight = Cardinality(IoTags)

\* A request is answered with the result of its own target I/O, and not before
\* that I/O has finished (miniublk.c:666-674, 1383-1391).
CommitEarned ==
    \A t \in Tags :
        /\ CommitSqe(t) => outcome[t] # "none" /\ result[t] = outcome[t]
        /\ TargetCqe(t) => outcome[t] # "none"
        /\ drv[t] = "daemon" /\ ~CommitSqe(t) /\ ~TargetCqe(t) /\ ~Lost(t) => outcome[t] = "none"
        /\ drv[t] # "daemon" => outcome[t] = "none"

\* The thread stops only because commands were aborted, and they are aborted only
\* when the device is stopped and owes nothing (miniublk.c:745-766, 816).
StopAfterDrain ==
    /\ stopping \/ (\E t \in Tags : AbortCqe(t)) => devstop /\ Drained
    /\ qpc = "exited" => stopping
    /\ qpc \in {"init", "failed"} => \A t \in Tags : Fresh(t)

\* An answer is dropped, and an old command submitted again, only for a device
\* whose parameters promise what the loop target does not support: every entry
\* that loop_queue_tgt_io leaves unprepared is there because of such a request
\* (miniublk.c:1343-1345, 1360-1361), and no answer is lost without one in the
\* ring.  A device that miniublk added itself has neither.
LostToStale ==
    /\ stale > 0 => unsup /\ tgt = "loop"
    /\ (\E t \in Tags : Lost(t)) \/ qpc = "astray" => stale > 0

\* The inductive invariant of the queue thread (ublk_io_handler_fn).
QInv == TypeOK /\ OwnedOnce /\ Counters /\ CommitEarned /\ StopAfterDrain /\ LostToStale

\* io_uring_get_sqe never fails while completions are reaped, as long as no
\* unsupported request has left an unprepared entry in the ring: the branch of
\* miniublk.c:632-636, whose -1 every caller ignores, would lose a request.
SqNeverFull ==
    qpc = "reap" /\ stale = 0 /\ (\E t \in Tags : cqe[t] # {}) => SqeAvailable(stale)

\* The queue implements the request service: every request is performed, then
\* answered once, and the thread leaves only when it owes no answer.
Service == INSTANCE RequestService WITH
    Slots <- Tags,
    st <- [t \in Tags |-> IF drv[t] \notin {"queued", "daemon"} THEN "free"
                          ELSE IF outcome[t] = "none" THEN "pending" ELSE "performed"],
    open <- qpc # "exited"
ImplementsService == Service!ServiceSpec

\* Every request the block layer hands to the driver is answered, also one that
\* arrives while the thread sleeps without a timeout in its idle state, unless an
\* unprepared entry is submitted.
EveryRequestAnswered ==
    \A t \in Tags : drv[t] = "queued" ~> drv[t] = "fetched" \/ qpc = "astray"

\* Stopping the device ends the thread (or it never started).  The exceptions are
\* an unprepared entry, and a driver that refused every fetch: ublk_handle_cqe
\* (miniublk.c:763-781) stops only for an aborted command, and none is left.
StopEndsThread ==
    devstop ~> \/ qpc \in {"exited", "failed", "astray"}
               \/ \A t \in Tags : drv[t] = "refused"

\* miniublk.c:5-8: "mini ublk implementation with null/loop target ... reliable".
\* A write is never carried out from a buffer whose data was discarded.
WriteIntact == \A t \in busy : buf[t] # "lost"
=============================================================================
