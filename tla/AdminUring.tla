----------------------------- MODULE AdminUring -----------------------------
(***************************************************************************)
(* blktests/src/nvme-passthru-admin-uring.c, used by nvme/067: one         *)
(* Identify Controller as IORING_OP_URING_CMD, and the clean-up labels.    *)
(*                                                                         *)
(* External: io_uring and the NVMe driver.                                 *)
(***************************************************************************)
EXTENDS Integers

VARIABLES
    upc,        \* open, alloc, ring, submit, wait, reap, ring_exit, free_nctrl, free_fd, exit
    held,       \* fd, nctrl, ring and cqe the program has not given back
    taken,      \* history: the kernel took the SQE
    completion, \* res of the completions seen
    uret

uringVars == <<upc, held, taken, completion, uret>>

UringInit ==
    upc = "open" /\ held = {} /\ taken = FALSE /\ completion = {} /\ uret = 0

UringStep(here, there) == upc = here /\ upc' = there

Acquire(here, what, there, undo) ==
    /\ \/ UringStep(here, there) /\ held' = held \cup {what} /\ UNCHANGED uret
       \/ UringStep(here, undo) /\ uret' = -1 /\ UNCHANGED held
    /\ UNCHANGED <<taken, completion>>

OpenDevice == Acquire("open", "fd", "alloc", "exit")
\* Mutant: returns at once.
BadAllocCtrl == Acquire("alloc", "nctrl", "ring", "exit")

AllocCtrl == Acquire("alloc", "nctrl", "ring", "free_fd")
QueueInit == Acquire("ring", "ring", "submit", "free_nctrl")

\* The result of io_uring_submit is not looked at.
Submit ==
    /\ UringStep("submit", "wait")
    /\ taken' \in BOOLEAN
    /\ UNCHANGED <<held, completion, uret>>

\* io_uring_wait_cqe: interrupted, or a completion if there is to be one.
WaitCqe ==
    /\ UringStep("wait", "reap")
    /\ \/ uret' = -4 /\ UNCHANGED <<held, completion>>
       \/ /\ taken
          /\ held' = held \cup {"cqe"}
          /\ \E res \in {-5, 0, 2} :
               /\ completion' = {res}
               /\ uret' = IF res < 0 THEN res ELSE 0
    /\ UNCHANGED taken

Release(here, what, there) ==
    UringStep(here, there) /\ held' = held \ {what} /\ UNCHANGED <<taken, completion, uret>>

CqeSeen == Release("reap", "cqe", "ring_exit")
QueueExit == Release("ring_exit", "ring", "free_nctrl")
FreeCtrl == Release("free_nctrl", "nctrl", "free_fd")
CloseDevice == Release("free_fd", "fd", "exit")

UringNext ==
    \/ OpenDevice \/ AllocCtrl \/ QueueInit \/ Submit \/ WaitCqe
    \/ CqeSeen \/ QueueExit \/ FreeCtrl \/ CloseDevice
UringSpec == UringInit /\ [][UringNext]_uringVars

-----------------------------------------------------------------------------
(* Properties.                                                             *)

(***************************************************************************)
(* Whichever step fails, the labels of nvme-passthru-admin-uring give back *)
(* what the steps before it acquired, and an exit status of 0 means that a *)
(* completion arrived and was no system error.                             *)
(***************************************************************************)
UringCleanExit ==
    upc = "exit" => /\ held = {}
                    /\ uret = 0 => \E res \in completion : res >= 0
=============================================================================
