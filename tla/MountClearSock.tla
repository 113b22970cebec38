--------------------------- MODULE MountClearSock ---------------------------
(***************************************************************************)
(* blktests/src/mount_clear_sock.c, used by nbd/003: in each round one     *)
(* child mounts and unmounts an nbd device while another clears its        *)
(* socket; the parent waits for both.                                      *)
(*                                                                         *)
(* External: the outcome of mount, umount and ioctl, and a signal that     *)
(* ends a child.                                                           *)
(***************************************************************************)
EXTENDS Naturals, FiniteSets

CONSTANT Loops      \* argv[4]

ASSUME LoopsAssumption == Loops \in Nat

VARIABLES
    kpc,        \* fork1, fork2, wait1, wait2, exit
    round,
    kids,       \* children that are not reaped: kind, round, state
    mounts,     \* how often the device is mounted
    dirtied,    \* history: an umount was refused or never called
    kexit

kidVars == <<kpc, round, kids, mounts, dirtied, kexit>>

Kid(kind, r, st) == [kind |-> kind, round |-> r, st |-> st]
EXIT_FAILURE == 1

KidInit == kpc = "fork1" /\ round = 0 /\ kids = {} /\ mounts = 0 /\ dirtied = FALSE
           /\ kexit = 0

Leave(status) == kpc' = "exit" /\ kexit' = status

ForkMount ==
    /\ kpc = "fork1"
    /\ \/ round = Loops /\ Leave(0) /\ UNCHANGED kids
       \/ round < Loops /\ Leave(EXIT_FAILURE) /\ UNCHANGED kids
       \/ /\ round < Loops
          /\ kids' = kids \cup {Kid("mount", round, "new")}
          /\ kpc' = "fork2" /\ UNCHANGED kexit
    /\ UNCHANGED <<round, mounts, dirtied>>

ForkClear ==
    /\ kpc = "fork2"
    /\ \/ Leave(EXIT_FAILURE) /\ UNCHANGED kids
       \/ /\ kids' = kids \cup {Kid("clear", round, "new")}
          /\ kpc' = "wait1" /\ UNCHANGED kexit
    /\ UNCHANGED <<round, mounts, dirtied>>

Moves(k, st) == kids' = (kids \ {k}) \cup {[k EXCEPT !.st = st]}

\* mount and umount in the child, whose results nobody looks at.
MountRuns(k) ==
    /\ k.kind = "mount"
    /\ \/ k.st = "new" /\ Moves(k, "tried") /\ mounts' \in {mounts, mounts + 1}
          /\ UNCHANGED dirtied
       \/ /\ k.st = "tried" /\ Moves(k, "ok")
          /\ \/ mounts' = (IF mounts > 0 THEN mounts - 1 ELSE 0) /\ UNCHANGED dirtied
             \/ UNCHANGED mounts /\ dirtied' = (dirtied \/ mounts > 0)
    /\ UNCHANGED <<kpc, round, kexit>>

ClearRuns(k) ==
    /\ k.kind = "clear" /\ k.st = "new"
    /\ \/ Moves(k, "ok")
       \/ Moves(k, "failed")
    /\ UNCHANGED <<kpc, round, mounts, dirtied, kexit>>

Killed(k) ==
    /\ k.st \in {"new", "tried"}
    /\ Moves(k, "failed")
    /\ dirtied' = (dirtied \/ (k.kind = "mount" /\ mounts > 0))
    /\ UNCHANGED <<kpc, round, mounts, kexit>>

\* waitpid and the look at the status.
Reap(here, kind, next) ==
    /\ kpc = here
    /\ \/ Leave(EXIT_FAILURE) /\ UNCHANGED kids
       \/ \E k \in kids :
            /\ k.kind = kind /\ k.round = round /\ k.st \in {"ok", "failed"}
            /\ kids' = kids \ {k}
            /\ IF k.st = "failed" THEN Leave(EXIT_FAILURE)
               ELSE kpc' = next /\ UNCHANGED kexit

\* Mutant: the first child is not waited for.
BadWaitMount ==
    kpc = "wait1" /\ kpc' = "wait2" /\ UNCHANGED <<round, kids, mounts, dirtied, kexit>>

WaitMount == Reap("wait1", "mount", "wait2") /\ UNCHANGED <<round, mounts, dirtied>>
WaitClear ==
    /\ Reap("wait2", "clear", "fork1")
    /\ round' = IF kpc' = "exit" THEN round ELSE round + 1
    /\ UNCHANGED <<mounts, dirtied>>

Parent == ForkMount \/ ForkClear \/ WaitMount \/ WaitClear
KidNext == Parent \/ \E k \in kids : MountRuns(k) \/ ClearRuns(k) \/ Killed(k)
KidSpec == KidInit /\ [][KidNext]_kidVars

-----------------------------------------------------------------------------
(* Properties.                                                             *)

(***************************************************************************)
(* The rounds of mount_clear_sock do not overlap: no child of an earlier   *)
(* one is left when the next begins, so two mounts of the device never     *)
(* race, and a mount is stacked on another only after a failed umount.  A  *)
(* parent that reports success has reaped every child.                     *)
(***************************************************************************)
RoundsApart ==
    /\ \A k \in kids : k.round = round
    /\ \A k, h \in kids : k.kind = h.kind => k = h
    /\ mounts > 1 => dirtied
    /\ kpc = "exit" /\ kexit = 0 => kids = {} /\ (mounts > 0 => dirtied)
=============================================================================
