--------------------------- MODULE GuestContract ---------------------------
(***************************************************************************)
(* What the host wrapper (ndt.sh) may assume about one booted guest: it    *)
(* prints at most one sentinel line, the line is final, and in a tally     *)
(* line the three counters add up to the number of iterations asked for.   *)
(* The guest may stop at any moment (kernel panic, kill) without having    *)
(* reported, and may also never report (a hang is plain stuttering).       *)
(***************************************************************************)
EXTENDS Naturals

VARIABLES
    asked,      \* the kernel command line selects a blktests case
    iters,      \* how many iterations it asks for
    line,       \* the sentinel on ttyS0, NoLine before it is printed
    power       \* "on" | "off"

contractVars == <<asked, iters, line, power>>

NoLine == [kind |-> "none"]
ErrorLine == [kind |-> "error"]

\* Tallies that account for each of the k requested iterations exactly once.
Tallies(k) ==
    {t \in [kind : {"tally"}, pass : 0 .. k, fail : 0 .. k, skip : 0 .. k] :
        t.pass + t.fail + t.skip = k}

ContractInit ==
    /\ asked \in BOOLEAN
    /\ iters \in Nat
    /\ line = NoLine
    /\ power = "on"

Report ==
    /\ asked
    /\ power = "on"
    /\ line = NoLine
    /\ line' \in Tallies(iters) \cup {ErrorLine}
    /\ UNCHANGED <<asked, iters, power>>

Stop ==
    /\ power = "on"
    /\ power' = "off"
    /\ UNCHANGED <<asked, iters, line>>

ContractNext == Report \/ Stop

ContractSpec == ContractInit /\ [][ContractNext]_contractVars
=============================================================================
