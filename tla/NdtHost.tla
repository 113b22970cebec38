------------------------------ MODULE NdtHost ------------------------------
(***************************************************************************)
(* The host wrapper ndt.sh in test mode.  Every run r prepares its run     *)
(* directory, removes the serial socket, starts QEMU in the background,    *)
(* attaches socat to the socket, polls console.log for the guest's         *)
(* sentinel until it is there, QEMU is gone or the budget is spent, shuts  *)
(* everything down and turns the sentinel into an exit status.             *)
(*                                                                         *)
(* All runs share one path, /tmp/qemu-serial.sock.  `qemu_pid=$!` is the   *)
(* shell that runs boot_qemu, the parent of the QEMU process, so the two   *)
(* are separate here (sub, qemu).                                          *)
(*                                                                         *)
(* The sentinel travels in pieces, as the UART delivers it:                *)
(*   1 "=== NDT_RESULT "   2 "pass=" and its first digits                  *)
(*   3 the other digits    4 the rest of the line                          *)
(* External: QEMU, socat and the guest, of which only GuestContract is     *)
(* assumed.                                                                *)
(***************************************************************************)
EXTENDS Naturals, FiniteSets

CONSTANTS
    Runs,       \* invocations of ndt.sh
    Iters,      \* iterations each of them asks for
    Kunit,      \* the runs started with --kunit
    Noisy,      \* kernel messages share the console with the sentinel
    None        \* no run

ASSUME HostAssumption ==
    /\ IsFiniteSet(Runs)
    /\ Iters \in [Runs -> 1 .. 999]     \* three digits are all the model tears
    /\ Kunit \subseteq Runs
    /\ Noisy \in BOOLEAN
    /\ None \notin Runs

VARIABLES
    pc,         \* where each wrapper is
    exit,       \* its exit status, 9 while it runs
    cause,      \* the cause it prints
    rd,         \* what it took out of result_line
    sub,        \* the background shell whose pid is qemu_pid
    socat,      \* its socat process
    conn,       \* the QEMU its socat connected to
    buf,        \* pieces socat has received and not yet written
    con,        \* pieces in its console.log
    sock,       \* the QEMU whose socket is at the shared path
    qemu,       \* the QEMU process of each run
    client,     \* the run whose socat that QEMU has accepted
    line,       \* the sentinel its guest decided on
    sent        \* how many of its pieces have left the guest

host == <<pc, exit, cause, rd>>
procs == <<sub, socat, conn, client>>
stream == <<buf, con, line, sent>>
vars == <<host, procs, stream, sock, qemu>>

Pieces == 1 .. 4
NoLine == [kind |-> "none"]
ErrorLine == [kind |-> "error"]
Tally(p, f, s) == [kind |-> "tally", pass |-> p, fail |-> f, skip |-> s]

\* The contract of r's guest; GuestReport and QemuExit are its Report and Stop.
Guest(q) == INSTANCE GuestContract WITH
    asked <- q \notin Kunit, iters <- Iters[q], line <- line[q],
    power <- IF qemu[q] = "gone" THEN "off" ELSE "on"

Init ==
    /\ pc = [r \in Runs |-> "new"]
    /\ exit = [r \in Runs |-> 9]
    /\ cause = [r \in Runs |-> "none"]
    /\ rd = [r \in Runs |-> NoLine]
    /\ sub = [r \in Runs |-> "none"]
    /\ socat = [r \in Runs |-> "none"]
    /\ conn = [r \in Runs |-> None]
    /\ buf = [r \in Runs |-> {}]
    /\ con = [r \in Runs |-> {}]
    /\ sock = None
    /\ qemu = [r \in Runs |-> "none"]
    /\ client = [r \in Runs |-> None]
    /\ line = [r \in Runs |-> NoLine]
    /\ sent = [r \in Runs |-> 0]

Goto(r, label) == pc' = [pc EXCEPT ![r] = label]

-----------------------------------------------------------------------------
(* The wrapper.                                                            *)

\* Mutant: socat_pid is never set, so nothing is killed.
BadKillSocat(r) == UNCHANGED <<socat, client>>

\* kill -9 of qemu_pid reaches the background shell only; kill of socat_pid
\* drops the connection.
KillSub(r) == sub' = [sub EXCEPT ![r] = IF @ = "alive" THEN "dead" ELSE @]
KillSocat(r) ==
    /\ socat' = [socat EXCEPT ![r] = IF @ = "on" THEN "off" ELSE @]
    /\ client' = [q \in Runs |-> IF client[q] = r THEN None ELSE client[q]]

\* The EXIT/INT/TERM trap.
cleanup(r) == KillSub(r) /\ KillSocat(r) /\ UNCHANGED conn

Exit(r, code) ==
    /\ Goto(r, "done")
    /\ exit' = [exit EXCEPT ![r] = code]

\* Run directory, tool checks, then rm -f of the shared socket path.
preflight(r) ==
    /\ pc[r] = "new"
    /\ \/ Exit(r, 2) /\ UNCHANGED sock
       \/ Goto(r, "launch") /\ sock' = None /\ UNCHANGED exit
    /\ UNCHANGED <<cause, rd, procs, stream, qemu>>

\* assert_artifacts, then boot_qemu in a background shell.
Launch(r) ==
    /\ pc[r] = "launch"
    /\ \/ Exit(r, 2) /\ UNCHANGED <<sub, qemu>>
       \/ /\ Goto(r, "wait")
          /\ sub' = [sub EXCEPT ![r] = "alive"]
          /\ qemu' = [qemu EXCEPT ![r] = "starting"]
          /\ UNCHANGED exit
    /\ UNCHANGED <<cause, rd, socat, conn, client, stream, sock>>

\* Up to ten seconds for something to appear at the path.
WaitSocket(r) ==
    /\ pc[r] = "wait"
    /\ \/ sock # None /\ Goto(r, "connect") /\ UNCHANGED <<exit, procs>>
       \/ sock = None /\ Exit(r, 1) /\ cleanup(r)
    /\ UNCHANGED <<cause, rd, stream, sock, qemu>>

\* socat connects to whichever QEMU listens there now, if any.
Connect(r) ==
    /\ pc[r] = "connect"
    /\ IF sock # None /\ qemu[sock] = "up"
       THEN /\ conn' = [conn EXCEPT ![r] = sock]
            /\ socat' = [socat EXCEPT ![r] = "on"]
       ELSE /\ socat' = [socat EXCEPT ![r] = "off"]
            /\ UNCHANGED conn
    /\ Goto(r, "grep")
    /\ UNCHANGED <<exit, cause, rd, sub, client, stream, sock, qemu>>

\* grep -m1 '^=== NDT_RESULT ' on console.log.
Matches(r) == 1 \in con[r]

\* The numbers that the first digits of n may spell.
DigitPrefix(n) == {n \div 10, n \div 100, 0}

\* What the parser gets out of the part of the line that is in console.log: a
\* field that is not there yet counts as zero.
Reading(r) ==
    LET l == line[conn[r]] IN
    CASE ~ {1, 2} \subseteq con[r] -> {Tally(0, 0, 0)}
      [] l.kind = "error" /\ {1, 2} \subseteq con[r] -> {ErrorLine}
      [] l.kind = "tally" /\ {1, 2} \subseteq con[r] /\ 3 \notin con[r] ->
           {Tally(n, 0, 0) : n \in DigitPrefix(l.pass)}
      [] l.kind = "tally" /\ {1, 2, 3} \subseteq con[r] /\ 4 \notin con[r] ->
           {Tally(l.pass, 0, 0)}
      [] OTHER -> {l}

\* Mutant: the line is taken without looking whether it is there.
BadGrep(r) ==
    /\ pc[r] = "grep"
    /\ Goto(r, "read")
    /\ UNCHANGED <<exit, cause, rd, procs, stream, sock, qemu>>

\* First test of the poll loop.
Grep(r) ==
    /\ pc[r] = "grep"
    /\ Goto(r, IF Matches(r) THEN "read" ELSE "alive")
    /\ UNCHANGED <<exit, cause, rd, procs, stream, sock, qemu>>

\* The line is taken by a second grep.
Read(r) ==
    /\ pc[r] = "read"
    /\ \E x \in Reading(r) : rd' = [rd EXCEPT ![r] = x]
    /\ cause' = [cause EXCEPT ![r] = "sentinel"]
    /\ Goto(r, "grace")
    /\ UNCHANGED <<exit, procs, stream, sock, qemu>>

\* kill -0 qemu_pid; when it is gone, one last look at the console.
Alive(r) ==
    /\ pc[r] = "alive"
    /\ \/ /\ sub[r] = "alive"
          /\ Goto(r, "clock")
          /\ UNCHANGED <<rd, cause>>
       \/ /\ sub[r] = "dead"
          /\ Matches(r)
          /\ \E x \in Reading(r) : rd' = [rd EXCEPT ![r] = x]
          /\ cause' = [cause EXCEPT ![r] = "sentinel"]
          /\ Goto(r, "grace")
       \/ /\ sub[r] = "dead"
          /\ ~Matches(r)
          /\ cause' = [cause EXCEPT ![r] = "qemu-exited-without-sentinel"]
          /\ Goto(r, "grace")
          /\ UNCHANGED rd
    /\ UNCHANGED <<exit, procs, stream, sock, qemu>>

\* Mutant: the budget is never looked at.
BadTimeout(r) ==
    /\ pc[r] = "clock"
    /\ Goto(r, "grep")
    /\ UNCHANGED <<exit, cause, rd, procs, stream, sock, qemu>>

\* dt > budget.
Timeout(r) ==
    /\ pc[r] = "clock"
    /\ cause' = [cause EXCEPT ![r] = "timeout"]
    /\ Goto(r, "grace")
    /\ UNCHANGED <<exit, rd, procs, stream, sock, qemu>>

\* Within the budget: sleep 1 and look again.
Sleep(r) ==
    /\ pc[r] = "clock"
    /\ Goto(r, "grep")
    /\ UNCHANGED <<exit, cause, rd, procs, stream, sock, qemu>>

\* Five seconds of grace for the background shell, kill -9, wait, kill socat.
Shutdown(r) ==
    /\ pc[r] = "grace"
    /\ KillSub(r)
    /\ KillSocat(r)
    /\ Goto(r, "parse")
    /\ UNCHANGED <<exit, cause, rd, conn, stream, sock, qemu>>

\* Mutant: the KUnit rule is applied to every run.
BadPassed(r) ==
    /\ rd[r].kind = "tally"
    /\ rd[r].pass > 0 /\ rd[r].fail = 0 /\ rd[r].skip = 0

\* The test for verdict=PASS.
Passed(r) ==
    /\ rd[r].kind = "tally"
    /\ IF r \in Kunit THEN rd[r].pass > 0 ELSE rd[r].pass = Iters[r]
    /\ rd[r].fail = 0 /\ rd[r].skip = 0

\* Parse, summary and exit; the trap finds nothing left to kill.
Finish(r) ==
    /\ pc[r] = "parse"
    /\ Exit(r, IF Passed(r) THEN 0 ELSE 1)
    /\ cleanup(r)
    /\ UNCHANGED <<cause, rd, stream, sock, qemu>>

\* Ctrl-C: the trap runs and the script carries on where it was.
Interrupt(r) ==
    /\ pc[r] \in {"wait", "connect", "grep", "read", "alive", "clock", "grace", "parse"}
    /\ cleanup(r)
    /\ UNCHANGED <<host, stream, sock, qemu>>

Wrapper(r) ==
    \/ preflight(r) \/ Launch(r) \/ WaitSocket(r) \/ Connect(r)
    \/ Grep(r) \/ Read(r) \/ Alive(r) \/ Timeout(r) \/ Sleep(r) \/ Shutdown(r) \/ Finish(r)

-----------------------------------------------------------------------------
(* Around it: QEMU, socat and the guest (external).                        *)

\* QEMU replaces whatever is at the path by its own listening socket.
QemuBind(q) ==
    /\ qemu[q] = "starting"
    /\ qemu' = [qemu EXCEPT ![q] = "up"]
    /\ sock' = q
    /\ UNCHANGED <<host, procs, stream>>

\* A start that fails, a poweroff or a panic.  An orderly exit removes the path
\* by name, a crash does not.
QemuExit(q) ==
    /\ qemu[q] \in {"starting", "up"}
    /\ qemu' = [qemu EXCEPT ![q] = "gone"]
    /\ sock' \in {sock, None}
    /\ UNCHANGED <<host, procs, stream>>

SubExit(q) ==
    /\ qemu[q] = "gone"
    /\ sub[q] = "alive"
    /\ KillSub(q)
    /\ UNCHANGED <<host, socat, conn, client, stream, sock, qemu>>

\* The serial chardev serves one connection at a time.
Accept(q, r) ==
    /\ qemu[q] = "up"
    /\ client[q] = None
    /\ conn[r] = q /\ socat[r] = "on"
    /\ client' = [client EXCEPT ![q] = r]
    /\ UNCHANGED <<host, sub, socat, conn, stream, sock, qemu>>

GuestReport(q) ==
    /\ qemu[q] = "up"
    /\ q \notin Kunit
    /\ line[q] = NoLine
    /\ \E l \in Guest(q)!Tallies(Iters[q]) \cup {ErrorLine} :
         line' = [line EXCEPT ![q] = l]
    /\ UNCHANGED <<host, procs, buf, con, sent, sock, qemu>>

\* One piece of the sentinel leaves the UART.  It is lost when nobody is
\* connected; on a Noisy console a kernel message may garble it.
GuestEmit(q) ==
    /\ qemu[q] = "up"
    /\ line[q] # NoLine
    /\ sent[q] < 4
    /\ sent' = [sent EXCEPT ![q] = @ + 1]
    /\ \/ (Noisy \/ client[q] = None) /\ UNCHANGED buf
       \/ \E r \in Runs :
            client[q] = r /\ buf' = [buf EXCEPT ![r] = @ \cup {sent[q] + 1}]
    /\ UNCHANGED <<host, procs, con, line, sock, qemu>>

\* socat appends what it holds, in order.
SocatWrite(r) ==
    /\ socat[r] = "on"
    /\ \E n \in buf[r] :
         /\ \A m \in buf[r] : n <= m
         /\ con' = [con EXCEPT ![r] = @ \cup {n}]
         /\ buf' = [buf EXCEPT ![r] = @ \ {n}]
    /\ UNCHANGED <<host, procs, line, sent, sock, qemu>>

Environment(r) ==
    \/ QemuBind(r) \/ QemuExit(r) \/ SubExit(r)
    \/ GuestReport(r) \/ GuestEmit(r) \/ SocatWrite(r)
    \/ \E q \in Runs : Accept(q, r)

Next == \E r \in Runs : Wrapper(r) \/ Interrupt(r) \/ Environment(r)

Spec == Init /\ [][Next]_vars

\* The wrapper is a running shell process and wall-clock time passes, so a poll
\* loop that keeps coming back to the clock finds the budget spent in the end.
\* Nothing is assumed of QEMU, socat or the guest.
FairSpec ==
    /\ Spec
    /\ \A r \in Runs : WF_vars(Wrapper(r)) /\ SF_vars(Timeout(r))

-----------------------------------------------------------------------------
(* Properties.                                                             *)

Pcs == {"new", "launch", "wait", "connect", "grep", "read", "alive",
        "clock", "grace", "parse", "done"}
Lines == {NoLine, ErrorLine} \cup [kind : {"tally"}, pass : Nat, fail : Nat, skip : Nat]

\* Type invariant of the wrapper's variables and of the processes around it.
TypeOK ==
    /\ pc \in [Runs -> Pcs]
    /\ exit \in [Runs -> {0, 1, 2, 9}]
    /\ cause \in [Runs -> {"none", "sentinel", "qemu-exited-without-sentinel", "timeout"}]
    /\ rd \in [Runs -> Lines]
    /\ sub \in [Runs -> {"none", "alive", "dead"}]
    /\ socat \in [Runs -> {"none", "on", "off"}]
    /\ conn \in [Runs -> Runs \cup {None}]
    /\ buf \in [Runs -> SUBSET Pieces]
    /\ con \in [Runs -> SUBSET Pieces]
    /\ sock \in Runs \cup {None}
    /\ qemu \in [Runs -> {"none", "starting", "up", "gone"}]
    /\ client \in [Runs -> Runs \cup {None}]
    /\ line \in [Runs -> Lines]
    /\ sent \in [Runs -> 0 .. 4]

AllPass(q, k) == line[q] = Tally(k, 0, 0)

\* Where the bytes of console.log come from: only a socat that connected received
\* pieces, and only of a guest that has decided on its line.
Provenance ==
    /\ \A r \in Runs : con[r] \cup buf[r] # {} =>
          conn[r] \in Runs /\ line[conn[r]] # NoLine
    /\ \A q, r \in Runs : client[q] = r => conn[r] = q
    /\ \A r \in Runs : pc[r] \in {"new", "launch", "wait", "connect"} => conn[r] = None
    /\ \A r \in Runs : pc[r] = "read" => Matches(r)

\* A tally printed by a guest accounts for all the iterations it was given.
TallySums ==
    \A q \in Runs : line[q].kind = "tally" =>
        line[q].pass + line[q].fail + line[q].skip = Iters[q]

\* What was read never exceeds what the guest wrote, torn or not.
ReadBelow ==
    \A r \in Runs : rd[r].kind = "tally" =>
        \/ rd[r].pass = 0
        \/ /\ conn[r] \in Runs
           /\ line[conn[r]].kind = "tally"
           /\ rd[r].pass <= line[conn[r]].pass

\* Exit status 0 is only reached through the verdict test of ndt.sh:380-385.
ExitFromVerdict ==
    \A r \in Runs : exit[r] # 9 => pc[r] = "done" /\ (exit[r] = 0 => Passed(r))

\* socat runs only between its start and the shutdown (ndt.sh:296-297, 355-356).
SocatBracketed ==
    \A r \in Runs :
        pc[r] \in {"new", "launch", "wait", "connect", "parse", "done"} => socat[r] # "on"

\* The inductive invariant behind PassFromGuest, OwnVerdict and ConsoleFinal: it
\* follows the sentinel from the guest through socat and console.log to the exit
\* status.
HInv == TypeOK /\ Provenance /\ TallySums /\ ReadBelow /\ ExitFromVerdict /\ SocatBracketed

\* Exit status 0 (ndt.sh:383-385, 425) means that the guest socat was attached to
\* counted at least as many passes as this run asked for, even when the sentinel
\* was read while it was still being written.
PassFromGuest ==
    \A r \in Runs \ Kunit : exit[r] = 0 =>
        \E q \in Runs : line[q].kind = "tally" /\ line[q].pass >= Iters[r]

\* ndt.sh:46: exit status 0 means "pass == K and fail == 0" in the run's own guest.
OwnVerdict == \A r \in Runs : exit[r] = 0 => AllPass(r, Iters[r])

\* ndt.sh:46, the other way round: when the sentinel was found and console.log
\* holds all of it, with pass == K and fail == 0, the exit status is 0.
WholeLineCounts ==
    \A r \in Runs :
        (pc[r] = "done" /\ cause[r] = "sentinel" /\ conn[r] = r /\ con[r] = Pieces
         /\ AllPass(r, Iters[r])) => exit[r] = 0

\* ndt.sh:258-259: "Kill QEMU / socat / tail on any exit (including Ctrl-C) so an
\* aborted run never leaks an 8G QEMU".
NoLeakedQemu == \A r \in Runs : pc[r] = "done" => qemu[r] \in {"none", "gone"}

\* After the summary is written (ndt.sh:391-403) console.log, which --last shows
\* beside it, is final: the run's socat is gone on every path out of the script.
ConsoleFinal == [][\A r \in Runs : pc[r] = "done" => con'[r] = con[r]]_vars

\* Whatever QEMU and the guest do, every invocation ends with an exit status.
EveryRunEnds == \A r \in Runs : <>(pc[r] = "done" /\ exit[r] \in {0, 1, 2})
=============================================================================
