--------------------------- MODULE NdtHostProofs ---------------------------
(***************************************************************************)
(* Proofs about ndt.sh for any number of concurrent invocations, any       *)
(* iteration counts and any behaviour of QEMU, socat and the guests.       *)
(***************************************************************************)
EXTENDS NdtHost, TLAPS

\* The first digits of a counter of at most three digits spell a number that is
\* not larger: the arithmetic reason why a torn sentinel cannot pass a run.
LEMMA DigitPrefixBelow ==
    ASSUME NEW n \in 0 .. 999, NEW m \in DigitPrefix(n)
    PROVE  m \in Nat /\ m <= n
BY DEF DigitPrefix

\* What the wrapper reads out of console.log (ndt.sh:317, 323, 364-386) is bounded
\* by the line of the guest its socat is connected to.
LEMMA ReadingBelow ==
    ASSUME TypeOK, TallySums, Provenance,
           NEW r \in Runs, Matches(r), NEW x \in Reading(r)
    PROVE  /\ x \in Lines
           /\ x.kind = "tally" =>
                \/ x.pass = 0
                \/ /\ conn[r] \in Runs
                   /\ line[conn[r]].kind = "tally"
                   /\ x.pass <= line[conn[r]].pass
<1> DEFINE l == line[conn[r]]
<1>1. conn[r] \in Runs /\ l # NoLine /\ l \in Lines
  BY DEF Matches, Provenance, TypeOK
<1>2. CASE l = ErrorLine
  BY <1>2 DEF Reading, Lines, ErrorLine, Tally
<1>3. CASE l \in [kind : {"tally"}, pass : Nat, fail : Nat, skip : Nat]
  <2>1. /\ l.kind = "tally" /\ l.pass \in Nat /\ l.fail \in Nat /\ l.skip \in Nat
        /\ l.pass + l.fail + l.skip = Iters[conn[r]]
    BY <1>1, <1>3 DEF TallySums
  <2>a. Iters[conn[r]] \in 1 .. 999
    BY <1>1, HostAssumption
  <2> HIDE DEF l
  <2>2. l.pass \in 0 .. 999
    <3> DEFINE p == l.pass  f == l.fail  s == l.skip  k == Iters[conn[r]]
    <3>1. p \in Nat /\ f \in Nat /\ s \in Nat /\ k \in 1 .. 999 /\ p + f + s = k
      BY <2>1, <2>a
    <3>2. p \in 0 .. 999
      <4> HIDE DEF p, f, s, k
      <4>. QED
        BY ONLY <3>1
    <3>. QED
      BY <3>2
  <2>3. \A n \in DigitPrefix(l.pass) : n \in Nat /\ n <= l.pass
    BY <2>2, DigitPrefixBelow, ZenonT(30)
  <2>4. \/ x = Tally(0, 0, 0)
        \/ \E n \in DigitPrefix(l.pass) : x = Tally(n, 0, 0)
        \/ x = Tally(l.pass, 0, 0)
        \/ x = l
    BY <2>1 DEF Reading, l
  <2>5. CASE x = l
    BY <1>1, <2>5, <2>1 DEF l
  <2>6. CASE \E n \in Nat : n <= l.pass /\ x = Tally(n, 0, 0)
    <3>1. PICK n \in Nat : n <= l.pass /\ x = Tally(n, 0, 0)
      BY <2>6
    <3>2. x \in Lines /\ x.pass = n
      BY <3>1 DEF Tally, Lines
    <3>. QED
      BY <3>1, <3>2, <1>1, <2>1 DEF l
  <2>. QED
    BY <2>1, <2>3, <2>4, <2>5, <2>6
<1>. QED
  BY <1>1, <1>2, <1>3 DEF Lines

\* Nothing has been read, sent or decided when an invocation starts.
LEMMA InitHInv == Init => HInv
<1> SUFFICES ASSUME Init PROVE HInv
  OBVIOUS
<1>1. TypeOK
  BY HostAssumption DEF Init, TypeOK, Pcs, Lines
<1>2. Provenance /\ TallySums /\ ReadBelow /\ ExitFromVerdict /\ SocatBracketed
  BY HostAssumption DEF Init, Provenance, TallySums, ReadBelow, ExitFromVerdict, SocatBracketed, NoLine
<1>. QED
  BY <1>1, <1>2 DEF HInv

\* Every step of a wrapper and of the processes around it keeps the types.
LEMMA NextTypeOK == TypeOK /\ TallySums /\ Provenance /\ [Next]_vars => TypeOK'
<1> SUFFICES ASSUME TypeOK, TallySums, Provenance, [Next]_vars PROVE TypeOK'
  OBVIOUS
<1> USE HostAssumption DEF TypeOK, host, procs, stream, vars
<1>0. CASE UNCHANGED vars
  BY <1>0
<1>1. ASSUME NEW r \in Runs, preflight(r) PROVE TypeOK'
  <2>1. CASE Exit(r, 2) /\ UNCHANGED sock
    BY <1>1, <2>1 DEF preflight, Exit, Goto, Pcs
  <2>2. CASE Goto(r, "launch") /\ sock' = None /\ UNCHANGED exit
    BY <1>1, <2>2 DEF preflight, Goto, Pcs
  <2>. QED
    BY <1>1, <2>1, <2>2 DEF preflight
<1>2. ASSUME NEW r \in Runs, Launch(r) PROVE TypeOK'
  <2>1. CASE Exit(r, 2) /\ UNCHANGED <<sub, qemu>>
    BY <1>2, <2>1 DEF Launch, Exit, Goto, Pcs
  <2>2. CASE Goto(r, "wait") /\ sub' = [sub EXCEPT ![r] = "alive"]
             /\ qemu' = [qemu EXCEPT ![r] = "starting"] /\ UNCHANGED exit
    BY <1>2, <2>2 DEF Launch, Goto, Pcs
  <2>. QED
    BY <1>2, <2>1, <2>2 DEF Launch
<1>3. ASSUME NEW r \in Runs, WaitSocket(r) PROVE TypeOK'
  <2>1. CASE Goto(r, "connect") /\ UNCHANGED <<exit, procs>>
    BY <1>3, <2>1 DEF WaitSocket, Goto, Pcs
  <2>2. CASE Exit(r, 1) /\ cleanup(r)
    BY <1>3, <2>2 DEF WaitSocket, Exit, Goto, cleanup, KillSub, KillSocat, Pcs
  <2>. QED
    BY <1>3, <2>1, <2>2 DEF WaitSocket
<1>4. ASSUME NEW r \in Runs, Connect(r) PROVE TypeOK'
  BY <1>4 DEF Connect, Goto, Pcs
<1>5. ASSUME NEW r \in Runs, Grep(r) PROVE TypeOK'
  BY <1>5 DEF Grep, Goto, Pcs
<1>6. ASSUME NEW r \in Runs, Timeout(r) PROVE TypeOK'
  BY <1>6 DEF Timeout, Goto, Pcs
<1>7. ASSUME NEW r \in Runs, Sleep(r) PROVE TypeOK'
  BY <1>7 DEF Sleep, Goto, Pcs
<1>8. ASSUME NEW r \in Runs, Shutdown(r) PROVE TypeOK'
  BY <1>8 DEF Shutdown, Goto, KillSub, KillSocat, Pcs
<1>9. ASSUME NEW r \in Runs, Finish(r) PROVE TypeOK'
  BY <1>9 DEF Finish, Exit, Goto, cleanup, KillSub, KillSocat, Pcs
<1>10. ASSUME NEW r \in Runs, Interrupt(r) PROVE TypeOK'
  BY <1>10 DEF Interrupt, cleanup, KillSub, KillSocat, Pcs
<1>11. ASSUME NEW r \in Runs, QemuBind(r) PROVE TypeOK'
  BY <1>11 DEF QemuBind, Pcs
<1>12. ASSUME NEW r \in Runs, QemuExit(r) PROVE TypeOK'
  BY <1>12 DEF QemuExit, Pcs
<1>13. ASSUME NEW r \in Runs, SubExit(r) PROVE TypeOK'
  BY <1>13 DEF SubExit, KillSub, Pcs
<1>14. ASSUME NEW r \in Runs, Read(r) PROVE TypeOK'
  <2>1. PICK x \in Reading(r) : rd' = [rd EXCEPT ![r] = x]
    BY <1>14, ZenonT(30) DEF Read
  <2>2. x \in Lines
    BY <1>14, <2>1, ReadingBelow DEF Read, Provenance
  <2>. QED
    BY <1>14, <2>1, <2>2 DEF Read, Goto, Pcs
<1>15. ASSUME NEW r \in Runs, Alive(r) PROVE TypeOK'
  <2>1. CASE Matches(r) /\ \E x \in Reading(r) : rd' = [rd EXCEPT ![r] = x]
    <3>1. PICK x \in Reading(r) : rd' = [rd EXCEPT ![r] = x]
      BY <2>1, ZenonT(30)
    <3>2. x \in Lines
      BY <2>1, <3>1, ReadingBelow
    <3>. QED
      BY <1>15, <3>1, <3>2 DEF Alive, Goto, Pcs
  <2>2. CASE UNCHANGED rd
    BY <1>15, <2>2 DEF Alive, Goto, Pcs
  <2>. QED
    BY <1>15, <2>1, <2>2 DEF Alive
<1>16. ASSUME NEW r \in Runs, NEW q \in Runs, Accept(q, r) PROVE TypeOK'
  BY <1>16 DEF Accept
<1>17. ASSUME NEW r \in Runs, GuestReport(r) PROVE TypeOK'
  <2>1. PICK l \in Guest(r)!Tallies(Iters[r]) \cup {ErrorLine} : line' = [line EXCEPT ![r] = l]
    BY <1>17, ZenonT(30) DEF GuestReport
  <2>2. l \in Lines
    BY <2>1 DEF Guest!Tallies, Lines
  <2>. QED
    BY <1>17, <2>1, <2>2 DEF GuestReport
<1>18. ASSUME NEW r \in Runs, GuestEmit(r) PROVE TypeOK'
  BY <1>18 DEF GuestEmit, Pieces
<1>19. ASSUME NEW r \in Runs, SocatWrite(r) PROVE TypeOK'
  BY <1>19 DEF SocatWrite, Pieces
<1>. QED
  BY <1>0, <1>1, <1>2, <1>3, <1>4, <1>5, <1>6, <1>7, <1>8, <1>9, <1>10, <1>11, <1>12,
     <1>13, <1>14, <1>15, <1>16, <1>17, <1>18, <1>19
     DEF Next, Wrapper, Environment
\* Pieces reach a console only through the connection that was accepted.
LEMMA NextProvenance == TypeOK /\ Provenance /\ [Next]_vars => Provenance'
<1> SUFFICES ASSUME TypeOK, Provenance, [Next]_vars PROVE Provenance'
  OBVIOUS
<1> USE HostAssumption DEF host, procs, stream, vars
<1>0. CASE UNCHANGED vars
  BY <1>0 DEF Provenance, TypeOK, Matches
<1>1. ASSUME NEW r \in Runs, preflight(r) PROVE Provenance'
  BY <1>1 DEF preflight, Exit, Goto, Provenance, TypeOK, Matches
<1>2. ASSUME NEW r \in Runs, Launch(r) PROVE Provenance'
  BY <1>2 DEF Launch, Exit, Goto, Provenance, TypeOK, Matches
<1>3. ASSUME NEW r \in Runs, WaitSocket(r) PROVE Provenance'
  BY <1>3 DEF WaitSocket, Exit, Goto, cleanup, KillSub, KillSocat, Provenance, TypeOK, Matches
<1>4. ASSUME NEW r \in Runs, Connect(r) PROVE Provenance'
  BY <1>4 DEF Connect, Goto, Provenance, TypeOK, Matches
<1>5. ASSUME NEW r \in Runs, Grep(r) PROVE Provenance'
  BY <1>5 DEF Grep, Goto, Provenance, TypeOK, Matches
<1>6. ASSUME NEW r \in Runs, Read(r) PROVE Provenance'
  BY <1>6 DEF Read, Goto, Provenance, TypeOK, Matches
<1>7. ASSUME NEW r \in Runs, Alive(r) PROVE Provenance'
  BY <1>7 DEF Alive, Goto, Provenance, TypeOK, Matches
<1>8. ASSUME NEW r \in Runs, Timeout(r) PROVE Provenance'
  BY <1>8 DEF Timeout, Goto, Provenance, TypeOK, Matches
<1>9. ASSUME NEW r \in Runs, Sleep(r) PROVE Provenance'
  BY <1>9 DEF Sleep, Goto, Provenance, TypeOK, Matches
<1>10. ASSUME NEW r \in Runs, Shutdown(r) PROVE Provenance'
  BY <1>10 DEF Shutdown, Goto, KillSub, KillSocat, Provenance, TypeOK, Matches
<1>11. ASSUME NEW r \in Runs, Finish(r) PROVE Provenance'
  BY <1>11 DEF Finish, Exit, Goto, cleanup, KillSub, KillSocat, Provenance, TypeOK, Matches
<1>12. ASSUME NEW r \in Runs, Interrupt(r) PROVE Provenance'
  BY <1>12 DEF Interrupt, cleanup, KillSub, KillSocat, Provenance, TypeOK, Matches
<1>13. ASSUME NEW r \in Runs, QemuBind(r) PROVE Provenance'
  BY <1>13 DEF QemuBind, Provenance, TypeOK, Matches
<1>14. ASSUME NEW r \in Runs, QemuExit(r) PROVE Provenance'
  BY <1>14 DEF QemuExit, Provenance, TypeOK, Matches
<1>15. ASSUME NEW r \in Runs, SubExit(r) PROVE Provenance'
  BY <1>15 DEF SubExit, KillSub, Provenance, TypeOK, Matches
<1>16. ASSUME NEW r \in Runs, GuestReport(r) PROVE Provenance'
  <2>1. PICK l \in Guest(r)!Tallies(Iters[r]) \cup {ErrorLine} : line' = [line EXCEPT ![r] = l]
    BY <1>16 DEF GuestReport
  <2>2. l # NoLine
    BY <2>1 DEF Guest!Tallies, ErrorLine, NoLine
  <2>. QED
    BY <1>16, <2>1, <2>2 DEF GuestReport, Provenance, TypeOK, Matches
<1>17. ASSUME NEW r \in Runs, GuestEmit(r) PROVE Provenance'
  BY <1>17 DEF GuestEmit, Provenance, TypeOK, Matches
<1>18. ASSUME NEW r \in Runs, SocatWrite(r) PROVE Provenance'
  BY <1>18 DEF SocatWrite, Provenance, TypeOK, Matches
<1>19. ASSUME NEW r \in Runs, NEW q \in Runs, Accept(q, r) PROVE Provenance'
  BY <1>19 DEF Accept, Provenance, TypeOK, Matches
<1>. QED
  BY <1>0, <1>1, <1>2, <1>3, <1>4, <1>5, <1>6, <1>7, <1>8, <1>9, <1>10, <1>11,
     <1>12, <1>13, <1>14, <1>15, <1>16, <1>17, <1>18, <1>19
     DEF Next, Wrapper, Environment

\* A decided line is never changed, and a new one obeys the contract.
LEMMA NextTallySums == TypeOK /\ TallySums /\ [Next]_vars => TallySums'
<1> SUFFICES ASSUME TypeOK, TallySums, [Next]_vars PROVE TallySums'
  OBVIOUS
<1> USE HostAssumption DEF host, procs, stream, vars
<1>0. CASE UNCHANGED vars
  BY <1>0 DEF TallySums
<1>1. ASSUME NEW r \in Runs, preflight(r) PROVE TallySums'
  BY <1>1 DEF preflight, Exit, Goto, TallySums
<1>2. ASSUME NEW r \in Runs, Launch(r) PROVE TallySums'
  BY <1>2 DEF Launch, Exit, Goto, TallySums
<1>3. ASSUME NEW r \in Runs, WaitSocket(r) PROVE TallySums'
  BY <1>3 DEF WaitSocket, Exit, Goto, cleanup, KillSub, KillSocat, TallySums
<1>4. ASSUME NEW r \in Runs, Connect(r) PROVE TallySums'
  BY <1>4 DEF Connect, Goto, TallySums
<1>5. ASSUME NEW r \in Runs, Grep(r) PROVE TallySums'
  BY <1>5 DEF Grep, Goto, TallySums
<1>6. ASSUME NEW r \in Runs, Read(r) PROVE TallySums'
  BY <1>6 DEF Read, Goto, TallySums
<1>7. ASSUME NEW r \in Runs, Alive(r) PROVE TallySums'
  BY <1>7 DEF Alive, Goto, TallySums
<1>8. ASSUME NEW r \in Runs, Timeout(r) PROVE TallySums'
  BY <1>8 DEF Timeout, Goto, TallySums
<1>9. ASSUME NEW r \in Runs, Sleep(r) PROVE TallySums'
  BY <1>9 DEF Sleep, Goto, TallySums
<1>10. ASSUME NEW r \in Runs, Shutdown(r) PROVE TallySums'
  BY <1>10 DEF Shutdown, Goto, KillSub, KillSocat, TallySums
<1>11. ASSUME NEW r \in Runs, Finish(r) PROVE TallySums'
  BY <1>11 DEF Finish, Exit, Goto, cleanup, KillSub, KillSocat, TallySums
<1>12. ASSUME NEW r \in Runs, Interrupt(r) PROVE TallySums'
  BY <1>12 DEF Interrupt, cleanup, KillSub, KillSocat, TallySums
<1>13. ASSUME NEW r \in Runs, QemuBind(r) PROVE TallySums'
  BY <1>13 DEF QemuBind, TallySums
<1>14. ASSUME NEW r \in Runs, QemuExit(r) PROVE TallySums'
  BY <1>14 DEF QemuExit, TallySums
<1>15. ASSUME NEW r \in Runs, SubExit(r) PROVE TallySums'
  BY <1>15 DEF SubExit, KillSub, TallySums
<1>16. ASSUME NEW r \in Runs, GuestReport(r) PROVE TallySums'
  <2>1. PICK l \in Guest(r)!Tallies(Iters[r]) \cup {ErrorLine} : line' = [line EXCEPT ![r] = l]
    BY <1>16 DEF GuestReport
  <2>2. l.kind = "tally" => l.pass + l.fail + l.skip = Iters[r]
    BY <2>1 DEF Guest!Tallies, ErrorLine
  <2>. QED
    BY <1>16, <2>1, <2>2 DEF GuestReport, TallySums, TypeOK
<1>17. ASSUME NEW r \in Runs, GuestEmit(r) PROVE TallySums'
  BY <1>17 DEF GuestEmit, TallySums
<1>18. ASSUME NEW r \in Runs, SocatWrite(r) PROVE TallySums'
  BY <1>18 DEF SocatWrite, TallySums
<1>19. ASSUME NEW r \in Runs, NEW q \in Runs, Accept(q, r) PROVE TallySums'
  BY <1>19 DEF Accept, TallySums
<1>. QED
  BY <1>0, <1>1, <1>2, <1>3, <1>4, <1>5, <1>6, <1>7, <1>8, <1>9, <1>10, <1>11,
     <1>12, <1>13, <1>14, <1>15, <1>16, <1>17, <1>18, <1>19
     DEF Next, Wrapper, Environment

\* Torn or whole, what a wrapper has read stays below what the guest wrote.
LEMMA NextReadBelow == TypeOK /\ TallySums /\ Provenance /\ ReadBelow /\ [Next]_vars => ReadBelow'
<1> SUFFICES ASSUME TypeOK, TallySums, Provenance, ReadBelow, [Next]_vars PROVE ReadBelow'
  OBVIOUS
<1> USE HostAssumption DEF host, procs, stream, vars
<1>0. CASE UNCHANGED vars
  BY <1>0 DEF ReadBelow
<1>1. ASSUME NEW r \in Runs, preflight(r) PROVE ReadBelow'
  BY <1>1 DEF preflight, Exit, Goto, ReadBelow
<1>2. ASSUME NEW r \in Runs, Launch(r) PROVE ReadBelow'
  BY <1>2 DEF Launch, Exit, Goto, ReadBelow
<1>3. ASSUME NEW r \in Runs, WaitSocket(r) PROVE ReadBelow'
  BY <1>3 DEF WaitSocket, Exit, Goto, cleanup, KillSub, KillSocat, ReadBelow
<1>4. ASSUME NEW r \in Runs, Connect(r) PROVE ReadBelow'
  BY <1>4 DEF Connect, ReadBelow, Provenance, TypeOK
<1>5. ASSUME NEW r \in Runs, Grep(r) PROVE ReadBelow'
  BY <1>5 DEF Grep, Goto, ReadBelow
<1>6. ASSUME NEW r \in Runs, Read(r) PROVE ReadBelow'
  <2>1. PICK x \in Reading(r) : rd' = [rd EXCEPT ![r] = x]
    BY <1>6, ZenonT(30) DEF Read
  <2>2. x.kind = "tally" =>
                \/ x.pass = 0
                \/ /\ conn[r] \in Runs
                   /\ line[conn[r]].kind = "tally"
                   /\ x.pass <= line[conn[r]].pass
    BY <1>6, <2>1, ReadingBelow DEF Read, Provenance
  <2>. QED
    BY <1>6, <2>1, <2>2 DEF Read, ReadBelow, TypeOK
<1>7. ASSUME NEW r \in Runs, Alive(r) PROVE ReadBelow'
  <2>1. CASE Matches(r) /\ \E x \in Reading(r) : rd' = [rd EXCEPT ![r] = x]
    <3>1. PICK x \in Reading(r) : rd' = [rd EXCEPT ![r] = x]
      BY <2>1
    <3>2. x.kind = "tally" =>
                \/ x.pass = 0
                \/ /\ conn[r] \in Runs
                   /\ line[conn[r]].kind = "tally"
                   /\ x.pass <= line[conn[r]].pass
      BY <2>1, <3>1, ReadingBelow
    <3>. QED
      BY <1>7, <3>1, <3>2 DEF Alive, ReadBelow, TypeOK
  <2>2. CASE UNCHANGED rd
    BY <1>7, <2>2 DEF Alive, ReadBelow
  <2>. QED
    BY <1>7, <2>1, <2>2 DEF Alive
<1>8. ASSUME NEW r \in Runs, Timeout(r) PROVE ReadBelow'
  BY <1>8 DEF Timeout, Goto, ReadBelow
<1>9. ASSUME NEW r \in Runs, Sleep(r) PROVE ReadBelow'
  BY <1>9 DEF Sleep, Goto, ReadBelow
<1>10. ASSUME NEW r \in Runs, Shutdown(r) PROVE ReadBelow'
  BY <1>10 DEF Shutdown, Goto, KillSub, KillSocat, ReadBelow
<1>11. ASSUME NEW r \in Runs, Finish(r) PROVE ReadBelow'
  BY <1>11 DEF Finish, Exit, Goto, cleanup, KillSub, KillSocat, ReadBelow
<1>12. ASSUME NEW r \in Runs, Interrupt(r) PROVE ReadBelow'
  BY <1>12 DEF Interrupt, cleanup, KillSub, KillSocat, ReadBelow
<1>13. ASSUME NEW r \in Runs, QemuBind(r) PROVE ReadBelow'
  BY <1>13 DEF QemuBind, ReadBelow
<1>14. ASSUME NEW r \in Runs, QemuExit(r) PROVE ReadBelow'
  BY <1>14 DEF QemuExit, ReadBelow
<1>15. ASSUME NEW r \in Runs, SubExit(r) PROVE ReadBelow'
  BY <1>15 DEF SubExit, KillSub, ReadBelow
<1>16. ASSUME NEW r \in Runs, GuestReport(r) PROVE ReadBelow'
  BY <1>16 DEF GuestReport, ReadBelow, TypeOK, NoLine
<1>17. ASSUME NEW r \in Runs, GuestEmit(r) PROVE ReadBelow'
  BY <1>17 DEF GuestEmit, ReadBelow
<1>18. ASSUME NEW r \in Runs, SocatWrite(r) PROVE ReadBelow'
  BY <1>18 DEF SocatWrite, ReadBelow
<1>19. ASSUME NEW r \in Runs, NEW q \in Runs, Accept(q, r) PROVE ReadBelow'
  BY <1>19 DEF Accept, ReadBelow
<1>. QED
  BY <1>0, <1>1, <1>2, <1>3, <1>4, <1>5, <1>6, <1>7, <1>8, <1>9, <1>10, <1>11,
     <1>12, <1>13, <1>14, <1>15, <1>16, <1>17, <1>18, <1>19
     DEF Next, Wrapper, Environment

\* An exit status is set once, by an error exit or by the verdict.
LEMMA NextExitFromVerdict == TypeOK /\ ExitFromVerdict /\ [Next]_vars => ExitFromVerdict'
<1> SUFFICES ASSUME TypeOK, ExitFromVerdict, [Next]_vars PROVE ExitFromVerdict'
  OBVIOUS
<1> USE HostAssumption DEF host, procs, stream, vars
<1>0. CASE UNCHANGED vars
  BY <1>0 DEF ExitFromVerdict, Passed, TypeOK
<1>1. ASSUME NEW r \in Runs, preflight(r) PROVE ExitFromVerdict'
  BY <1>1 DEF preflight, Exit, Goto, ExitFromVerdict, Passed, TypeOK
<1>2. ASSUME NEW r \in Runs, Launch(r) PROVE ExitFromVerdict'
  BY <1>2 DEF Launch, Exit, Goto, ExitFromVerdict, Passed, TypeOK
<1>3. ASSUME NEW r \in Runs, WaitSocket(r) PROVE ExitFromVerdict'
  BY <1>3 DEF WaitSocket, Exit, Goto, cleanup, KillSub, KillSocat, ExitFromVerdict, Passed, TypeOK
<1>4. ASSUME NEW r \in Runs, Connect(r) PROVE ExitFromVerdict'
  BY <1>4 DEF Connect, Goto, ExitFromVerdict, Passed, TypeOK
<1>5. ASSUME NEW r \in Runs, Grep(r) PROVE ExitFromVerdict'
  BY <1>5 DEF Grep, Goto, ExitFromVerdict, Passed, TypeOK
<1>6. ASSUME NEW r \in Runs, Read(r) PROVE ExitFromVerdict'
  BY <1>6 DEF Read, Goto, ExitFromVerdict, Passed, TypeOK
<1>7. ASSUME NEW r \in Runs, Alive(r) PROVE ExitFromVerdict'
  BY <1>7 DEF Alive, Goto, ExitFromVerdict, Passed, TypeOK
<1>8. ASSUME NEW r \in Runs, Timeout(r) PROVE ExitFromVerdict'
  BY <1>8 DEF Timeout, Goto, ExitFromVerdict, Passed, TypeOK
<1>9. ASSUME NEW r \in Runs, Sleep(r) PROVE ExitFromVerdict'
  BY <1>9 DEF Sleep, Goto, ExitFromVerdict, Passed, TypeOK
<1>10. ASSUME NEW r \in Runs, Shutdown(r) PROVE ExitFromVerdict'
  BY <1>10 DEF Shutdown, Goto, KillSub, KillSocat, ExitFromVerdict, Passed, TypeOK
<1>11. ASSUME NEW r \in Runs, Finish(r) PROVE ExitFromVerdict'
  BY <1>11 DEF Finish, Exit, Goto, cleanup, KillSub, KillSocat, ExitFromVerdict, Passed, TypeOK
<1>12. ASSUME NEW r \in Runs, Interrupt(r) PROVE ExitFromVerdict'
  BY <1>12 DEF Interrupt, cleanup, KillSub, KillSocat, ExitFromVerdict, Passed, TypeOK
<1>13. ASSUME NEW r \in Runs, QemuBind(r) PROVE ExitFromVerdict'
  BY <1>13 DEF QemuBind, ExitFromVerdict, Passed, TypeOK
<1>14. ASSUME NEW r \in Runs, QemuExit(r) PROVE ExitFromVerdict'
  BY <1>14 DEF QemuExit, ExitFromVerdict, Passed, TypeOK
<1>15. ASSUME NEW r \in Runs, SubExit(r) PROVE ExitFromVerdict'
  BY <1>15 DEF SubExit, KillSub, ExitFromVerdict, Passed, TypeOK
<1>16. ASSUME NEW r \in Runs, GuestReport(r) PROVE ExitFromVerdict'
  BY <1>16 DEF GuestReport, ExitFromVerdict, Passed, TypeOK
<1>17. ASSUME NEW r \in Runs, GuestEmit(r) PROVE ExitFromVerdict'
  BY <1>17 DEF GuestEmit, ExitFromVerdict, Passed, TypeOK
<1>18. ASSUME NEW r \in Runs, SocatWrite(r) PROVE ExitFromVerdict'
  BY <1>18 DEF SocatWrite, ExitFromVerdict, Passed, TypeOK
<1>19. ASSUME NEW r \in Runs, NEW q \in Runs, Accept(q, r) PROVE ExitFromVerdict'
  BY <1>19 DEF Accept, ExitFromVerdict, Passed, TypeOK
<1>. QED
  BY <1>0, <1>1, <1>2, <1>3, <1>4, <1>5, <1>6, <1>7, <1>8, <1>9, <1>10, <1>11,
     <1>12, <1>13, <1>14, <1>15, <1>16, <1>17, <1>18, <1>19
     DEF Next, Wrapper, Environment

\* socat is started once, after the socket was seen, and killed before the verdict.
LEMMA NextSocatBracketed == TypeOK /\ SocatBracketed /\ [Next]_vars => SocatBracketed'
<1> SUFFICES ASSUME TypeOK, SocatBracketed, [Next]_vars PROVE SocatBracketed'
  OBVIOUS
<1> USE DEF TypeOK, SocatBracketed, host, procs, stream, Goto, Exit
<1>0. CASE UNCHANGED vars
  BY <1>0 DEF vars
<1>1. ASSUME NEW r \in Runs, preflight(r) \/ Launch(r) \/ Grep(r) \/ Read(r) \/ Alive(r)
                             \/ Timeout(r) \/ Sleep(r)
      PROVE  SocatBracketed'
  BY <1>1 DEF preflight, Launch, Grep, Read, Alive, Timeout, Sleep
<1>2. ASSUME NEW r \in Runs, WaitSocket(r) PROVE SocatBracketed'
  BY <1>2 DEF WaitSocket, cleanup, KillSocat
<1>3. ASSUME NEW r \in Runs, Connect(r) PROVE SocatBracketed'
  BY <1>3 DEF Connect
<1>4. ASSUME NEW r \in Runs, Shutdown(r) \/ Finish(r) \/ Interrupt(r) PROVE SocatBracketed'
  BY <1>4 DEF Shutdown, Finish, Interrupt, cleanup, KillSocat
<1>5. ASSUME NEW r \in Runs, Environment(r) PROVE SocatBracketed'
  BY <1>5 DEF Environment, QemuBind, QemuExit, SubExit, GuestReport, GuestEmit, SocatWrite, Accept
<1>. QED
  BY <1>0, <1>1, <1>2, <1>3, <1>4, <1>5 DEF Next, Wrapper

\* HInv is inductive.
LEMMA NextHInv == HInv /\ [Next]_vars => HInv'
BY NextTypeOK, NextProvenance, NextTallySums, NextReadBelow, NextExitFromVerdict,
   NextSocatBracketed DEF HInv

\* The inductive invariant of the wrapper holds in every behaviour.
THEOREM WrapperInvariant == Spec => []HInv
BY InitHInv, NextHInv, PTL DEF Spec

\* However many invocations share the socket and wherever the sentinel is torn, a
\* run that exits 0 read the line of a guest with at least that many passes.
THEOREM WrapperSound == Spec => []PassFromGuest
<1>1. HInv => PassFromGuest
  <2> SUFFICES ASSUME HInv, NEW r \in Runs \ Kunit, exit[r] = 0
               PROVE  \E q \in Runs : line[q].kind = "tally" /\ line[q].pass >= Iters[r]
    BY DEF PassFromGuest
  <2>1. rd[r].kind = "tally" /\ rd[r].pass = Iters[r]
    BY DEF HInv, ExitFromVerdict, Passed
  <2>2. Iters[r] \in 1 .. 999
    BY HostAssumption
  <2>3. /\ conn[r] \in Runs
        /\ line[conn[r]].kind = "tally"
        /\ rd[r].pass <= line[conn[r]].pass
    <3>1. Iters[r] # 0
      BY <2>2
    <3>. QED
      BY <2>1, <3>1 DEF HInv, ReadBelow
  <2>4. line[conn[r]].pass \in Nat
    BY <2>3 DEF HInv, TypeOK, Lines, NoLine, ErrorLine
  <2>. QED
    BY <2>1, <2>2, <2>3, <2>4
<1>. QED
  BY <1>1, WrapperInvariant, PTL

\* With one invocation at a time, exit status 0 is the verdict of the run's own
\* guest: pass == K, fail == 0, skip == 0 (ndt.sh:46, 383).
THEOREM SingleRunOwnVerdict ==
    ASSUME \A r, q \in Runs : r = q, Kunit = {}
    PROVE  Spec => []OwnVerdict
<1>1. HInv /\ PassFromGuest => OwnVerdict
  <2> SUFFICES ASSUME HInv, PassFromGuest, NEW r \in Runs, exit[r] = 0
               PROVE  AllPass(r, Iters[r])
    BY DEF OwnVerdict
  <2>1. line[r].kind = "tally" /\ line[r].pass >= Iters[r]
    BY DEF PassFromGuest
  <2>2. /\ line[r] \in [kind : {"tally"}, pass : Nat, fail : Nat, skip : Nat]
        /\ line[r].pass + line[r].fail + line[r].skip = Iters[r]
    BY <2>1 DEF HInv, TypeOK, Lines, NoLine, ErrorLine, TallySums
  <2>3. line[r].pass = Iters[r] /\ line[r].fail = 0 /\ line[r].skip = 0
    <3> DEFINE p == line[r].pass  f == line[r].fail  s == line[r].skip  k == Iters[r]
    <3>1. p \in Nat /\ f \in Nat /\ s \in Nat /\ k \in 1 .. 999 /\ p + f + s = k /\ p >= k
      BY <2>1, <2>2, HostAssumption
    <3>2. p = k /\ f = 0 /\ s = 0
      <4> HIDE DEF p, f, s, k
      <4>. QED
        BY ONLY <3>1
    <3>. QED
      BY <3>2
  <2>. QED
    BY <2>2, <2>3 DEF AllPass, Tally
<1>. QED
  BY <1>1, WrapperInvariant, WrapperSound, PTL

\* The console.log that --last shows beside a summary does not change any more once
\* the summary is written, for any number of concurrent invocations: only the run's
\* own socat writes the file, and it is gone on every path to the end of the script.
THEOREM ConsoleIsFinal == Spec => ConsoleFinal
<1>1. HInv /\ [Next]_vars => [\A r \in Runs : pc[r] = "done" => con'[r] = con[r]]_vars
  <2> SUFFICES ASSUME HInv, Next, NEW r \in Runs, pc[r] = "done"
               PROVE  con'[r] = con[r]
    OBVIOUS
  <2>1. CASE con' = con
    BY <2>1
  <2>2. ASSUME NEW q \in Runs, SocatWrite(q) PROVE con'[r] = con[r]
    <3>1. socat[q] = "on" /\ socat[r] # "on"
      BY <2>2 DEF SocatWrite, HInv, SocatBracketed
    <3>. QED
      BY <2>2, <3>1 DEF SocatWrite, HInv, TypeOK
  <2>3. ASSUME NEW q \in Runs, Wrapper(q) \/ Interrupt(q) PROVE con' = con
    BY <2>3 DEF Wrapper, Interrupt, preflight, Launch, WaitSocket, Connect, Grep, Read, Alive,
       Timeout, Sleep, Shutdown, Finish, stream
  <2>4. ASSUME NEW q \in Runs, Environment(q) PROVE SocatWrite(q) \/ con' = con
    BY <2>4 DEF Environment, QemuBind, QemuExit, SubExit, GuestReport, GuestEmit, Accept, stream
  <2>. QED
    BY <2>1, <2>2, <2>3, <2>4 DEF Next
<1>. QED
  BY <1>1, WrapperInvariant, PTL DEF Spec, ConsoleFinal
=============================================================================
