--------------------------- MODULE NdtInitProofs ---------------------------
(***************************************************************************)
(* Proofs about the guest's init script for every set of result            *)
(* directories, every iteration count and every number of device probes.   *)
(***************************************************************************)
EXTENDS NdtInit, TLAPS

\* The fold of init:140-157 calls a set of status lines a pass exactly when it
\* holds a pass and no fail.
LEMMA OutcomePass ==
    ASSUME NEW ss
    PROVE  /\ Outcome(ss) \in {"pass", "fail", "skip"}
           /\ Outcome(ss) = "pass" <=> Clean(ss)
BY DEF Outcome, Clean

\* Before the script runs, nothing is counted, printed or left on disk.
LEMMA InitIInv == Init => IInv
<1> SUFFICES ASSUME Init PROVE IInv
  OBVIOUS
<1>1. TypeOK
  <2>1. cmd \in [test : Shapes, iter : Shapes, k : 0 .. MaxIter, kunit : BOOLEAN]
    BY DEF Init
  <2>2. node \in BOOLEAN
    BY DEF Init
  <2>3. line \in {NoLine, ErrorLine}
    BY DEF Init
  <2>4. /\ pc \in Pcs
        /\ i \in Nat /\ pass \in Nat /\ fail \in Nat /\ skip \in Nat /\ good \in Nat
        /\ results \in [Devs -> Statuses \cup {"none"}]
        /\ tries \in 0 .. MaxTries
        /\ power \in {"on", "off"}
    BY InitAssumption DEF Init, Pcs
  <2>. QED
    BY <2>1, <2>2, <2>3, <2>4 DEF TypeOK
<1>2. Counting
  BY <1>1 DEF Init, Counting, TypeOK
<1>3. FreshResults /\ LastWord
  BY DEF Init, FreshResults, LastWord, NoLine
<1>. QED
  BY <1>1, <1>2, <1>3 DEF IInv

\* Every step of the script, of the device and of the kernel keeps IInv.
LEMMA NextIInv == IInv /\ [Next]_vars => IInv'
<1> SUFFICES ASSUME IInv, [Next]_vars PROVE IInv'
  OBVIOUS
<1> USE InitAssumption DEF IInv, Pcs, tally
<1>goto. ASSUME NEW label \in Pcs \ {"fold", "wipe", "boot"}, Goto(label), power = "on",
                pc \notin {"fold", "wipe", "poweroff"},
                label \in {"poweroff"} => FALSE,
                cmd.test = "absent" => label = "shell",
                label \in {"validate", "load", "configfs", "wait"} =>
                  pc \in {"boot", "validate", "load", "configfs", "wait"}
         PROVE  IInv'
  <2>1. TypeOK'
    BY <1>goto DEF Goto, TypeOK
  <2>2. Counting'
    BY <1>goto DEF Goto, Counting, TypeOK
  <2>3. FreshResults' /\ LastWord'
    BY <1>goto DEF Goto, FreshResults, LastWord, NoLine, TypeOK
  <2>. QED
    BY <2>1, <2>2, <2>3
<1>die. ASSUME ndt_die, pc \in {"validate", "load", "configfs", "wait"}
        PROVE  IInv'
  <2>1. TypeOK'
    BY <1>die DEF ndt_die, TypeOK
  <2>2. Counting'
    BY <1>die DEF ndt_die, Counting, TypeOK
  <2>3. FreshResults' /\ LastWord'
    BY <1>die DEF ndt_die, FreshResults, LastWord, NoLine, ErrorLine, TypeOK
  <2>. QED
    BY <2>1, <2>2, <2>3
<1>1. CASE ParseCmdline
  BY <1>1, <1>goto DEF ParseCmdline, At
<1>2. CASE Validate
  <2>1. cmd.test # "absent"
    BY <1>2 DEF Validate, At, LastWord
  <2>. QED
    BY <1>2, <2>1, <1>goto, <1>die DEF Validate, At
<1>3. CASE LoadVnvme
  <2>1. cmd.test # "absent"
    BY <1>3 DEF LoadVnvme, At, LastWord
  <2>. QED
    BY <1>3, <2>1, <1>goto, <1>die DEF LoadVnvme, At
<1>4. CASE Hotplug
  <2>1. cmd.test # "absent"
    BY <1>4 DEF Hotplug, At, LastWord
  <2>. QED
    BY <1>4, <2>1, <1>goto, <1>die DEF Hotplug, At
<1>5. CASE WaitNode
  <2>1. cmd.test # "absent" /\ pc = "wait" /\ power = "on"
    BY <1>5 DEF WaitNode, At, LastWord
  <2>2. CASE Goto("loop")
    BY <2>1, <2>2, <1>goto
  <2>3. CASE ndt_die
    BY <2>1, <2>3, <1>die
  <2>4. CASE /\ tries < MaxTries
             /\ tries' = tries + 1
             /\ UNCHANGED <<cmd, pc, tally, results, node, line, power, good>>
    <3>1. TypeOK'
      BY <2>4 DEF TypeOK
    <3>2. Counting' /\ FreshResults' /\ LastWord'
      BY <2>4 DEF Counting, FreshResults, LastWord
    <3>. QED
      BY <3>1, <3>2
  <2>. QED
    BY <1>5, <2>2, <2>3, <2>4 DEF WaitNode
<1>6. CASE RunCheck
  <2>a. PICK wrote \in SUBSET Devs : \E new \in [wrote -> Statuses] :
          /\ results' = [d \in Devs |-> IF d \in wrote THEN new[d] ELSE results[d]]
          /\ good' = IF Clean({new[d] : d \in wrote}) THEN good + 1 ELSE good
    BY <1>6 DEF RunCheck
  <2>0. PICK new \in [wrote -> Statuses] :
          /\ results' = [d \in Devs |-> IF d \in wrote THEN new[d] ELSE results[d]]
          /\ good' = IF Clean({new[d] : d \in wrote}) THEN good + 1 ELSE good
    BY <2>a
  <2>1. TypeOK'
    BY <1>6, <2>0 DEF RunCheck, TypeOK
  <2>2. Counting'
    BY <1>6 DEF RunCheck, At, Counting, TypeOK
  <2>3. Clean({new[d] : d \in wrote}) <=> Clean({results'[d] : d \in Devs})
    <3>1. \A d \in Devs : results[d] = "none"
      BY <1>6 DEF RunCheck, At, FreshResults
    <3>2. \A d \in Devs : results'[d] = IF d \in wrote THEN new[d] ELSE "none"
      BY <2>0, <3>1
    <3>. QED
      BY <3>2 DEF Clean
  <2>4. FreshResults'
    BY <1>6, <2>0, <2>3 DEF RunCheck, At, FreshResults, TypeOK
  <2>5. LastWord'
    BY <1>6 DEF RunCheck, At, LastWord, NoLine
  <2>. QED
    BY <2>1, <2>2, <2>4, <2>5
<1>7. CASE Fold
  <2> DEFINE ss == {results[d] : d \in Devs} \ {"none"}
  <2>0. /\ Outcome(ss) \in {"pass", "fail", "skip"}
        /\ Outcome(ss) = "pass" <=> Clean({results[d] : d \in Devs})
    <3>1. Clean(ss) <=> Clean({results[d] : d \in Devs})
      BY DEF Clean
    <3>. QED
      BY <3>1, OutcomePass
  <2>1. /\ fail' = IF Outcome(ss) = "fail" THEN fail + 1 ELSE fail
        /\ pass' = IF Outcome(ss) = "pass" THEN pass + 1 ELSE pass
        /\ skip' = IF Outcome(ss) = "skip" THEN skip + 1 ELSE skip
    BY <1>7 DEF Fold
  <2> HIDE DEF ss
  <2>2. TypeOK'
    BY <1>7, <2>1 DEF Fold, TypeOK
  <2>3. Counting'
    BY <1>7, <2>0, <2>1 DEF Fold, At, Counting, TypeOK
  <2>4. FreshResults'
    BY <1>7, <2>0, <2>1 DEF Fold, At, FreshResults, TypeOK
  <2>5. LastWord'
    BY <1>7 DEF Fold, At, LastWord, NoLine
  <2>. QED
    BY <2>2, <2>3, <2>4, <2>5
<1>8. CASE Wipe
  <2>1. TypeOK'
    BY <1>8 DEF Wipe, TypeOK
  <2>2. Counting'
    BY <1>8 DEF Wipe, At, Counting, TypeOK
  <2>3. FreshResults' /\ LastWord'
    BY <1>8 DEF Wipe, At, FreshResults, LastWord, NoLine
  <2>. QED
    BY <2>1, <2>2, <2>3
<1>9. CASE Emit
  <2>1. TypeOK'
    BY <1>9 DEF Emit, TypeOK
  <2>2. Counting'
    BY <1>9 DEF Emit, At, Counting, TypeOK
  <2>3. FreshResults' /\ LastWord'
    BY <1>9 DEF Emit, At, FreshResults, LastWord, NoLine
  <2>. QED
    BY <2>1, <2>2, <2>3
<1>10. CASE Poweroff \/ Panic
  <2>1. TypeOK'
    BY <1>10 DEF Poweroff, Panic, TypeOK
  <2>2. Counting' /\ FreshResults' /\ LastWord'
    BY <1>10 DEF Poweroff, Panic, Counting, FreshResults, LastWord
  <2>. QED
    BY <2>1, <2>2
<1>11. CASE NodeAppears
  <2>1. TypeOK'
    BY <1>11 DEF NodeAppears, TypeOK
  <2>2. Counting' /\ FreshResults' /\ LastWord'
    BY <1>11 DEF NodeAppears, Counting, FreshResults, LastWord
  <2>. QED
    BY <2>1, <2>2
<1>12. CASE Hang
  <2>1. cmd.test # "absent"
    BY <1>12 DEF Hang, LastWord
  <2>. QED
    BY <1>12, <2>1, <1>goto DEF Hang
<1>13. CASE UNCHANGED vars
  BY <1>13 DEF vars, TypeOK, Counting, FreshResults, LastWord
<1>. QED
  BY <1>1, <1>2, <1>3, <1>4, <1>5, <1>6, <1>7, <1>8, <1>9, <1>10, <1>11, <1>12, <1>13
     DEF Next, Script

\* The inductive invariant of init's iteration loop holds in every behaviour.
THEOREM GuestInvariant == Spec => []IInv
BY InitIInv, NextIInv, PTL DEF Spec

\* The tally init prints is honest: its pass counter counts exactly the
\* iterations whose own check run left a pass and no fail.
THEOREM GuestHonest == Spec => []HonestTally
<1>1. IInv => HonestTally
  BY DEF IInv, HonestTally, FreshResults, LastWord, NoLine
<1>. QED
  BY <1>1, GuestInvariant, PTL

\* The abstract initial state, and one simulation step per action: only a
\* sentinel or the end of the machine is visible through the contract.
THEOREM GuestImplementsContract == Spec => ImplementsContract
<1>1. Init => Contract!ContractInit
  <2> SUFFICES ASSUME Init PROVE Contract!ContractInit
    OBVIOUS
  <2>1. cmd.k \in Nat
    BY InitAssumption DEF Init
  <2>2. (cmd.test # "absent") \in BOOLEAN
    OBVIOUS
  <2>. QED
    BY <2>1, <2>2 DEF Init, Contract!ContractInit, NoLine, Contract!NoLine
<1>2. IInv /\ [Next]_vars => [Contract!ContractNext]_(Contract!contractVars)
  <2> SUFFICES ASSUME IInv, [Next]_vars
               PROVE  [Contract!ContractNext]_(Contract!contractVars)
    OBVIOUS
  <2> USE DEF Contract!contractVars, tally
  <2>die. ASSUME ndt_die, power = "on", pc \in {"validate", "load", "configfs", "wait"}
          PROVE  Contract!ContractNext
    <3>1. line = NoLine /\ cmd.test # "absent"
      BY <2>die DEF IInv, LastWord
    <3>. QED
      BY <2>die, <3>1 DEF ndt_die, Contract!ContractNext, Contract!Report, ErrorLine,
         Contract!ErrorLine, NoLine, Contract!NoLine
  <2>goto. ASSUME NEW label, Goto(label)
           PROVE  UNCHANGED Contract!contractVars
    BY <2>goto DEF Goto
  <2>1. CASE ParseCmdline \/ Hang
    BY <2>1, <2>goto DEF ParseCmdline, Hang
  <2>2. CASE Validate \/ LoadVnvme \/ Hotplug
    BY <2>2, <2>die, <2>goto DEF Validate, LoadVnvme, Hotplug, At
  <2>3. CASE WaitNode
    <3>1. CASE UNCHANGED <<cmd, line, power>>
      BY <3>1
    <3>. QED
      BY <2>3, <3>1, <2>die, <2>goto DEF WaitNode, At
  <2>4. CASE RunCheck \/ Fold \/ Wipe \/ NodeAppears
    BY <2>4 DEF RunCheck, Fold, Wipe, NodeAppears
  <2>5. CASE Emit
    <3>1. line = NoLine /\ cmd.test # "absent" /\ power = "on"
      BY <2>5 DEF Emit, At, IInv, LastWord
    <3>2. /\ cmd.k \in Nat /\ pass \in Nat /\ fail \in Nat /\ skip \in Nat
          /\ pass + fail + skip = cmd.k
      BY <2>5, InitAssumption DEF Emit, At, IInv, Counting, TypeOK
    <3>3. line' \in Contract!Tallies(cmd.k)
      BY <2>5, <3>2 DEF Emit, Contract!Tallies
    <3>. QED
      BY <2>5, <3>1, <3>3 DEF Emit, Contract!ContractNext, Contract!Report, NoLine,
         Contract!NoLine
  <2>6. CASE Poweroff \/ Panic
    BY <2>6 DEF Poweroff, Panic, At, Contract!ContractNext, Contract!Stop
  <2>7. CASE UNCHANGED vars
    BY <2>7 DEF vars
  <2>. QED
    BY <2>1, <2>2, <2>3, <2>4, <2>5, <2>6, <2>7 DEF Next, Script
<1>. QED
  BY <1>1, <1>2, GuestInvariant, PTL DEF Spec, ImplementsContract, Contract!ContractSpec
=============================================================================
