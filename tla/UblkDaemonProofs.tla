-------------------------- MODULE UblkDaemonProofs --------------------------
(***************************************************************************)
(* Proofs about the control plane of miniublk for any number of commands   *)
(* and of device numbers.                                                  *)
(***************************************************************************)
EXTENDS UblkDaemon, TLAPS

\* None is no command.
LEMMA NoneIsNoCommand == None \notin Cmds
BY DaemonAssumption DEF Cmds

\* Giving up what keeps the node open closes it only when nothing is left, and a
\* node that is open keeps its number.
LEMMA DropKeepsNodes ==
    ASSUME TypeOK, Nodes, NEW p \in Cmds, NEW what, Drop(p, what), UNCHANGED <<num, gen>>
    PROVE  /\ \A q \in Cmds : hold'[q] # {} => Exists(q)' /\ (open[Dev(q)] = q)' /\ Dev(q)' = Dev(q)
           /\ \A g \in Cmds : open'[g] # None => (hold[open[g]] # {} /\ Dev(open[g]) = g)'
           /\ \A q \in Cmds : hold'[q] \subseteq hold[q]
<1> USE NoneIsNoCommand DEF TypeOK, Nodes, Dev, Exists, Maybe
<1>1. /\ hold' = [hold EXCEPT ![p] = @ \ what]
      /\ open' = [g \in Cmds |-> IF open[g] = p /\ hold'[p] = {} THEN None ELSE open[g]]
      /\ dev' = [n \in Numbers |-> IF dev[n] # None /\ gone'[dev[n]] /\ open'[dev[n]] = None
                                   THEN None ELSE dev[n]]
  BY DEF Drop, Release
<1>2. \A q \in Cmds : hold'[q] \subseteq hold[q]
  BY <1>1
<1>3. ASSUME NEW q \in Cmds, hold'[q] # {}
      PROVE  Exists(q)' /\ (open[Dev(q)] = q)' /\ Dev(q)' = Dev(q)
  <2> DEFINE g == dev[num[q]]
  <2>1. g \in Cmds /\ open[g] = q
    BY <1>2, <1>3
  <2>2. open'[g] = q
    BY <1>1, <1>3, <2>1
  <2>3. dev'[num[q]] = g
    BY <1>1, <2>1, <2>2
  <2>. QED
    BY <2>1, <2>2, <2>3
<1>4. ASSUME NEW g \in Cmds, open'[g] # None
      PROVE  (hold[open[g]] # {} /\ Dev(open[g]) = g)'
  <2>1. open'[g] = open[g] /\ open[g] \in Cmds /\ hold[open[g]] # {} /\ dev[num[open[g]]] = g
    BY <1>1, <1>4
  <2>2. hold'[open[g]] # {}
    BY <1>1, <1>4, <2>1
  <2>3. dev'[num[open[g]]] = g
    BY <1>3, <2>1, <2>2
  <2>. QED
    BY <2>1, <2>2, <2>3
<1>. QED
  BY <1>2, <1>3, <1>4

\* Every step of the commands and of the driver keeps the types.
LEMMA NextTypeOK == TypeOK /\ [Next]_vars => TypeOK'
<1> SUFFICES ASSUME TypeOK, [Next]_vars PROVE TypeOK'
  OBVIOUS
<1> USE NoneIsNoCommand DEF TypeOK, Pcs, States, command, driver, history, Goto, Dev, Exists, Ended, Maybe
<1>0. CASE UNCHANGED vars
  BY <1>0 DEF vars
<1>1. ASSUME NEW p \in Cmds, Run(p) PROVE TypeOK'
  BY <1>1 DEF Run
<1>2. ASSUME NEW p \in Cmds, ublk_ctrl_add_dev(p) PROVE TypeOK'
  <2>1. CASE Return(p) /\ UNCHANGED <<dev, rec, gen>>
    BY <1>2, <2>1 DEF ublk_ctrl_add_dev, Return
  <2>2. CASE /\ ~Exists(p)
             /\ dev' = [dev EXCEPT ![num[p]] = p]
             /\ \E r \in BOOLEAN : rec' = [rec EXCEPT ![p] = r]
             /\ gen' = [gen EXCEPT ![p] = p]
             /\ GoOn(p, "fork")
    BY <1>2, <2>2 DEF ublk_ctrl_add_dev, GoOn
  <2>. QED
    BY <1>2, <2>1, <2>2 DEF ublk_ctrl_add_dev
<1>3. ASSUME NEW p \in Cmds, ublk_ctrl_get_info(p) PROVE TypeOK'
  <2>1. CASE ~Exists(p) /\ Return(p) /\ UNCHANGED gen
    BY <1>3, <2>1 DEF ublk_ctrl_get_info, Return
  <2>2. CASE /\ Exists(p)
             /\ gen' = [gen EXCEPT ![p] = Dev(p)]
             /\ seen' = [seen EXCEPT ![p] = state[Dev(p)]]
             /\ ipid' = [ipid EXCEPT ![p] = pid[Dev(p)]]
             /\ Goto(p, IF kind[p] = "del" THEN "stop" ELSE "srec")
             /\ UNCHANGED fg
    BY <1>3, <2>2 DEF ublk_ctrl_get_info
  <2>. QED
    BY <1>3, <2>1, <2>2 DEF ublk_ctrl_get_info
<1>4. ASSUME NEW p \in Cmds, ublk_ctrl_start_user_recover(p) PROVE TypeOK'
  <2>1. CASE Return(p) /\ UNCHANGED <<gen, lost, stray>>
    BY <1>4, <2>1 DEF ublk_ctrl_start_user_recover, Return
  <2>2. CASE /\ Exists(p)
             /\ state[Dev(p)] = "QUIESCED" /\ rec[Dev(p)] /\ open[Dev(p)] = None /\ ~gone[Dev(p)]
             /\ lost' = lost \ {Dev(p)}
             /\ gen' = [gen EXCEPT ![p] = Dev(p)]
             /\ stray' = (stray \/ Dev(p) # gen[p])
             /\ GoOn(p, "fork")
    BY <1>4, <2>2 DEF ublk_ctrl_start_user_recover, GoOn
  <2>. QED
    BY <1>4, <2>1, <2>2 DEF ublk_ctrl_start_user_recover
<1>5. ASSUME NEW p \in Cmds, Fork(p) PROVE TypeOK'
  BY <1>5 DEF Fork
<1>6. ASSUME NEW p \in Cmds, ublk_dev_prep(p) PROVE TypeOK'
  BY <1>6, SMTT(30) DEF ublk_dev_prep, TgtFails, StartThreads, CanOpen, TgtOp
<1>7. ASSUME NEW p \in Cmds, ublk_ctrl_start_dev(p) PROVE TypeOK'
  BY <1>7, SMTT(30) DEF ublk_ctrl_start_dev
<1>8. ASSUME NEW p \in Cmds, Join(p) PROVE TypeOK'
  BY <1>8 DEF Join
<1>9. ASSUME NEW p \in Cmds, ublk_dev_unprep(p) PROVE TypeOK'
  BY <1>9 DEF ublk_dev_unprep, Drop, Release
<1>10. ASSUME NEW p \in Cmds, ublk_ctrl_stop_dev(p) PROVE TypeOK'
  <2>1. CASE ~Exists(p) /\ Return(p) /\ UNCHANGED <<state, stray>>
    BY <1>10, <2>1 DEF ublk_ctrl_stop_dev, Return
  <2>2. CASE /\ Exists(p)
             /\ state' = [state EXCEPT ![Dev(p)] = "DEAD"]
             /\ stray' = (stray \/ Dev(p) # gen[p])
             /\ GoOn(p, "poll")
    BY <1>10, <2>2 DEF ublk_ctrl_stop_dev, GoOn
  <2>. QED
    BY <1>10, <2>1, <2>2 DEF ublk_ctrl_stop_dev
<1>11. ASSUME NEW p \in Cmds, ublk_stop_io_daemon(p) PROVE TypeOK'
  BY <1>11 DEF ublk_stop_io_daemon
<1>12. ASSUME NEW p \in Cmds, ublk_ctrl_del_dev(p) PROVE TypeOK'
  <2>1. CASE ~Exists(p) /\ Return(p) /\ UNCHANGED <<dev, state, gone, gen, stray, open>>
    BY <1>12, <2>1 DEF ublk_ctrl_del_dev, Return
  <2>2. CASE /\ Exists(p)
             /\ gone' = [gone EXCEPT ![Dev(p)] = TRUE]
             /\ state' = [state EXCEPT ![Dev(p)] = "DEAD"]
             /\ stray' = (stray \/ Dev(p) # gen[p])
             /\ gen' = [gen EXCEPT ![p] = Dev(p)]
             /\ UNCHANGED open
             /\ Release
             /\ GoOn(p, "delwait")
    BY <1>12, <2>2 DEF ublk_ctrl_del_dev, GoOn, Release
  <2>. QED
    BY <1>12, <2>1, <2>2 DEF ublk_ctrl_del_dev
<1>13. ASSUME NEW p \in Cmds, DelReturns(p) PROVE TypeOK'
  BY <1>13 DEF DelReturns, Return
<1>14. ASSUME NEW p \in Cmds, QueuesEnd(p) PROVE TypeOK'
  BY <1>14 DEF QueuesEnd, Drop, Release
<1>15. ASSUME NEW p \in Cmds, Kill(p) PROVE TypeOK'
  BY <1>15 DEF Kill, Drop, Release
<1>16. ASSUME NEW p \in Cmds, Notice(p) PROVE TypeOK'
  BY <1>16 DEF Notice
<1>. QED
  BY <1>0, <1>1, <1>2, <1>3, <1>4, <1>5, <1>6, <1>7, <1>8,
     <1>9, <1>10, <1>11, <1>12, <1>13, <1>14, <1>15, <1>16 DEF Next, Step

\* Every step keeps the order of each command: what it knows and holds open at each
\* label, and who waits for it.
LEMMA NextFlow == TypeOK /\ Nodes /\ Flow /\ [Next]_vars => Flow'
<1> SUFFICES ASSUME TypeOK, Nodes, Flow, [Next]_vars PROVE Flow'
  OBVIOUS
<1> USE NoneIsNoCommand DEF TypeOK, Nodes, Flow, Alive, command, driver, history, Goto, Dev, Exists, Ended, Maybe
<1>0. CASE UNCHANGED vars
  BY <1>0 DEF vars
<1>1. ASSUME NEW p \in Cmds, Run(p) PROVE Flow'
  BY <1>1 DEF Run
<1>2. ASSUME NEW p \in Cmds, ublk_ctrl_add_dev(p) PROVE Flow'
  <2>1. CASE Return(p) /\ UNCHANGED <<dev, rec, gen>>
    BY <1>2, <2>1 DEF ublk_ctrl_add_dev, Return
  <2>2. CASE /\ ~Exists(p)
             /\ dev' = [dev EXCEPT ![num[p]] = p]
             /\ \E r \in BOOLEAN : rec' = [rec EXCEPT ![p] = r]
             /\ gen' = [gen EXCEPT ![p] = p]
             /\ GoOn(p, "fork")
    BY <1>2, <2>2 DEF ublk_ctrl_add_dev, GoOn
  <2>. QED
    BY <1>2, <2>1, <2>2 DEF ublk_ctrl_add_dev
<1>3. ASSUME NEW p \in Cmds, ublk_ctrl_get_info(p) PROVE Flow'
  <2>1. CASE ~Exists(p) /\ Return(p) /\ UNCHANGED gen
    BY <1>3, <2>1 DEF ublk_ctrl_get_info, Return
  <2>2. CASE /\ Exists(p)
             /\ gen' = [gen EXCEPT ![p] = Dev(p)]
             /\ seen' = [seen EXCEPT ![p] = state[Dev(p)]]
             /\ ipid' = [ipid EXCEPT ![p] = pid[Dev(p)]]
             /\ Goto(p, IF kind[p] = "del" THEN "stop" ELSE "srec")
             /\ UNCHANGED fg
    BY <1>3, <2>2 DEF ublk_ctrl_get_info
  <2>. QED
    BY <1>3, <2>1, <2>2 DEF ublk_ctrl_get_info
<1>4. ASSUME NEW p \in Cmds, ublk_ctrl_start_user_recover(p) PROVE Flow'
  <2>1. CASE Return(p) /\ UNCHANGED <<gen, lost, stray>>
    BY <1>4, <2>1 DEF ublk_ctrl_start_user_recover, Return
  <2>2. CASE /\ Exists(p)
             /\ state[Dev(p)] = "QUIESCED" /\ rec[Dev(p)] /\ open[Dev(p)] = None /\ ~gone[Dev(p)]
             /\ lost' = lost \ {Dev(p)}
             /\ gen' = [gen EXCEPT ![p] = Dev(p)]
             /\ stray' = (stray \/ Dev(p) # gen[p])
             /\ GoOn(p, "fork")
    BY <1>4, <2>2 DEF ublk_ctrl_start_user_recover, GoOn
  <2>. QED
    BY <1>4, <2>1, <2>2 DEF ublk_ctrl_start_user_recover
<1>5. ASSUME NEW p \in Cmds, Fork(p) PROVE Flow'
  BY <1>5 DEF Fork
<1>6. ASSUME NEW p \in Cmds, ublk_dev_prep(p) PROVE Flow'
  BY <1>6 DEF ublk_dev_prep, TgtFails, StartThreads, CanOpen, TgtOp
<1>7. ASSUME NEW p \in Cmds, ublk_ctrl_start_dev(p) PROVE Flow'
  BY <1>7 DEF ublk_ctrl_start_dev
<1>8. ASSUME NEW p \in Cmds, Join(p) PROVE Flow'
  BY <1>8 DEF Join
<1>9. ASSUME NEW p \in Cmds, ublk_dev_unprep(p) PROVE Flow'
  BY <1>9 DEF ublk_dev_unprep, Drop, Release
<1>10. ASSUME NEW p \in Cmds, ublk_ctrl_stop_dev(p) PROVE Flow'
  <2>1. CASE ~Exists(p) /\ Return(p) /\ UNCHANGED <<state, stray>>
    BY <1>10, <2>1 DEF ublk_ctrl_stop_dev, Return
  <2>2. CASE /\ Exists(p)
             /\ state' = [state EXCEPT ![Dev(p)] = "DEAD"]
             /\ stray' = (stray \/ Dev(p) # gen[p])
             /\ GoOn(p, "poll")
    BY <1>10, <2>2 DEF ublk_ctrl_stop_dev, GoOn
  <2>. QED
    BY <1>10, <2>1, <2>2 DEF ublk_ctrl_stop_dev
<1>11. ASSUME NEW p \in Cmds, ublk_stop_io_daemon(p) PROVE Flow'
  BY <1>11 DEF ublk_stop_io_daemon
<1>12. ASSUME NEW p \in Cmds, ublk_ctrl_del_dev(p) PROVE Flow'
  <2>1. CASE ~Exists(p) /\ Return(p) /\ UNCHANGED <<dev, state, gone, gen, stray, open>>
    BY <1>12, <2>1 DEF ublk_ctrl_del_dev, Return
  <2>2. CASE /\ Exists(p)
             /\ gone' = [gone EXCEPT ![Dev(p)] = TRUE]
             /\ state' = [state EXCEPT ![Dev(p)] = "DEAD"]
             /\ stray' = (stray \/ Dev(p) # gen[p])
             /\ gen' = [gen EXCEPT ![p] = Dev(p)]
             /\ UNCHANGED open
             /\ Release
             /\ GoOn(p, "delwait")
    BY <1>12, <2>2 DEF ublk_ctrl_del_dev, GoOn, Release
  <2>. QED
    BY <1>12, <2>1, <2>2 DEF ublk_ctrl_del_dev
<1>13. ASSUME NEW p \in Cmds, DelReturns(p) PROVE Flow'
  BY <1>13 DEF DelReturns, Return
<1>14. ASSUME NEW p \in Cmds, QueuesEnd(p) PROVE Flow'
  BY <1>14 DEF QueuesEnd, Drop, Release
<1>15. ASSUME NEW p \in Cmds, Kill(p) PROVE Flow'
  BY <1>15 DEF Kill, Drop, Release
<1>16. ASSUME NEW p \in Cmds, Notice(p) PROVE Flow'
  BY <1>16 DEF Notice
<1>. QED
  BY <1>0, <1>1, <1>2, <1>3, <1>4, <1>5, <1>6, <1>7, <1>8,
     <1>9, <1>10, <1>11, <1>12, <1>13, <1>14, <1>15, <1>16 DEF Next, Step

\* Every step keeps the numbers: a device answers to the number of the add that made it,
\* and a command only knows devices of its own number.
LEMMA NextNaming == TypeOK /\ Flow /\ Naming /\ [Next]_vars => Naming'
<1> SUFFICES ASSUME TypeOK, Flow, Naming, [Next]_vars PROVE Naming'
  OBVIOUS
<1> USE NoneIsNoCommand DEF TypeOK, Flow, Naming, Alive, command, driver, history, Goto, Dev, Exists, Ended, Maybe
<1>0. CASE UNCHANGED vars
  BY <1>0 DEF vars
<1>1. ASSUME NEW p \in Cmds, Run(p) PROVE Naming'
  BY <1>1 DEF Run
<1>2. ASSUME NEW p \in Cmds, ublk_ctrl_add_dev(p) PROVE Naming'
  BY <1>2 DEF ublk_ctrl_add_dev, Return, GoOn
<1>3. ASSUME NEW p \in Cmds, ublk_ctrl_get_info(p) PROVE Naming'
  BY <1>3 DEF ublk_ctrl_get_info, Return
<1>4. ASSUME NEW p \in Cmds, ublk_ctrl_start_user_recover(p) PROVE Naming'
  BY <1>4 DEF ublk_ctrl_start_user_recover, Return, GoOn
<1>5. ASSUME NEW p \in Cmds, Fork(p) PROVE Naming'
  BY <1>5 DEF Fork
<1>6. ASSUME NEW p \in Cmds, ublk_dev_prep(p) PROVE Naming'
  BY <1>6 DEF ublk_dev_prep, TgtFails, StartThreads, CanOpen, TgtOp
<1>7. ASSUME NEW p \in Cmds, ublk_ctrl_start_dev(p) PROVE Naming'
  BY <1>7 DEF ublk_ctrl_start_dev
<1>8. ASSUME NEW p \in Cmds, Join(p) PROVE Naming'
  BY <1>8 DEF Join
<1>9. ASSUME NEW p \in Cmds, ublk_dev_unprep(p) PROVE Naming'
  BY <1>9 DEF ublk_dev_unprep, Drop, Release
<1>10. ASSUME NEW p \in Cmds, ublk_ctrl_stop_dev(p) PROVE Naming'
  BY <1>10 DEF ublk_ctrl_stop_dev, Return, GoOn
<1>11. ASSUME NEW p \in Cmds, ublk_stop_io_daemon(p) PROVE Naming'
  BY <1>11 DEF ublk_stop_io_daemon
<1>12. ASSUME NEW p \in Cmds, ublk_ctrl_del_dev(p) PROVE Naming'
  BY <1>12 DEF ublk_ctrl_del_dev, Return, GoOn, Release
<1>13. ASSUME NEW p \in Cmds, DelReturns(p) PROVE Naming'
  BY <1>13 DEF DelReturns, Return
<1>14. ASSUME NEW p \in Cmds, QueuesEnd(p) PROVE Naming'
  BY <1>14 DEF QueuesEnd, Drop, Release
<1>15. ASSUME NEW p \in Cmds, Kill(p) PROVE Naming'
  BY <1>15 DEF Kill, Drop, Release
<1>16. ASSUME NEW p \in Cmds, Notice(p) PROVE Naming'
  BY <1>16 DEF Notice
<1>. QED
  BY <1>0, <1>1, <1>2, <1>3, <1>4, <1>5, <1>6, <1>7, <1>8,
     <1>9, <1>10, <1>11, <1>12, <1>13, <1>14, <1>15, <1>16 DEF Next, Step

\* Every step keeps what the driver's state of a device says about its daemon.
LEMMA NextDaemonStates == TypeOK /\ Flow /\ Naming /\ DaemonStates /\ [Next]_vars => DaemonStates'
<1> SUFFICES ASSUME TypeOK, Flow, Naming, DaemonStates, [Next]_vars PROVE DaemonStates'
  OBVIOUS
<1> USE NoneIsNoCommand DEF TypeOK, Flow, Naming, DaemonStates, Alive, command, driver, history, Goto, Dev, Exists, Ended, Maybe
<1>0. CASE UNCHANGED vars
  BY <1>0 DEF vars
<1>1. ASSUME NEW p \in Cmds, Run(p) PROVE DaemonStates'
  BY <1>1 DEF Run
<1>2. ASSUME NEW p \in Cmds, ublk_ctrl_add_dev(p) PROVE DaemonStates'
  BY <1>2 DEF ublk_ctrl_add_dev, Return, GoOn
<1>3. ASSUME NEW p \in Cmds, ublk_ctrl_get_info(p) PROVE DaemonStates'
  BY <1>3 DEF ublk_ctrl_get_info, Return
<1>4. ASSUME NEW p \in Cmds, ublk_ctrl_start_user_recover(p) PROVE DaemonStates'
  BY <1>4, SMTT(30) DEF ublk_ctrl_start_user_recover, Return, GoOn
<1>5. ASSUME NEW p \in Cmds, Fork(p) PROVE DaemonStates'
  BY <1>5 DEF Fork
<1>6. ASSUME NEW p \in Cmds, ublk_dev_prep(p) PROVE DaemonStates'
  BY <1>6, SMTT(30) DEF ublk_dev_prep, TgtFails, StartThreads, CanOpen, TgtOp
<1>7. ASSUME NEW p \in Cmds, ublk_ctrl_start_dev(p) PROVE DaemonStates'
  BY <1>7 DEF ublk_ctrl_start_dev
<1>8. ASSUME NEW p \in Cmds, Join(p) PROVE DaemonStates'
  BY <1>8 DEF Join
<1>9. ASSUME NEW p \in Cmds, ublk_dev_unprep(p) PROVE DaemonStates'
  BY <1>9 DEF ublk_dev_unprep, Drop, Release
<1>10. ASSUME NEW p \in Cmds, ublk_ctrl_stop_dev(p) PROVE DaemonStates'
  BY <1>10, SMTT(30) DEF ublk_ctrl_stop_dev, Return, GoOn
<1>11. ASSUME NEW p \in Cmds, ublk_stop_io_daemon(p) PROVE DaemonStates'
  BY <1>11 DEF ublk_stop_io_daemon
<1>12. ASSUME NEW p \in Cmds, ublk_ctrl_del_dev(p) PROVE DaemonStates'
  BY <1>12 DEF ublk_ctrl_del_dev, Return, GoOn, Release
<1>13. ASSUME NEW p \in Cmds, DelReturns(p) PROVE DaemonStates'
  BY <1>13 DEF DelReturns, Return
<1>14. ASSUME NEW p \in Cmds, QueuesEnd(p) PROVE DaemonStates'
  BY <1>14 DEF QueuesEnd, Drop, Release
<1>15. ASSUME NEW p \in Cmds, Kill(p) PROVE DaemonStates'
  BY <1>15 DEF Kill, Drop, Release
<1>16. ASSUME NEW p \in Cmds, Notice(p) PROVE DaemonStates'
  BY <1>16 DEF Notice
<1>. QED
  BY <1>0, <1>1, <1>2, <1>3, <1>4, <1>5, <1>6, <1>7, <1>8,
     <1>9, <1>10, <1>11, <1>12, <1>13, <1>14, <1>15, <1>16 DEF Next, Step

\* Every step keeps the nodes: a process has the node of its number open, and an open
\* node has a process that keeps it so.
LEMMA NextNodes == TypeOK /\ Flow /\ Naming /\ Nodes /\ [Next]_vars => Nodes'
<1> SUFFICES ASSUME TypeOK, Flow, Naming, Nodes, [Next]_vars PROVE Nodes'
  OBVIOUS
<1> USE NoneIsNoCommand DEF TypeOK, Flow, Naming, Nodes, Alive, command, driver, history, Goto, Dev, Exists, Ended, Maybe
<1>0. CASE UNCHANGED vars
  BY <1>0 DEF vars
<1>1. ASSUME NEW p \in Cmds, Run(p) PROVE Nodes'
  BY <1>1 DEF Run
<1>2. ASSUME NEW p \in Cmds, ublk_ctrl_add_dev(p) PROVE Nodes'
  BY <1>2 DEF ublk_ctrl_add_dev, Return, GoOn
<1>3. ASSUME NEW p \in Cmds, ublk_ctrl_get_info(p) PROVE Nodes'
  BY <1>3 DEF ublk_ctrl_get_info, Return
<1>4. ASSUME NEW p \in Cmds, ublk_ctrl_start_user_recover(p) PROVE Nodes'
  BY <1>4 DEF ublk_ctrl_start_user_recover, Return, GoOn
<1>5. ASSUME NEW p \in Cmds, Fork(p) PROVE Nodes'
  BY <1>5 DEF Fork
<1>6. ASSUME NEW p \in Cmds, ublk_dev_prep(p) PROVE Nodes'
  <2>1. CASE ~CanOpen(p) /\ Goto(p, "del") /\ UNCHANGED <<tgt, th, hold, open>>
    BY <1>6, <2>1 DEF ublk_dev_prep
  <2>2. CASE CanOpen(p) /\ open' = [open EXCEPT ![Dev(p)] = p] /\ (TgtFails(p) \/ StartThreads(p))
    <3>1. Dev(p) \in Cmds /\ open[Dev(p)] = None /\ hold[p] = {}
      BY <1>6, <2>2 DEF ublk_dev_prep, CanOpen
    <3>2. UNCHANGED <<num, gen, dev>> /\ pc' \in [Cmds -> Pcs]
      BY <1>6, <2>2 DEF ublk_dev_prep, TgtFails, StartThreads, Pcs
    <3>3. "fd" \in hold'[p] /\ \A q \in Cmds \ {p} : hold'[q] = hold[q] /\ pc'[q] = pc[q]
      BY <2>2 DEF TgtFails, StartThreads
    <3>4. open'[Dev(p)] = p /\ \A g \in Cmds \ {Dev(p)} : open'[g] = open[g]
      BY <2>2, <3>1
    <3>5. pc'[p] # "delwait"
      BY <2>2 DEF TgtFails, StartThreads
    <3>6. \A q \in Cmds : hold[q] # {} => Dev(q) # Dev(p)
      BY <3>1
    <3>7. \A q \in Cmds : hold'[q] # {} => Exists(q)' /\ (open[Dev(q)] = q)'
      BY <3>1, <3>2, <3>3, <3>4, <3>6
    <3>8. \A g \in Cmds : open'[g] # None => (hold[open[g]] # {} /\ Dev(open[g]) = g)'
      <4>1. ASSUME NEW g \in Cmds, g # Dev(p), open'[g] # None
            PROVE  (hold[open[g]] # {} /\ Dev(open[g]) = g)'
        <5> DEFINE q == open[g]
        <5>1. open'[g] = q /\ q \in Cmds
          BY <4>1, <3>4
        <5>2. hold[q] # {} /\ dev[num[q]] = g
          BY <4>1, <5>1
        <5>3. q # p
          BY <5>2, <3>1
        <5>4. hold'[q] = hold[q] /\ dev'[num'[q]] = g
          BY <5>1, <5>2, <5>3, <3>2, <3>3
        <5>. QED
          BY <5>1, <5>2, <5>4
      <4>3. hold'[open'[Dev(p)]] # {} /\ dev'[num'[open'[Dev(p)]]] = Dev(p)
        BY <3>2, <3>3, <3>4
      <4>. QED
        BY <4>1, <4>3
    <3>9. \A q \in Cmds : hold'[q] # {} /\ pc'[q] = "delwait" => Dev(q)' = gen'[q]
      BY <3>2, <3>3, <3>5
    <3>. QED
      BY <3>7, <3>8, <3>9
  <2>. QED
    BY <1>6, <2>1, <2>2 DEF ublk_dev_prep
<1>7. ASSUME NEW p \in Cmds, ublk_ctrl_start_dev(p) PROVE Nodes'
  BY <1>7 DEF ublk_ctrl_start_dev
<1>8. ASSUME NEW p \in Cmds, Join(p) PROVE Nodes'
  BY <1>8 DEF Join
<1>9. ASSUME NEW p \in Cmds, ublk_dev_unprep(p) PROVE Nodes'
  <2>1. Drop(p, {"fd"}) /\ UNCHANGED <<num, gen>>
    BY <1>9 DEF ublk_dev_unprep
  <2>2. \A q \in Cmds : pc'[q] = "delwait" => pc[q] = "delwait"
    BY <1>9 DEF ublk_dev_unprep
  <2>3. /\ \A q \in Cmds : hold'[q] # {} => Exists(q)' /\ (open[Dev(q)] = q)' /\ Dev(q)' = Dev(q)
        /\ \A g \in Cmds : open'[g] # None => (hold[open[g]] # {} /\ Dev(open[g]) = g)'
        /\ \A q \in Cmds : hold'[q] \subseteq hold[q]
    BY <2>1, DropKeepsNodes
  <2>4. \A q \in Cmds : hold'[q] # {} => hold[q] # {}
    BY <2>3
  <2>. QED
    BY <2>1, <2>2, <2>3, <2>4
<1>10. ASSUME NEW p \in Cmds, ublk_ctrl_stop_dev(p) PROVE Nodes'
  BY <1>10 DEF ublk_ctrl_stop_dev, Return, GoOn
<1>11. ASSUME NEW p \in Cmds, ublk_stop_io_daemon(p) PROVE Nodes'
  BY <1>11 DEF ublk_stop_io_daemon
<1>12. ASSUME NEW p \in Cmds, ublk_ctrl_del_dev(p) PROVE Nodes'
  <2>1. CASE ~Exists(p) /\ Return(p) /\ UNCHANGED <<dev, state, gone, gen, stray, open>>
    BY <1>12, <2>1 DEF ublk_ctrl_del_dev, Return
  <2>2. CASE /\ Exists(p)
             /\ gone' = [gone EXCEPT ![Dev(p)] = TRUE]
             /\ state' = [state EXCEPT ![Dev(p)] = "DEAD"]
             /\ stray' = (stray \/ Dev(p) # gen[p])
             /\ gen' = [gen EXCEPT ![p] = Dev(p)]
             /\ UNCHANGED open
             /\ Release
             /\ GoOn(p, "delwait")
    <3>1. \A q \in Cmds : hold[q] # {} => dev'[num[q]] = dev[num[q]]
      BY <2>2 DEF Release
    <3>2. UNCHANGED <<num, hold, open>>
      BY <1>12 DEF ublk_ctrl_del_dev
    <3>3. \A q \in Cmds \ {p} : pc'[q] = pc[q] /\ gen'[q] = gen[q]
      BY <2>2 DEF GoOn
    <3>4. gen'[p] = Dev(p)
      BY <2>2
    <3>. QED
      BY <3>1, <3>2, <3>3, <3>4
  <2>. QED
    BY <1>12, <2>1, <2>2 DEF ublk_ctrl_del_dev
<1>13. ASSUME NEW p \in Cmds, DelReturns(p) PROVE Nodes'
  BY <1>13 DEF DelReturns, Return
<1>14. ASSUME NEW p \in Cmds, QueuesEnd(p) PROVE Nodes'
  <2>1. Drop(p, {"queues"}) /\ UNCHANGED <<num, gen>>
    BY <1>14 DEF QueuesEnd
  <2>2. \A q \in Cmds : pc'[q] = "delwait" => pc[q] = "delwait"
    BY <1>14 DEF QueuesEnd
  <2>3. /\ \A q \in Cmds : hold'[q] # {} => Exists(q)' /\ (open[Dev(q)] = q)' /\ Dev(q)' = Dev(q)
        /\ \A g \in Cmds : open'[g] # None => (hold[open[g]] # {} /\ Dev(open[g]) = g)'
        /\ \A q \in Cmds : hold'[q] \subseteq hold[q]
    BY <2>1, DropKeepsNodes
  <2>4. \A q \in Cmds : hold'[q] # {} => hold[q] # {}
    BY <2>3
  <2>. QED
    BY <2>1, <2>2, <2>3, <2>4
<1>15. ASSUME NEW p \in Cmds, Kill(p) PROVE Nodes'
  <2>1. Drop(p, {"fd", "queues"}) /\ UNCHANGED <<num, gen>>
    BY <1>15 DEF Kill
  <2>2. \A q \in Cmds : pc'[q] = "delwait" => pc[q] = "delwait"
    BY <1>15 DEF Kill
  <2>3. /\ \A q \in Cmds : hold'[q] # {} => Exists(q)' /\ (open[Dev(q)] = q)' /\ Dev(q)' = Dev(q)
        /\ \A g \in Cmds : open'[g] # None => (hold[open[g]] # {} /\ Dev(open[g]) = g)'
        /\ \A q \in Cmds : hold'[q] \subseteq hold[q]
    BY <2>1, DropKeepsNodes
  <2>4. \A q \in Cmds : hold'[q] # {} => hold[q] # {}
    BY <2>3
  <2>. QED
    BY <2>1, <2>2, <2>3, <2>4
<1>16. ASSUME NEW p \in Cmds, Notice(p) PROVE Nodes'
  BY <1>16 DEF Notice
<1>. QED
  BY <1>0, <1>1, <1>2, <1>3, <1>4, <1>5, <1>6, <1>7, <1>8,
     <1>9, <1>10, <1>11, <1>12, <1>13, <1>14, <1>15, <1>16 DEF Next, Step

\* Every step keeps LIVE devices served: whoever stops or deletes one first takes it
\* out of LIVE, and START_DEV makes it LIVE with its threads running.
LEMMA NextLive == TypeOK /\ Flow /\ Naming /\ DaemonStates /\ Nodes /\ Live /\ [Next]_vars => Live'
<1> SUFFICES ASSUME TypeOK, Flow, Naming, DaemonStates, Nodes, Live, [Next]_vars PROVE Live'
  OBVIOUS
<1> USE NoneIsNoCommand DEF TypeOK, Flow, Naming, DaemonStates, Nodes, Live, Alive, command, driver, history, Goto, Dev, Exists, Ended, Maybe
<1>0. CASE UNCHANGED vars
  BY <1>0 DEF vars
<1>1. ASSUME NEW p \in Cmds, Run(p) PROVE Live'
  BY <1>1 DEF Run
<1>2. ASSUME NEW p \in Cmds, ublk_ctrl_add_dev(p) PROVE Live'
  <2>1. CASE Return(p) /\ UNCHANGED <<dev, rec, gen>>
    BY <1>2, <2>1 DEF ublk_ctrl_add_dev, Return
  <2>2. CASE /\ ~Exists(p)
             /\ dev' = [dev EXCEPT ![num[p]] = p]
             /\ \E r \in BOOLEAN : rec' = [rec EXCEPT ![p] = r]
             /\ gen' = [gen EXCEPT ![p] = p]
             /\ GoOn(p, "fork")
    <3>1. UNCHANGED <<num, state, pid, open, th, hold>>
      BY <1>2, <2>2 DEF ublk_ctrl_add_dev
    <3>2. \A q \in Cmds \ {p} : pc'[q] = pc[q]
      BY <2>2 DEF GoOn
    <3>3. \A g \in Cmds : state[g] = "LIVE" => num[g] # num[p] /\ pid[g] # p
      BY <1>2, <2>2 DEF ublk_ctrl_add_dev
    <3>4. \A g \in Cmds : state[g] = "LIVE" => dev'[num[g]] = g
      BY <2>2, <3>3
    <3>. QED
      BY <3>1, <3>2, <3>3, <3>4
  <2>. QED
    BY <1>2, <2>1, <2>2 DEF ublk_ctrl_add_dev
<1>3. ASSUME NEW p \in Cmds, ublk_ctrl_get_info(p) PROVE Live'
  BY <1>3 DEF ublk_ctrl_get_info, Return
<1>4. ASSUME NEW p \in Cmds, ublk_ctrl_start_user_recover(p) PROVE Live'
  BY <1>4 DEF ublk_ctrl_start_user_recover, Return, GoOn
<1>5. ASSUME NEW p \in Cmds, Fork(p) PROVE Live'
  BY <1>5 DEF Fork
<1>6. ASSUME NEW p \in Cmds, ublk_dev_prep(p) PROVE Live'
  BY <1>6 DEF ublk_dev_prep, TgtFails, StartThreads, CanOpen, TgtOp
<1>7. ASSUME NEW p \in Cmds, ublk_ctrl_start_dev(p) PROVE Live'
  <2>1. CASE Goto(p, "unprep") /\ UNCHANGED <<state, pid>>
    BY <1>7, <2>1 DEF ublk_ctrl_start_dev
  <2>2. CASE /\ state[Dev(p)] = (IF kind[p] = "recover" THEN "QUIESCED" ELSE "DEAD")
             /\ ~gone[Dev(p)] /\ th[p] = "ready"
             /\ state' = [state EXCEPT ![Dev(p)] = "LIVE"]
             /\ pid' = [pid EXCEPT ![Dev(p)] = p]
             /\ Goto(p, "serve")
    <3>1. hold[p] = {"fd", "queues"}
      BY <1>7, <2>2 DEF ublk_ctrl_start_dev
    <3>0. "fd" \in hold[p] /\ num[p] \in Numbers
      BY <3>1
    <3>2. Dev(p) \in Cmds /\ open[Dev(p)] = p /\ dev[num[Dev(p)]] = Dev(p)
      BY <3>0
    <3>3. UNCHANGED <<dev, num, open, th, hold>>
      BY <1>7 DEF ublk_ctrl_start_dev
    <3>4. pc'[p] = "serve" /\ \A q \in Cmds \ {p} : pc'[q] = pc[q]
      BY <2>2
    <3>5. \A g \in Cmds : pid[g] # p
      BY <1>7 DEF ublk_ctrl_start_dev
    <3>6. ASSUME NEW g \in Cmds, g # Dev(p), state'[g] = "LIVE"
          PROVE  /\ dev'[num'[g]] = g
                 /\ pid'[g] # None
                 /\ pc'[pid'[g]] = "killed" \/ (pc'[pid'[g]] = "serve" /\ open'[g] = pid'[g]
                       /\ th'[pid'[g]] = "ready" /\ hold'[pid'[g]] = {"fd", "queues"})
      <4>1. state[g] = "LIVE" /\ pid'[g] = pid[g]
        BY <2>2, <3>6
      <4>. QED
        BY <3>3, <3>4, <3>5, <4>1
    <3>7. pid'[Dev(p)] = p
      BY <2>2, <3>2
    <3>. QED
      BY <2>2, <3>1, <3>2, <3>3, <3>4, <3>6, <3>7
  <2>. QED
    BY <1>7, <2>1, <2>2 DEF ublk_ctrl_start_dev
<1>8. ASSUME NEW p \in Cmds, Join(p) PROVE Live'
  BY <1>8 DEF Join
<1>9. ASSUME NEW p \in Cmds, ublk_dev_unprep(p) PROVE Live'
  BY <1>9 DEF ublk_dev_unprep, Drop, Release
<1>10. ASSUME NEW p \in Cmds, ublk_ctrl_stop_dev(p) PROVE Live'
  BY <1>10 DEF ublk_ctrl_stop_dev, Return, GoOn
<1>11. ASSUME NEW p \in Cmds, ublk_stop_io_daemon(p) PROVE Live'
  BY <1>11 DEF ublk_stop_io_daemon
<1>12. ASSUME NEW p \in Cmds, ublk_ctrl_del_dev(p) PROVE Live'
  BY <1>12 DEF ublk_ctrl_del_dev, Return, GoOn, Release
<1>13. ASSUME NEW p \in Cmds, DelReturns(p) PROVE Live'
  BY <1>13 DEF DelReturns, Return
<1>14. ASSUME NEW p \in Cmds, QueuesEnd(p) PROVE Live'
  BY <1>14 DEF QueuesEnd, Drop, Release
<1>15. ASSUME NEW p \in Cmds, Kill(p) PROVE Live'
  BY <1>15 DEF Kill, Drop, Release
<1>16. ASSUME NEW p \in Cmds, Notice(p) PROVE Live'
  BY <1>16 DEF Notice
<1>. QED
  BY <1>0, <1>1, <1>2, <1>3, <1>4, <1>5, <1>6, <1>7, <1>8,
     <1>9, <1>10, <1>11, <1>12, <1>13, <1>14, <1>15, <1>16 DEF Next, Step

\* Every step leaves each device somebody who will delete it, or records its daemon
\* as killed.
LEMMA NextNoOrphan == TypeOK /\ Flow /\ Naming /\ NoOrphan /\ [Next]_vars => NoOrphan'
<1> SUFFICES ASSUME TypeOK, Flow, Naming, NoOrphan, [Next]_vars PROVE NoOrphan'
  OBVIOUS
<1> USE NoneIsNoCommand DEF TypeOK, Flow, Naming, NoOrphan, Alive, Keepers, command, driver, history, Goto, Dev, Exists, Ended, Maybe
<1>0. CASE UNCHANGED vars
  BY <1>0 DEF vars
<1>1. ASSUME NEW p \in Cmds, Run(p) PROVE NoOrphan'
  BY <1>1 DEF Run
<1>2. ASSUME NEW p \in Cmds, ublk_ctrl_add_dev(p) PROVE NoOrphan'
  BY <1>2 DEF ublk_ctrl_add_dev, Return, GoOn
<1>3. ASSUME NEW p \in Cmds, ublk_ctrl_get_info(p) PROVE NoOrphan'
  BY <1>3 DEF ublk_ctrl_get_info, Return
<1>4. ASSUME NEW p \in Cmds, ublk_ctrl_start_user_recover(p) PROVE NoOrphan'
  BY <1>4 DEF ublk_ctrl_start_user_recover, Return, GoOn
<1>5. ASSUME NEW p \in Cmds, Fork(p) PROVE NoOrphan'
  BY <1>5 DEF Fork
<1>6. ASSUME NEW p \in Cmds, ublk_dev_prep(p) PROVE NoOrphan'
  BY <1>6 DEF ublk_dev_prep, TgtFails, StartThreads, CanOpen, TgtOp
<1>7. ASSUME NEW p \in Cmds, ublk_ctrl_start_dev(p) PROVE NoOrphan'
  BY <1>7 DEF ublk_ctrl_start_dev
<1>8. ASSUME NEW p \in Cmds, Join(p) PROVE NoOrphan'
  BY <1>8 DEF Join
<1>9. ASSUME NEW p \in Cmds, ublk_dev_unprep(p) PROVE NoOrphan'
  <2>1. UNCHANGED <<gone, gen, kind, lost>> /\ pc[p] = "unprep" /\ pc' = [pc EXCEPT ![p] = "del"]
    BY <1>9 DEF ublk_dev_unprep, Drop
  <2>2. \A n \in Numbers : dev'[n] # None => dev'[n] = dev[n]
    BY <1>9 DEF ublk_dev_unprep, Drop, Release
  <2>. QED
    <3> SUFFICES ASSUME NEW n \in Numbers, dev'[n] # None, ~gone'[dev'[n]]
                 PROVE  dev'[n] \in lost' \/ Keepers(dev[n])' # {}
      OBVIOUS
    <3>1. dev'[n] = dev[n] /\ dev[n] \in Cmds /\ ~gone[dev[n]]
      BY <2>1, <2>2
    <3>2. CASE dev[n] \in lost
      BY <2>1, <3>1, <3>2
    <3>3. CASE Keepers(dev[n]) # {}
      <4>1. PICK q \in Cmds : q \in Keepers(dev[n])
        BY <3>3
      <4>2. q \in Keepers(dev[n])'
        BY <2>1, <3>1, <4>1
      <4>. QED
        BY <4>2
    <3>. QED
      BY <3>1, <3>2, <3>3
<1>10. ASSUME NEW p \in Cmds, ublk_ctrl_stop_dev(p) PROVE NoOrphan'
  BY <1>10 DEF ublk_ctrl_stop_dev, Return, GoOn
<1>11. ASSUME NEW p \in Cmds, ublk_stop_io_daemon(p) PROVE NoOrphan'
  BY <1>11 DEF ublk_stop_io_daemon
<1>12. ASSUME NEW p \in Cmds, ublk_ctrl_del_dev(p) PROVE NoOrphan'
  BY <1>12 DEF ublk_ctrl_del_dev, Return, GoOn, Release
<1>13. ASSUME NEW p \in Cmds, DelReturns(p) PROVE NoOrphan'
  BY <1>13 DEF DelReturns, Return
<1>14. ASSUME NEW p \in Cmds, QueuesEnd(p) PROVE NoOrphan'
  BY <1>14 DEF QueuesEnd, Drop, Release
<1>15. ASSUME NEW p \in Cmds, Kill(p) PROVE NoOrphan'
  <2>1. /\ UNCHANGED <<gone, gen, kind>> /\ lost' = lost \cup {gen[p]}
        /\ \A q \in Cmds \ {p} : pc'[q] = pc[q]
    BY <1>15 DEF Kill, Drop
  <2>2. \A n \in Numbers : dev'[n] # None => dev'[n] = dev[n]
    BY <1>15 DEF Kill, Drop, Release
  <2>. QED
    <3> SUFFICES ASSUME NEW n \in Numbers, dev'[n] # None, ~gone'[dev'[n]]
                 PROVE  dev'[n] \in lost' \/ Keepers(dev[n])' # {}
      OBVIOUS
    <3>1. dev'[n] = dev[n] /\ dev[n] \in Cmds /\ ~gone[dev[n]]
      BY <2>1, <2>2
    <3>2. CASE dev[n] \in lost
      BY <2>1, <3>1, <3>2
    <3>3. CASE Keepers(dev[n]) # {}
      <4>1. PICK q \in Cmds : q \in Keepers(dev[n])
        BY <3>3
      <4>2. CASE q = p
        BY <2>1, <3>1, <4>1, <4>2
      <4>3. CASE q # p
        <5>1. q \in Keepers(dev[n])'
          BY <2>1, <3>1, <4>1, <4>3
        <5>. QED
          BY <5>1
      <4>. QED
        BY <4>2, <4>3
    <3>. QED
      BY <3>1, <3>2, <3>3
<1>16. ASSUME NEW p \in Cmds, Notice(p) PROVE NoOrphan'
  BY <1>16 DEF Notice
<1>. QED
  BY <1>0, <1>1, <1>2, <1>3, <1>4, <1>5, <1>6, <1>7, <1>8,
     <1>9, <1>10, <1>11, <1>12, <1>13, <1>14, <1>15, <1>16 DEF Next, Step

\* Every step keeps deleted what a del that has ended deleted.
LEMMA NextDelDone == TypeOK /\ Flow /\ Naming /\ DelDone /\ [Next]_vars => DelDone'
<1> SUFFICES ASSUME TypeOK, Flow, Naming, DelDone, [Next]_vars PROVE DelDone'
  OBVIOUS
<1> USE NoneIsNoCommand DEF TypeOK, Flow, Naming, DelDone, Alive, command, driver, history, Goto, Dev, Exists, Ended, Maybe
<1>0. CASE UNCHANGED vars
  BY <1>0 DEF vars
<1>1. ASSUME NEW p \in Cmds, Run(p) PROVE DelDone'
  BY <1>1 DEF Run
<1>2. ASSUME NEW p \in Cmds, ublk_ctrl_add_dev(p) PROVE DelDone'
  BY <1>2 DEF ublk_ctrl_add_dev, Return, GoOn
<1>3. ASSUME NEW p \in Cmds, ublk_ctrl_get_info(p) PROVE DelDone'
  BY <1>3 DEF ublk_ctrl_get_info, Return
<1>4. ASSUME NEW p \in Cmds, ublk_ctrl_start_user_recover(p) PROVE DelDone'
  BY <1>4 DEF ublk_ctrl_start_user_recover, Return, GoOn
<1>5. ASSUME NEW p \in Cmds, Fork(p) PROVE DelDone'
  BY <1>5 DEF Fork
<1>6. ASSUME NEW p \in Cmds, ublk_dev_prep(p) PROVE DelDone'
  BY <1>6 DEF ublk_dev_prep, TgtFails, StartThreads, CanOpen, TgtOp
<1>7. ASSUME NEW p \in Cmds, ublk_ctrl_start_dev(p) PROVE DelDone'
  BY <1>7 DEF ublk_ctrl_start_dev
<1>8. ASSUME NEW p \in Cmds, Join(p) PROVE DelDone'
  BY <1>8 DEF Join
<1>9. ASSUME NEW p \in Cmds, ublk_dev_unprep(p) PROVE DelDone'
  BY <1>9 DEF ublk_dev_unprep, Drop, Release
<1>10. ASSUME NEW p \in Cmds, ublk_ctrl_stop_dev(p) PROVE DelDone'
  BY <1>10 DEF ublk_ctrl_stop_dev, Return, GoOn
<1>11. ASSUME NEW p \in Cmds, ublk_stop_io_daemon(p) PROVE DelDone'
  BY <1>11 DEF ublk_stop_io_daemon
<1>12. ASSUME NEW p \in Cmds, ublk_ctrl_del_dev(p) PROVE DelDone'
  BY <1>12 DEF ublk_ctrl_del_dev, Return, GoOn, Release
<1>13. ASSUME NEW p \in Cmds, DelReturns(p) PROVE DelDone'
  BY <1>13 DEF DelReturns, Return
<1>14. ASSUME NEW p \in Cmds, QueuesEnd(p) PROVE DelDone'
  BY <1>14 DEF QueuesEnd, Drop, Release
<1>15. ASSUME NEW p \in Cmds, Kill(p) PROVE DelDone'
  BY <1>15 DEF Kill, Drop, Release
<1>16. ASSUME NEW p \in Cmds, Notice(p) PROVE DelDone'
  BY <1>16 DEF Notice
<1>. QED
  BY <1>0, <1>1, <1>2, <1>3, <1>4, <1>5, <1>6, <1>7, <1>8,
     <1>9, <1>10, <1>11, <1>12, <1>13, <1>14, <1>15, <1>16 DEF Next, Step

\* Nobody takes back that the commands were used carelessly.
LEMMA CarelessStays == TypeOK /\ careless /\ [Next]_vars => careless'
<1> SUFFICES ASSUME TypeOK, careless, [Next]_vars PROVE careless'
  OBVIOUS
<1> USE DEF history
<1>0. CASE UNCHANGED vars
  BY <1>0 DEF vars
<1>1. ASSUME NEW p \in Cmds, Run(p) PROVE careless'
  BY <1>1 DEF Run
<1>2. ASSUME NEW p \in Cmds, ublk_ctrl_add_dev(p) PROVE careless'
  BY <1>2 DEF ublk_ctrl_add_dev
<1>3. ASSUME NEW p \in Cmds, ublk_ctrl_get_info(p) PROVE careless'
  BY <1>3 DEF ublk_ctrl_get_info
<1>4. ASSUME NEW p \in Cmds, ublk_ctrl_start_user_recover(p) PROVE careless'
  BY <1>4 DEF ublk_ctrl_start_user_recover
<1>5. ASSUME NEW p \in Cmds, Fork(p) PROVE careless'
  BY <1>5 DEF Fork
<1>6. ASSUME NEW p \in Cmds, ublk_dev_prep(p) PROVE careless'
  BY <1>6 DEF ublk_dev_prep
<1>7. ASSUME NEW p \in Cmds, ublk_ctrl_start_dev(p) PROVE careless'
  BY <1>7 DEF ublk_ctrl_start_dev
<1>8. ASSUME NEW p \in Cmds, Join(p) PROVE careless'
  BY <1>8 DEF Join
<1>9. ASSUME NEW p \in Cmds, ublk_dev_unprep(p) PROVE careless'
  BY <1>9 DEF ublk_dev_unprep
<1>10. ASSUME NEW p \in Cmds, ublk_ctrl_stop_dev(p) PROVE careless'
  BY <1>10 DEF ublk_ctrl_stop_dev
<1>11. ASSUME NEW p \in Cmds, ublk_stop_io_daemon(p) PROVE careless'
  BY <1>11 DEF ublk_stop_io_daemon
<1>12. ASSUME NEW p \in Cmds, ublk_ctrl_del_dev(p) PROVE careless'
  BY <1>12 DEF ublk_ctrl_del_dev
<1>13. ASSUME NEW p \in Cmds, DelReturns(p) PROVE careless'
  BY <1>13 DEF DelReturns
<1>14. ASSUME NEW p \in Cmds, QueuesEnd(p) PROVE careless'
  BY <1>14 DEF QueuesEnd
<1>15. ASSUME NEW p \in Cmds, Kill(p) PROVE careless'
  BY <1>15 DEF Kill
<1>16. ASSUME NEW p \in Cmds, Notice(p) PROVE careless'
  BY <1>16 DEF Notice
<1>. QED
  BY <1>0, <1>1, <1>2, <1>3, <1>4, <1>5, <1>6, <1>7, <1>8,
     <1>9, <1>10, <1>11, <1>12, <1>13, <1>14, <1>15, <1>16 DEF Next, Step

\* A command that has not got as far as START_DEV, or that del runs, is busy.
LEMMA StartingIsBusy ==
    ASSUME TypeOK, Flow, DaemonStates, NEW p \in Cmds,
           pc[p] \in {"add", "info", "srec", "fork", "prep", "start", "stop", "poll"}
    PROVE  Busy(p)
BY NoneIsNoCommand DEF TypeOK, Flow, DaemonStates, Busy, Alive, InCharge, Ended, Maybe

\* While one command is under way, short of its wait for a daemon, every other process
\* is a daemon that serves its own live device.
LEMMA OthersServe ==
    ASSUME TypeOK, Flow, Naming, DaemonStates, Live, OneBusy, ServesOrAwaited,
           NEW p \in Cmds, Busy(p), pc[p] # "poll",
           NEW q \in Cmds, q # p, Alive(q)
    PROVE  /\ gen[q] \in Cmds /\ pid[gen[q]] = q
           /\ pc[q] = "serve" /\ state[gen[q]] = "LIVE"
           /\ Dev(q) = gen[q]
<1>1. InCharge(q) /\ gen[q] \in Cmds /\ pid[gen[q]] = q
  BY DEF OneBusy, Busy, InCharge, TypeOK, Maybe
<1>2. \A r \in Cmds : pc[r] # "poll"
  BY StartingIsBusy DEF OneBusy
<1>3. pc[q] = "serve" /\ state[gen[q]] = "LIVE"
  BY <1>1, <1>2 DEF ServesOrAwaited
<1>4. num[gen[q]] = num[q] /\ dev[num[gen[q]]] = gen[q]
  BY <1>1, <1>3, NoneIsNoCommand DEF Naming, Live
<1>. QED
  BY <1>1, <1>3, <1>4 DEF Dev

\* Used with care, the commands stay one at a time: START_DEV puts its own daemon in
\* charge and no other one out of charge.
LEMMA NextOneBusy ==
    ASSUME TypeOK, Flow, Naming, DaemonStates, Nodes, Live, Tidy, ~careless', [Next]_vars
    PROVE  OneBusy'
<1> USE NoneIsNoCommand DEF TypeOK, Flow, DaemonStates, OneBusy, NoRival, Settled, Tidy, Busy, Alive, InCharge, command, driver, history, Goto, Dev, Exists, Ended, Maybe
<1>0. CASE UNCHANGED vars
  BY <1>0 DEF vars
<1>1. ASSUME NEW p \in Cmds, Run(p) PROVE OneBusy'
  <2>1. Settled /\ pc[p] = "new"
    BY <1>1 DEF Run
  <2>2. UNCHANGED <<gen, pid>> /\ \A q \in Cmds \ {p} : pc'[q] = pc[q] /\ fg'[q] = fg[q]
    BY <1>1 DEF Run
  <2>3. \A q \in Cmds \ {p} : ~Busy(q)'
    BY <2>1, <2>2
  <2>. QED
    BY <2>3 DEF OneBusy
<1>2. ASSUME NEW p \in Cmds, ublk_ctrl_add_dev(p) PROVE OneBusy'
  BY <1>2 DEF ublk_ctrl_add_dev, Return, GoOn
<1>3. ASSUME NEW p \in Cmds, ublk_ctrl_get_info(p) PROVE OneBusy'
  BY <1>3 DEF ublk_ctrl_get_info, Return
<1>4. ASSUME NEW p \in Cmds, ublk_ctrl_start_user_recover(p) PROVE OneBusy'
  BY <1>4 DEF ublk_ctrl_start_user_recover, Return, GoOn
<1>5. ASSUME NEW p \in Cmds, Fork(p) PROVE OneBusy'
  BY <1>5 DEF Fork
<1>6. ASSUME NEW p \in Cmds, ublk_dev_prep(p) PROVE OneBusy'
  BY <1>6 DEF ublk_dev_prep, TgtFails, StartThreads, CanOpen, TgtOp
<1>7. ASSUME NEW p \in Cmds, ublk_ctrl_start_dev(p) PROVE OneBusy'
  <2>1. CASE Goto(p, "unprep") /\ UNCHANGED <<state, pid>>
    BY <1>7, <2>1 DEF ublk_ctrl_start_dev
  <2>2. CASE /\ state[Dev(p)] = (IF kind[p] = "recover" THEN "QUIESCED" ELSE "DEAD")
             /\ ~gone[Dev(p)] /\ th[p] = "ready"
             /\ state' = [state EXCEPT ![Dev(p)] = "LIVE"]
             /\ pid' = [pid EXCEPT ![Dev(p)] = p]
             /\ Goto(p, "serve")
    <3>1. Busy(p) /\ pc[p] = "start"
      BY <1>7, StartingIsBusy DEF ublk_ctrl_start_dev
    <3>0. "fd" \in hold[p]
      BY <1>7, <2>2 DEF ublk_ctrl_start_dev
    <3>2. Dev(p) = gen[p] /\ gen[p] \in Cmds /\ ~fg[p]
      BY <3>0, <3>1 DEF Nodes, SameDevice
    <3>3. pid[gen[p]] = None \/ Ended(pid[gen[p]])
      BY <3>1
    <3>4. \A q \in Cmds \ {p} : pc'[q] = pc[q] /\ ~Busy(q)
      BY <2>2, <3>1
    <3>5. UNCHANGED <<gen, fg>> /\ pid'[gen[p]] = p
      BY <1>7, <2>2, <3>2 DEF ublk_ctrl_start_dev
    <3>6. \A q \in Cmds \ {p} : ~Busy(q)'
      BY <2>2, <3>2, <3>3, <3>4, <3>5
    <3>. QED
      BY <3>6
  <2>. QED
    BY <1>7, <2>1, <2>2 DEF ublk_ctrl_start_dev
<1>8. ASSUME NEW p \in Cmds, Join(p) PROVE OneBusy'
  BY <1>8 DEF Join
<1>9. ASSUME NEW p \in Cmds, ublk_dev_unprep(p) PROVE OneBusy'
  BY <1>9 DEF ublk_dev_unprep, Drop, Release
<1>10. ASSUME NEW p \in Cmds, ublk_ctrl_stop_dev(p) PROVE OneBusy'
  BY <1>10 DEF ublk_ctrl_stop_dev, Return, GoOn
<1>11. ASSUME NEW p \in Cmds, ublk_stop_io_daemon(p) PROVE OneBusy'
  BY <1>11 DEF ublk_stop_io_daemon
<1>12. ASSUME NEW p \in Cmds, ublk_ctrl_del_dev(p) PROVE OneBusy'
  <2>1. CASE ~Exists(p) /\ Return(p) /\ UNCHANGED <<dev, state, gone, gen, stray, open>>
    BY <1>12, <2>1 DEF ublk_ctrl_del_dev, Return
  <2>2. CASE /\ Exists(p)
             /\ gone' = [gone EXCEPT ![Dev(p)] = TRUE]
             /\ state' = [state EXCEPT ![Dev(p)] = "DEAD"]
             /\ stray' = (stray \/ Dev(p) # gen[p])
             /\ gen' = [gen EXCEPT ![p] = Dev(p)]
             /\ UNCHANGED open
             /\ Release
             /\ GoOn(p, "delwait")
    <3>1. gen'[p] = gen[p]
      BY <1>12, <2>2 DEF ublk_ctrl_del_dev, SameDevice
    <3>2. gen' = gen /\ UNCHANGED <<pid, fg>> /\ \A q \in Cmds \ {p} : pc'[q] = pc[q]
      BY <1>12, <2>2, <3>1 DEF ublk_ctrl_del_dev, GoOn
    <3>3. \A q \in Cmds : Busy(q)' => Busy(q)
      BY <1>12, <3>2 DEF ublk_ctrl_del_dev
    <3>. QED
      BY <3>3
  <2>. QED
    BY <1>12, <2>1, <2>2 DEF ublk_ctrl_del_dev
<1>13. ASSUME NEW p \in Cmds, DelReturns(p) PROVE OneBusy'
  BY <1>13 DEF DelReturns, Return
<1>14. ASSUME NEW p \in Cmds, QueuesEnd(p) PROVE OneBusy'
  BY <1>14 DEF QueuesEnd, Drop, Release
<1>15. ASSUME NEW p \in Cmds, Kill(p) PROVE OneBusy'
  BY <1>15 DEF Kill, Drop, Release
<1>16. ASSUME NEW p \in Cmds, Notice(p) PROVE OneBusy'
  BY <1>16 DEF Notice
<1>. QED
  BY <1>0, <1>1, <1>2, <1>3, <1>4, <1>5, <1>6, <1>7, <1>8,
     <1>9, <1>10, <1>11, <1>12, <1>13, <1>14, <1>15, <1>16 DEF Next, Step

\* Used with care, a daemon in charge stops serving only when a del waits for it.
LEMMA NextServesOrAwaited ==
    ASSUME TypeOK, Flow, Naming, DaemonStates, Nodes, Live, Tidy, ~careless', [Next]_vars
    PROVE  ServesOrAwaited'
<1> USE NoneIsNoCommand DEF TypeOK, Flow, DaemonStates, Live, OneBusy, ServesOrAwaited, NoRival, SameDevice, Settled, Tidy, Busy, Alive, InCharge, command, driver, history, Goto, Dev, Exists, Ended, Maybe
<1>0. CASE UNCHANGED vars
  BY <1>0 DEF vars
<1>1. ASSUME NEW p \in Cmds, Run(p) PROVE ServesOrAwaited'
  BY <1>1 DEF Run
<1>2. ASSUME NEW p \in Cmds, ublk_ctrl_add_dev(p) PROVE ServesOrAwaited'
  BY <1>2 DEF ublk_ctrl_add_dev, Return, GoOn
<1>3. ASSUME NEW p \in Cmds, ublk_ctrl_get_info(p) PROVE ServesOrAwaited'
  BY <1>3 DEF ublk_ctrl_get_info, Return
<1>4. ASSUME NEW p \in Cmds, ublk_ctrl_start_user_recover(p) PROVE ServesOrAwaited'
  BY <1>4 DEF ublk_ctrl_start_user_recover, Return, GoOn
<1>5. ASSUME NEW p \in Cmds, Fork(p) PROVE ServesOrAwaited'
  BY <1>5 DEF Fork
<1>6. ASSUME NEW p \in Cmds, ublk_dev_prep(p) PROVE ServesOrAwaited'
  BY <1>6 DEF ublk_dev_prep, TgtFails, StartThreads, CanOpen, TgtOp
<1>7. ASSUME NEW p \in Cmds, ublk_ctrl_start_dev(p) PROVE ServesOrAwaited'
  BY <1>7 DEF ublk_ctrl_start_dev
<1>8. ASSUME NEW p \in Cmds, Join(p) PROVE ServesOrAwaited'
  BY <1>8 DEF Join
<1>9. ASSUME NEW p \in Cmds, ublk_dev_unprep(p) PROVE ServesOrAwaited'
  BY <1>9 DEF ublk_dev_unprep, Drop, Release
<1>10. ASSUME NEW p \in Cmds, ublk_ctrl_stop_dev(p) PROVE ServesOrAwaited'
  BY <1>10 DEF ublk_ctrl_stop_dev, Return, GoOn
<1>11. ASSUME NEW p \in Cmds, ublk_stop_io_daemon(p) PROVE ServesOrAwaited'
  BY <1>11 DEF ublk_stop_io_daemon
<1>12. ASSUME NEW p \in Cmds, ublk_ctrl_del_dev(p) PROVE ServesOrAwaited'
  BY <1>12 DEF ublk_ctrl_del_dev, Return, GoOn, Release
<1>13. ASSUME NEW p \in Cmds, DelReturns(p) PROVE ServesOrAwaited'
  BY <1>13 DEF DelReturns, Return
<1>14. ASSUME NEW p \in Cmds, QueuesEnd(p) PROVE ServesOrAwaited'
  BY <1>14 DEF QueuesEnd, Drop, Release
<1>15. ASSUME NEW p \in Cmds, Kill(p) PROVE ServesOrAwaited'
  BY <1>15 DEF Kill, Drop, Release
<1>16. ASSUME NEW p \in Cmds, Notice(p) PROVE ServesOrAwaited'
  BY <1>16 DEF Notice
<1>. QED
  BY <1>0, <1>1, <1>2, <1>3, <1>4, <1>5, <1>6, <1>7, <1>8,
     <1>9, <1>10, <1>11, <1>12, <1>13, <1>14, <1>15, <1>16 DEF Next, Step

\* Used with care, a command gets to START_DEV or DEL_DEV only when the daemon on
\* record has ended, and what del read of it stays true while it stops the device.
LEMMA NextNoRival ==
    ASSUME TypeOK, Flow, Naming, DaemonStates, Nodes, Live, Tidy, ~careless', [Next]_vars
    PROVE  NoRival'
<1> USE NoneIsNoCommand DEF TypeOK, Flow, Naming, DaemonStates, OneBusy, NoRival, SameDevice, Settled, Tidy, Busy, Alive, InCharge, command, driver, history, Goto, Dev, Exists, Ended, Maybe
<1>0. CASE UNCHANGED vars
  BY <1>0 DEF vars
<1>1. ASSUME NEW p \in Cmds, Run(p) PROVE NoRival'
  BY <1>1 DEF Run
<1>2. ASSUME NEW p \in Cmds, ublk_ctrl_add_dev(p) PROVE NoRival'
  <2>1. CASE Return(p) /\ UNCHANGED <<dev, rec, gen>>
    BY <1>2, <2>1 DEF ublk_ctrl_add_dev, Return
  <2>2. CASE /\ ~Exists(p)
             /\ dev' = [dev EXCEPT ![num[p]] = p]
             /\ \E r \in BOOLEAN : rec' = [rec EXCEPT ![p] = r]
             /\ gen' = [gen EXCEPT ![p] = p]
             /\ GoOn(p, "fork")
    <3>1. pid[p] = None /\ pc[p] = "add"
      BY <1>2 DEF ublk_ctrl_add_dev
    <3>2. UNCHANGED <<pid, fg, ipid>> /\ gen'[p] = p /\ pc'[p] = "fork"
      BY <1>2, <2>2 DEF ublk_ctrl_add_dev, GoOn
    <3>3. \A q \in Cmds \ {p} : pc'[q] = pc[q] /\ gen'[q] = gen[q]
      BY <2>2 DEF GoOn
    <3>4. \A q \in Cmds \ {p} : Busy(q)' => Busy(q)
      BY <3>2, <3>3
    <3>5. \A q \in Cmds : Ended(q) => Ended(q)'
      BY <3>1, <3>3
    <3>. QED
      BY <3>1, <3>2, <3>3, <3>4, <3>5
  <2>. QED
    BY <1>2, <2>1, <2>2 DEF ublk_ctrl_add_dev
<1>3. ASSUME NEW p \in Cmds, ublk_ctrl_get_info(p) PROVE NoRival'
  BY <1>3, SMTT(30) DEF ublk_ctrl_get_info, Return
<1>4. ASSUME NEW p \in Cmds, ublk_ctrl_start_user_recover(p) PROVE NoRival'
  BY <1>4, SMTT(30) DEF ublk_ctrl_start_user_recover, Return, GoOn
<1>5. ASSUME NEW p \in Cmds, Fork(p) PROVE NoRival'
  BY <1>5 DEF Fork
<1>6. ASSUME NEW p \in Cmds, ublk_dev_prep(p) PROVE NoRival'
  BY <1>6 DEF ublk_dev_prep, TgtFails, StartThreads, CanOpen, TgtOp
<1>7. ASSUME NEW p \in Cmds, ublk_ctrl_start_dev(p) PROVE NoRival'
  BY <1>7 DEF ublk_ctrl_start_dev
<1>8. ASSUME NEW p \in Cmds, Join(p) PROVE NoRival'
  BY <1>8 DEF Join
<1>9. ASSUME NEW p \in Cmds, ublk_dev_unprep(p) PROVE NoRival'
  BY <1>9 DEF ublk_dev_unprep, Drop, Release
<1>10. ASSUME NEW p \in Cmds, ublk_ctrl_stop_dev(p) PROVE NoRival'
  BY <1>10 DEF ublk_ctrl_stop_dev, Return, GoOn
<1>11. ASSUME NEW p \in Cmds, ublk_stop_io_daemon(p) PROVE NoRival'
  BY <1>11 DEF ublk_stop_io_daemon
<1>12. ASSUME NEW p \in Cmds, ublk_ctrl_del_dev(p) PROVE NoRival'
  BY <1>12, SMTT(30) DEF ublk_ctrl_del_dev, Return, GoOn, Release
<1>13. ASSUME NEW p \in Cmds, DelReturns(p) PROVE NoRival'
  BY <1>13 DEF DelReturns, Return
<1>14. ASSUME NEW p \in Cmds, QueuesEnd(p) PROVE NoRival'
  BY <1>14 DEF QueuesEnd, Drop, Release
<1>15. ASSUME NEW p \in Cmds, Kill(p) PROVE NoRival'
  BY <1>15 DEF Kill, Drop, Release
<1>16. ASSUME NEW p \in Cmds, Notice(p) PROVE NoRival'
  BY <1>16 DEF Notice
<1>. QED
  BY <1>0, <1>1, <1>2, <1>3, <1>4, <1>5, <1>6, <1>7, <1>8,
     <1>9, <1>10, <1>11, <1>12, <1>13, <1>14, <1>15, <1>16 DEF Next, Step

\* Used with care, no number changes hands while a command goes by it: an add that is
\* given a free number meets only daemons whose devices are there.
LEMMA NextSameDevice ==
    ASSUME TypeOK, Flow, Naming, DaemonStates, Nodes, Live, Tidy, ~careless', [Next]_vars
    PROVE  SameDevice'
<1> USE NoneIsNoCommand DEF TypeOK, Flow, Naming, SameDevice, Settled, Tidy, Busy, Alive, InCharge, command, driver, history, Goto, Dev, Exists, Ended, Maybe
<1>0. CASE UNCHANGED vars
  BY <1>0 DEF vars
<1>1. ASSUME NEW p \in Cmds, Run(p) PROVE SameDevice'
  BY <1>1 DEF Run
<1>2. ASSUME NEW p \in Cmds, ublk_ctrl_add_dev(p) PROVE SameDevice'
  <2>1. CASE Return(p) /\ UNCHANGED <<dev, rec, gen>>
    BY <1>2, <2>1 DEF ublk_ctrl_add_dev, Return
  <2>2. CASE /\ ~Exists(p)
             /\ dev' = [dev EXCEPT ![num[p]] = p]
             /\ \E r \in BOOLEAN : rec' = [rec EXCEPT ![p] = r]
             /\ gen' = [gen EXCEPT ![p] = p]
             /\ GoOn(p, "fork")
    <3>1. Busy(p) /\ pc[p] = "add"
      BY <1>2, StartingIsBusy DEF ublk_ctrl_add_dev
    <3>2. UNCHANGED num /\ gen'[p] = p /\ dev'[num[p]] = p
      BY <1>2, <2>2 DEF ublk_ctrl_add_dev
    <3>3. ASSUME NEW q \in Cmds, q # p, Alive(q)'
          PROVE  Dev(q)' = gen'[q]
      <4>1. Alive(q) /\ gen'[q] = gen[q]
        BY <2>2, <3>3 DEF GoOn
      <4>2. Dev(q) = gen[q] /\ gen[q] \in Cmds
        BY <3>1, <3>3, <4>1, OthersServe
      <4>3. num[q] # num[p]
        BY <2>2, <4>2
      <4>. QED
        BY <2>2, <3>2, <4>1, <4>2, <4>3
    <3>. QED
      BY <3>2, <3>3
  <2>. QED
    BY <1>2, <2>1, <2>2 DEF ublk_ctrl_add_dev
<1>3. ASSUME NEW p \in Cmds, ublk_ctrl_get_info(p) PROVE SameDevice'
  BY <1>3 DEF ublk_ctrl_get_info, Return
<1>4. ASSUME NEW p \in Cmds, ublk_ctrl_start_user_recover(p) PROVE SameDevice'
  BY <1>4 DEF ublk_ctrl_start_user_recover, Return, GoOn
<1>5. ASSUME NEW p \in Cmds, Fork(p) PROVE SameDevice'
  BY <1>5 DEF Fork
<1>6. ASSUME NEW p \in Cmds, ublk_dev_prep(p) PROVE SameDevice'
  BY <1>6 DEF ublk_dev_prep, TgtFails, StartThreads, CanOpen, TgtOp
<1>7. ASSUME NEW p \in Cmds, ublk_ctrl_start_dev(p) PROVE SameDevice'
  BY <1>7 DEF ublk_ctrl_start_dev
<1>8. ASSUME NEW p \in Cmds, Join(p) PROVE SameDevice'
  BY <1>8 DEF Join
<1>9. ASSUME NEW p \in Cmds, ublk_dev_unprep(p) PROVE SameDevice'
  BY <1>9 DEF ublk_dev_unprep, Drop, Release
<1>10. ASSUME NEW p \in Cmds, ublk_ctrl_stop_dev(p) PROVE SameDevice'
  BY <1>10 DEF ublk_ctrl_stop_dev, Return, GoOn
<1>11. ASSUME NEW p \in Cmds, ublk_stop_io_daemon(p) PROVE SameDevice'
  BY <1>11 DEF ublk_stop_io_daemon
<1>12. ASSUME NEW p \in Cmds, ublk_ctrl_del_dev(p) PROVE SameDevice'
  BY <1>12 DEF ublk_ctrl_del_dev, Return, GoOn, Release
<1>13. ASSUME NEW p \in Cmds, DelReturns(p) PROVE SameDevice'
  BY <1>13 DEF DelReturns, Return
<1>14. ASSUME NEW p \in Cmds, QueuesEnd(p) PROVE SameDevice'
  BY <1>14 DEF QueuesEnd, Drop, Release
<1>15. ASSUME NEW p \in Cmds, Kill(p) PROVE SameDevice'
  BY <1>15 DEF Kill, Drop, Release
<1>16. ASSUME NEW p \in Cmds, Notice(p) PROVE SameDevice'
  BY <1>16 DEF Notice
<1>. QED
  BY <1>0, <1>1, <1>2, <1>3, <1>4, <1>5, <1>6, <1>7, <1>8,
     <1>9, <1>10, <1>11, <1>12, <1>13, <1>14, <1>15, <1>16 DEF Next, Step

\* Used with care, what recover reads stays true: the driver has noticed every death
\* before, so a device that is quiesced later was so when it was read.
LEMMA NextFreshInfo ==
    ASSUME TypeOK, Flow, Naming, DaemonStates, Nodes, Live, Tidy, ~careless', [Next]_vars
    PROVE  FreshInfo'
<1> USE NoneIsNoCommand DEF TypeOK, Flow, DaemonStates, Live, FreshInfo, Settled, Unnoticed, Tidy, Busy, Alive, InCharge, command, driver, history, Goto, Dev, Exists, Ended, Maybe
<1>0. CASE UNCHANGED vars
  BY <1>0 DEF vars
<1>1. ASSUME NEW p \in Cmds, Run(p) PROVE FreshInfo'
  <2>1. UNCHANGED <<gen, seen, tgt, state, pid>> /\ pc[p] = "new"
    BY <1>1 DEF Run
  <2>2. \A q \in Cmds \ {p} : pc'[q] = pc[q] /\ kind'[q] = kind[q]
    BY <1>1 DEF Run
  <2>3. PICK k \in {"add", "recover", "del"} :
          /\ kind' = [kind EXCEPT ![p] = k]
          /\ Goto(p, IF k = "add" THEN "add" ELSE "info")
          /\ careless' = (careless \/ ~Settled \/ (k = "recover" /\ Unnoticed))
    BY <1>1 DEF Run
  <2>4. pc'[p] \in {"add", "info"} /\ (kind'[p] = "recover" => k = "recover")
    BY <2>3
  <2>5. k = "recover" => ~Unnoticed
    BY <2>3
  <2>6. Unnoticed' => Unnoticed
    BY <2>1, <2>2, <2>4
  <2>7. \A q \in Cmds : kind'[q] = "recover" /\ pc'[q] \in {"info", "srec"} => ~Unnoticed'
    BY <2>2, <2>4, <2>5, <2>6
  <2>8. \A q \in Cmds : pc'[q] = "srec" /\ state'[gen'[q]] = "QUIESCED" => seen'[q] = "QUIESCED"
    BY <2>1, <2>2, <2>4
  <2>9. \A q \in Cmds : kind'[q] = "recover" /\ pc'[q] \in {"fork", "prep"} => seen'[q] = "QUIESCED"
    BY <2>1, <2>2, <2>4
  <2>10. \A q \in Cmds : kind'[q] = "recover" /\ pc'[q] \in {"start", "serve"} => tgt'[q] = "recover"
    BY <2>1, <2>2, <2>4
  <2>. QED
    BY <2>7, <2>8, <2>9, <2>10
<1>2. ASSUME NEW p \in Cmds, ublk_ctrl_add_dev(p) PROVE FreshInfo'
  BY <1>2, SMTT(30) DEF ublk_ctrl_add_dev, Return, GoOn
<1>3. ASSUME NEW p \in Cmds, ublk_ctrl_get_info(p) PROVE FreshInfo'
  BY <1>3 DEF ublk_ctrl_get_info, Return
<1>4. ASSUME NEW p \in Cmds, ublk_ctrl_start_user_recover(p) PROVE FreshInfo'
  <2>1. CASE Return(p) /\ UNCHANGED <<gen, lost, stray>>
    BY <1>4, <2>1 DEF ublk_ctrl_start_user_recover, Return
  <2>2. CASE /\ Exists(p)
             /\ state[Dev(p)] = "QUIESCED" /\ rec[Dev(p)] /\ open[Dev(p)] = None /\ ~gone[Dev(p)]
             /\ lost' = lost \ {Dev(p)}
             /\ gen' = [gen EXCEPT ![p] = Dev(p)]
             /\ stray' = (stray \/ Dev(p) # gen[p])
             /\ GoOn(p, "fork")
    <3>1. Dev(p) = gen[p]
      BY <1>4, <2>2 DEF ublk_ctrl_start_user_recover, SameDevice
    <3>2. seen[p] = "QUIESCED"
      BY <1>4, <2>2, <3>1 DEF ublk_ctrl_start_user_recover
    <3>3. UNCHANGED <<kind, tgt, seen, state, pid>> /\ gen' = gen
      BY <1>4, <2>2, <3>1 DEF ublk_ctrl_start_user_recover, GoOn
    <3>4. pc[p] = "srec" /\ pc'[p] = "fork" /\ \A q \in Cmds \ {p} : pc'[q] = pc[q]
      BY <1>4, <2>2 DEF ublk_ctrl_start_user_recover, GoOn
    <3>5. Unnoticed' => Unnoticed
      BY <3>3, <3>4
    <3>. QED
      BY <3>2, <3>3, <3>4, <3>5
  <2>. QED
    BY <1>4, <2>1, <2>2 DEF ublk_ctrl_start_user_recover
<1>5. ASSUME NEW p \in Cmds, Fork(p) PROVE FreshInfo'
  BY <1>5 DEF Fork
<1>6. ASSUME NEW p \in Cmds, ublk_dev_prep(p) PROVE FreshInfo'
  BY <1>6 DEF ublk_dev_prep, TgtFails, StartThreads, CanOpen, TgtOp
<1>7. ASSUME NEW p \in Cmds, ublk_ctrl_start_dev(p) PROVE FreshInfo'
  BY <1>7 DEF ublk_ctrl_start_dev
<1>8. ASSUME NEW p \in Cmds, Join(p) PROVE FreshInfo'
  BY <1>8 DEF Join
<1>9. ASSUME NEW p \in Cmds, ublk_dev_unprep(p) PROVE FreshInfo'
  BY <1>9 DEF ublk_dev_unprep, Drop, Release
<1>10. ASSUME NEW p \in Cmds, ublk_ctrl_stop_dev(p) PROVE FreshInfo'
  BY <1>10 DEF ublk_ctrl_stop_dev, Return, GoOn
<1>11. ASSUME NEW p \in Cmds, ublk_stop_io_daemon(p) PROVE FreshInfo'
  BY <1>11 DEF ublk_stop_io_daemon
<1>12. ASSUME NEW p \in Cmds, ublk_ctrl_del_dev(p) PROVE FreshInfo'
  BY <1>12 DEF ublk_ctrl_del_dev, Return, GoOn, Release
<1>13. ASSUME NEW p \in Cmds, DelReturns(p) PROVE FreshInfo'
  BY <1>13 DEF DelReturns, Return
<1>14. ASSUME NEW p \in Cmds, QueuesEnd(p) PROVE FreshInfo'
  BY <1>14 DEF QueuesEnd, Drop, Release
<1>15. ASSUME NEW p \in Cmds, Kill(p) PROVE FreshInfo'
  BY <1>15 DEF Kill, Drop, Release
<1>16. ASSUME NEW p \in Cmds, Notice(p) PROVE FreshInfo'
  BY <1>16 DEF Notice
<1>. QED
  BY <1>0, <1>1, <1>2, <1>3, <1>4, <1>5, <1>6, <1>7, <1>8,
     <1>9, <1>10, <1>11, <1>12, <1>13, <1>14, <1>15, <1>16 DEF Next, Step

\* Used with care, STOP_DEV, DEL_DEV and START_USER_RECOVERY hit the device meant.
LEMMA NextNotStray ==
    ASSUME TypeOK, Flow, Naming, DaemonStates, Nodes, Live, Tidy, ~stray, ~careless', [Next]_vars
    PROVE  ~stray'
<1> USE NoneIsNoCommand DEF TypeOK, Flow, SameDevice, Tidy, Busy, Alive, InCharge, command, driver, history, Goto, Dev, Exists, Ended, Maybe
<1>0. CASE UNCHANGED vars
  BY <1>0 DEF vars
<1>1. ASSUME NEW p \in Cmds, Run(p) PROVE ~stray'
  BY <1>1 DEF Run
<1>2. ASSUME NEW p \in Cmds, ublk_ctrl_add_dev(p) PROVE ~stray'
  BY <1>2 DEF ublk_ctrl_add_dev, Return, GoOn
<1>3. ASSUME NEW p \in Cmds, ublk_ctrl_get_info(p) PROVE ~stray'
  BY <1>3 DEF ublk_ctrl_get_info, Return
<1>4. ASSUME NEW p \in Cmds, ublk_ctrl_start_user_recover(p) PROVE ~stray'
  BY <1>4 DEF ublk_ctrl_start_user_recover, Return, GoOn
<1>5. ASSUME NEW p \in Cmds, Fork(p) PROVE ~stray'
  BY <1>5 DEF Fork
<1>6. ASSUME NEW p \in Cmds, ublk_dev_prep(p) PROVE ~stray'
  BY <1>6 DEF ublk_dev_prep, TgtFails, StartThreads, CanOpen, TgtOp
<1>7. ASSUME NEW p \in Cmds, ublk_ctrl_start_dev(p) PROVE ~stray'
  BY <1>7 DEF ublk_ctrl_start_dev
<1>8. ASSUME NEW p \in Cmds, Join(p) PROVE ~stray'
  BY <1>8 DEF Join
<1>9. ASSUME NEW p \in Cmds, ublk_dev_unprep(p) PROVE ~stray'
  BY <1>9 DEF ublk_dev_unprep, Drop, Release
<1>10. ASSUME NEW p \in Cmds, ublk_ctrl_stop_dev(p) PROVE ~stray'
  BY <1>10 DEF ublk_ctrl_stop_dev, Return, GoOn
<1>11. ASSUME NEW p \in Cmds, ublk_stop_io_daemon(p) PROVE ~stray'
  BY <1>11 DEF ublk_stop_io_daemon
<1>12. ASSUME NEW p \in Cmds, ublk_ctrl_del_dev(p) PROVE ~stray'
  BY <1>12 DEF ublk_ctrl_del_dev, Return, GoOn, Release
<1>13. ASSUME NEW p \in Cmds, DelReturns(p) PROVE ~stray'
  BY <1>13 DEF DelReturns, Return
<1>14. ASSUME NEW p \in Cmds, QueuesEnd(p) PROVE ~stray'
  BY <1>14 DEF QueuesEnd, Drop, Release
<1>15. ASSUME NEW p \in Cmds, Kill(p) PROVE ~stray'
  BY <1>15 DEF Kill, Drop, Release
<1>16. ASSUME NEW p \in Cmds, Notice(p) PROVE ~stray'
  BY <1>16 DEF Notice
<1>. QED
  BY <1>0, <1>1, <1>2, <1>3, <1>4, <1>5, <1>6, <1>7, <1>8,
     <1>9, <1>10, <1>11, <1>12, <1>13, <1>14, <1>15, <1>16 DEF Next, Step

\* Every step keeps a recovered device checked: END_USER_RECOVERY comes after
\* recover_tgt, and nobody changes a daemon's target once it serves.
LEMMA NextRecoverChecked == TypeOK /\ DaemonStates /\ Careful /\ RecoverChecked /\ [Next]_vars => RecoverChecked'
<1> SUFFICES ASSUME TypeOK, DaemonStates, Careful, RecoverChecked, [Next]_vars PROVE RecoverChecked'
  OBVIOUS
<1> USE NoneIsNoCommand DEF TypeOK, DaemonStates, Careful, RecoverChecked, Tidy, FreshInfo, command, driver, history, Goto, Dev, Exists, Ended, Maybe
<1>0. CASE UNCHANGED vars
  BY <1>0 DEF vars
<1>1. ASSUME NEW p \in Cmds, Run(p) PROVE RecoverChecked'
  BY <1>1 DEF Run
<1>2. ASSUME NEW p \in Cmds, ublk_ctrl_add_dev(p) PROVE RecoverChecked'
  BY <1>2 DEF ublk_ctrl_add_dev, Return, GoOn
<1>3. ASSUME NEW p \in Cmds, ublk_ctrl_get_info(p) PROVE RecoverChecked'
  BY <1>3 DEF ublk_ctrl_get_info, Return
<1>4. ASSUME NEW p \in Cmds, ublk_ctrl_start_user_recover(p) PROVE RecoverChecked'
  BY <1>4 DEF ublk_ctrl_start_user_recover, Return, GoOn
<1>5. ASSUME NEW p \in Cmds, Fork(p) PROVE RecoverChecked'
  BY <1>5 DEF Fork
<1>6. ASSUME NEW p \in Cmds, ublk_dev_prep(p) PROVE RecoverChecked'
  BY <1>6 DEF ublk_dev_prep, TgtFails, StartThreads, CanOpen, TgtOp
<1>7. ASSUME NEW p \in Cmds, ublk_ctrl_start_dev(p) PROVE RecoverChecked'
  BY <1>7 DEF ublk_ctrl_start_dev
<1>8. ASSUME NEW p \in Cmds, Join(p) PROVE RecoverChecked'
  BY <1>8 DEF Join
<1>9. ASSUME NEW p \in Cmds, ublk_dev_unprep(p) PROVE RecoverChecked'
  BY <1>9 DEF ublk_dev_unprep, Drop, Release
<1>10. ASSUME NEW p \in Cmds, ublk_ctrl_stop_dev(p) PROVE RecoverChecked'
  BY <1>10 DEF ublk_ctrl_stop_dev, Return, GoOn
<1>11. ASSUME NEW p \in Cmds, ublk_stop_io_daemon(p) PROVE RecoverChecked'
  BY <1>11 DEF ublk_stop_io_daemon
<1>12. ASSUME NEW p \in Cmds, ublk_ctrl_del_dev(p) PROVE RecoverChecked'
  BY <1>12 DEF ublk_ctrl_del_dev, Return, GoOn, Release
<1>13. ASSUME NEW p \in Cmds, DelReturns(p) PROVE RecoverChecked'
  BY <1>13 DEF DelReturns, Return
<1>14. ASSUME NEW p \in Cmds, QueuesEnd(p) PROVE RecoverChecked'
  BY <1>14 DEF QueuesEnd, Drop, Release
<1>15. ASSUME NEW p \in Cmds, Kill(p) PROVE RecoverChecked'
  BY <1>15 DEF Kill, Drop, Release
<1>16. ASSUME NEW p \in Cmds, Notice(p) PROVE RecoverChecked'
  BY <1>16 DEF Notice
<1>. QED
  BY <1>0, <1>1, <1>2, <1>3, <1>4, <1>5, <1>6, <1>7, <1>8,
     <1>9, <1>10, <1>11, <1>12, <1>13, <1>14, <1>15, <1>16 DEF Next, Step

\* Used with care, every step keeps the commands tidy; used without, nothing is claimed.
LEMMA NextCareful ==
    ASSUME TypeOK, Flow, Naming, DaemonStates, Nodes, Live, Careful, [Next]_vars
    PROVE  Careful'
<1>1. CASE careless'
  BY <1>1 DEF Careful
<1>2. CASE ~careless'
  <2>1. Tidy /\ ~stray
    BY <1>2, CarelessStays DEF Careful
  <2>2. OneBusy' /\ ServesOrAwaited' /\ NoRival' /\ SameDevice' /\ FreshInfo'
    BY <1>2, <2>1, NextOneBusy, NextServesOrAwaited, NextNoRival, NextSameDevice, NextFreshInfo
  <2>3. ~stray'
    BY <1>2, <2>1, NextNotStray
  <2>. QED
    BY <2>2, <2>3 DEF Careful, Tidy
<1>. QED
  BY <1>1, <1>2

\* Before the first command nothing is running, open or made.
LEMMA InitDInv == Init => DInv
<1> SUFFICES ASSUME Init PROVE DInv
  OBVIOUS
<1> USE NoneIsNoCommand DEF Init
<1>0. 0 \in Numbers
  BY DaemonAssumption DEF Numbers
<1>1. TypeOK
  BY <1>0 DEF TypeOK, Pcs, States, Maybe
<1>2. Flow /\ Naming /\ DaemonStates
  BY DEF Flow, Naming, DaemonStates, Alive, Ended
<1>3. Nodes /\ Live /\ NoOrphan /\ DelDone
  BY DEF Nodes, Live, NoOrphan, DelDone
<1>4. OneBusy /\ ServesOrAwaited /\ NoRival /\ SameDevice /\ FreshInfo /\ ~stray
  BY DEF OneBusy, ServesOrAwaited, NoRival, SameDevice, FreshInfo, Busy, Alive
<1>5. RecoverChecked
  BY DEF RecoverChecked
<1>. QED
  BY <1>1, <1>2, <1>3, <1>4, <1>5 DEF DInv, Careful, Tidy

\* Every step keeps the inductive invariant.
LEMMA NextDInv == DInv /\ [Next]_vars => DInv'
<1> SUFFICES ASSUME DInv, [Next]_vars PROVE DInv'
  OBVIOUS
<1>0. /\ TypeOK /\ Flow /\ Naming /\ DaemonStates /\ Nodes /\ Live /\ NoOrphan /\ DelDone
      /\ Careful /\ RecoverChecked
  BY DEF DInv
<1>1. TypeOK' /\ Flow' /\ Naming' /\ DaemonStates' /\ Nodes' /\ Live'
  BY <1>0, NextTypeOK, NextFlow, NextNaming, NextDaemonStates, NextNodes, NextLive
<1>2. NoOrphan' /\ DelDone'
  BY <1>0, NextNoOrphan, NextDelDone
<1>3. Careful' /\ RecoverChecked'
  BY <1>0, NextCareful, NextRecoverChecked
<1>. QED
  BY <1>1, <1>2, <1>3 DEF DInv

\* The inductive invariant of add, recover, del and the daemons holds in every state,
\* whatever commands are run, killed or raced against each other.
THEOREM DaemonInvariant == Spec => []DInv
<1>1. Init => DInv
  BY InitDInv
<1>2. DInv /\ [Next]_vars => DInv'
  BY NextDInv
<1>. QED
  BY <1>1, <1>2, PTL DEF Spec

\* No device is left behind: whatever fails on the way to START_DEV and whoever
\* deletes first, somebody will still delete it, or its daemon was killed.
THEOREM DaemonLeavesNoOrphan == Spec => []NoOrphan
<1>1. DInv => NoOrphan
  BY DEF DInv
<1>. QED
  BY <1>1, DaemonInvariant, PTL

\* A LIVE device is served by the daemon on record, with the node open and all of its
\* queue threads running, or that daemon was killed a moment ago.
THEOREM DaemonServesLive == Spec => []LiveServed
<1>1. DInv => LiveServed
  BY NoneIsNoCommand DEF DInv, TypeOK, Maybe, Live, LiveServed
<1>. QED
  BY <1>1, DaemonInvariant, PTL

\* A del that found its device and has ended leaves it deleted, also when the daemon
\* outlived the three seconds del gives it.
THEOREM DelLeavesDeleted == Spec => []DelDone
<1>1. DInv => DelDone
  BY DEF DInv
<1>. QED
  BY <1>1, DaemonInvariant, PTL

\* Used the way tests/ublk does, no STOP_DEV, DEL_DEV or recovery hits another device
\* than the one the command looked up or made.
THEOREM CommandsHitTheirOwn == Spec => []OwnOnly
<1>1. DInv => OwnOnly
  BY DEF DInv, TypeOK, Careful, OwnOnly
<1>. QED
  BY <1>1, DaemonInvariant, PTL

\* Used that way, a recovered device that is LIVE went through recover_tgt.
THEOREM RecoveryIsChecked == Spec => []RecoverChecked
<1>1. DInv => RecoverChecked
  BY DEF DInv
<1>. QED
  BY <1>1, DaemonInvariant, PTL

=============================================================================
