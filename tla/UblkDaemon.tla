----------------------------- MODULE UblkDaemon -----------------------------
(***************************************************************************)
(* The control plane of miniublk (src/miniublk.c): the commands add,       *)
(* recover and del, and the daemon that add and recover turn into, against *)
(* the control device of the ublk driver.  Every control command names a   *)
(* device by its number only; the number is free again once the device     *)
(* was deleted and nobody has /dev/ublkcN open.                            *)
(*                                                                         *)
(* A device is known here by the add command that made it, so that two     *)
(* devices that had the same number one after the other can be told apart. *)
(*                                                                         *)
(* External: the driver.  One process at a time opens /dev/ublkcN;         *)
(* START_DEV and END_USER_RECOVERY wait until every queue has fetched its  *)
(* commands; STOP_DEV and DEL_DEV abort them, which ends the queue threads *)
(* (UblkQueue, StopEndsThread); DEL_DEV returns when the number is free.   *)
(***************************************************************************)
EXTENDS Naturals, FiniteSets

CONSTANTS
    MaxCmds,    \* invocations of miniublk
    MaxNum,     \* device numbers (255 in the program)
    None        \* no command

ASSUME DaemonAssumption ==
    /\ MaxCmds \in Nat \ {0}
    /\ MaxNum \in Nat \ {0}
    /\ None \notin 1 .. MaxCmds

Cmds == 1 .. MaxCmds
Numbers == 0 .. MaxNum - 1

VARIABLES
    pc, kind,   \* where each invocation is, and which command it is
    num,        \* dev_info.dev_id
    gen,        \* history: the device it made, looked up or recovers
    seen, ipid, \* dev_info.state and dev_info.ublksrv_pid as read by GET_DEV_INFO
    fg,         \* the shell still waits for it
    tgt,        \* how the target was set up: by init_tgt or by recover_tgt
    th,         \* its queue threads
    hold,       \* what keeps /dev/ublkcN open: fds[0], the queues' maps and rings
    dev,        \* driver: number -> device
    state, pid, rec,    \* driver: dev_info of each device
    open,       \* driver: the process that has the device's node open
    gone,       \* driver: DEL_DEV was issued
    lost,       \* history: devices whose daemon was killed
    stray,      \* history: a STOP_DEV or DEL_DEV hit another device than meant
    careless    \* history: the commands were not used the way the tests do

command == <<kind, num, gen, seen, ipid, fg, tgt>>
driver == <<dev, state, pid, rec, open, gone>>
history == <<lost, stray, careless>>
vars == <<pc, command, th, hold, driver, history>>

Init ==
    /\ pc = [p \in Cmds |-> "new"]
    /\ kind = [p \in Cmds |-> "none"]
    /\ num = [p \in Cmds |-> 0]
    /\ gen = [p \in Cmds |-> None]
    /\ seen = [p \in Cmds |-> "DEAD"]
    /\ ipid = [p \in Cmds |-> None]
    /\ fg = [p \in Cmds |-> FALSE]
    /\ tgt = [p \in Cmds |-> "none"]
    /\ th = [p \in Cmds |-> "none"]
    /\ hold = [p \in Cmds |-> {}]
    /\ dev = [n \in Numbers |-> None]
    /\ state = [p \in Cmds |-> "DEAD"]
    /\ pid = [p \in Cmds |-> None]
    /\ rec = [p \in Cmds |-> FALSE]
    /\ open = [p \in Cmds |-> None]
    /\ gone = [p \in Cmds |-> FALSE]
    /\ lost = {} /\ stray = FALSE /\ careless = FALSE

Ended(p) == pc[p] \in {"done", "killed"}
Goto(p, label) == pc' = [pc EXCEPT ![p] = label]
Dev(p) == dev[num[p]]
Exists(p) == Dev(p) # None

\* The number of a deleted device is free once its node is closed (external).
Release ==
    dev' = [n \in Numbers |->
              IF dev[n] # None /\ gone'[dev[n]] /\ open'[dev[n]] = None
              THEN None ELSE dev[n]]

\* Process p gives up some of what keeps the node open.
Drop(p, what) ==
    /\ hold' = [hold EXCEPT ![p] = @ \ what]
    /\ open' = [g \in Cmds |-> IF open[g] = p /\ hold'[p] = {} THEN None ELSE open[g]]
    /\ UNCHANGED <<state, pid, rec, gone>>
    /\ Release

-----------------------------------------------------------------------------
(* The commands.                                                           *)

\* What the tests take care of: one command at a time, none while a daemon is still
\* starting or failing to, no kill during a command, and recover only after the driver has noticed
\* the death of the daemon.
InCharge(q) == ~fg[q] /\ gen[q] # None /\ pid[gen[q]] = q
Settled == \A q \in Cmds : pc[q] = "new" \/ Ended(q) \/ InCharge(q)
Unnoticed == \E g \in Cmds : state[g] = "LIVE" /\ pid[g] # None /\ Ended(pid[g])

\* main and the option parsing; del -a is a del for each number in turn.  A command
\* that fails in ublk_find_tgt or ublk_ctrl_init has touched nothing and is left out.
Run(p) ==
    /\ pc[p] = "new"
    /\ \A q \in Cmds : q < p => pc[q] # "new"
    /\ \E k \in {"add", "recover", "del"} :
         /\ kind' = [kind EXCEPT ![p] = k]
         /\ \E n \in Numbers : num' = [num EXCEPT ![p] = n]
         /\ Goto(p, IF k = "add" THEN "add" ELSE "info")
         /\ careless' = (careless \/ ~Settled \/ (k = "recover" /\ Unnoticed))
    /\ fg' = [fg EXCEPT ![p] = TRUE]
    /\ UNCHANGED <<gen, seen, ipid, tgt, th, hold, driver, lost, stray>>

\* ublk_ctrl_deinit frees what was read and the process ends.
Return(p) ==
    /\ Goto(p, "done")
    /\ seen' = [seen EXCEPT ![p] = "DEAD"]
    /\ ipid' = [ipid EXCEPT ![p] = None]
    /\ fg' = [fg EXCEPT ![p] = FALSE]

GoOn(p, label) == Goto(p, label) /\ UNCHANGED <<fg, seen, ipid>>

\* ADD_DEV with the number asked for; -1 lets the driver pick one that is free.
ublk_ctrl_add_dev(p) ==
    /\ pc[p] = "add"
    /\ \/ /\ ~Exists(p)
          /\ dev' = [dev EXCEPT ![num[p]] = p]
          /\ \E r \in BOOLEAN : rec' = [rec EXCEPT ![p] = r]
          /\ gen' = [gen EXCEPT ![p] = p]
          /\ GoOn(p, "fork")
       \/ Return(p) /\ UNCHANGED <<dev, rec, gen>>
    /\ UNCHANGED <<kind, num, tgt, th, hold, state, pid, open, gone, history>>

\* GET_DEV_INFO at the start of recover and of __cmd_dev_del.
ublk_ctrl_get_info(p) ==
    /\ pc[p] = "info"
    /\ \/ /\ Exists(p)
          /\ gen' = [gen EXCEPT ![p] = Dev(p)]
          /\ seen' = [seen EXCEPT ![p] = state[Dev(p)]]
          /\ ipid' = [ipid EXCEPT ![p] = pid[Dev(p)]]
          /\ Goto(p, IF kind[p] = "del" THEN "stop" ELSE "srec")
          /\ UNCHANGED fg
       \/ ~Exists(p) /\ Return(p) /\ UNCHANGED gen
    /\ UNCHANGED <<kind, num, tgt, th, hold, driver, history>>

\* GET_PARAMS and START_USER_RECOVERY: only a quiesced device that nobody has open.
ublk_ctrl_start_user_recover(p) ==
    /\ pc[p] = "srec"
    /\ \/ /\ Exists(p)
          /\ LET g == Dev(p) IN
             /\ state[g] = "QUIESCED" /\ rec[g] /\ open[g] = None /\ ~gone[g]
             /\ lost' = lost \ {g}
             /\ gen' = [gen EXCEPT ![p] = g]
             /\ stray' = (stray \/ g # gen[p])
          /\ GoOn(p, "fork")
       \/ Return(p) /\ UNCHANGED <<gen, lost, stray>>
    /\ UNCHANGED <<kind, num, tgt, th, hold, driver, careless>>

\* daemon(1, 1): the shell gets its prompt back, long before the device is usable.
Fork(p) ==
    /\ pc[p] = "fork"
    /\ fg' = [fg EXCEPT ![p] = FALSE]
    /\ Goto(p, "prep")
    /\ UNCHANGED <<kind, num, gen, seen, ipid, tgt, th, hold, driver, history>>

\* Mutant: the target is always set up afresh.
BadTgtOp(p) == "init"

\* Which target operation ublk_dev_prep calls: it goes by the state read earlier.
TgtOp(p) == IF seen[p] = "QUIESCED" THEN "recover" ELSE "init"

\* /dev/ublkcN is there and nobody has it open (external).
CanOpen(p) == Exists(p) /\ ~gone[Dev(p)] /\ open[Dev(p)] = None

\* ublk_loop_tgt_init or ublk_loop_tgt_recover finds the backing file missing or not
\* fitting the device: ublk_dev_prep returns with the node open.
TgtFails(p) ==
    /\ hold' = [hold EXCEPT ![p] = {"fd"}]
    /\ Goto(p, "del")
    /\ UNCHANGED <<tgt, th>>

\* The target is there: start the queue threads, of which some may fail in
\* ublk_queue_init.
StartThreads(p) ==
    /\ hold' = [hold EXCEPT ![p] = {"fd", "queues"}]
    /\ tgt' = [tgt EXCEPT ![p] = TgtOp(p)]
    /\ \E t \in {"ready", "partial"} : th' = [th EXCEPT ![p] = t]
    /\ Goto(p, "start")

\* Open /dev/ublkcN and set up the target; a failure leads to DEL_DEV.
ublk_dev_prep(p) ==
    /\ pc[p] = "prep"
    /\ \/ ~CanOpen(p) /\ Goto(p, "del") /\ UNCHANGED <<tgt, th, hold, open>>
       \/ /\ CanOpen(p)
          /\ open' = [open EXCEPT ![Dev(p)] = p]
          /\ TgtFails(p) \/ StartThreads(p)
    /\ UNCHANGED <<kind, num, gen, seen, ipid, fg, dev, state, pid, rec, gone, history>>

\* SET_PARAMS, whose failure is only logged, and START_DEV; or END_USER_RECOVERY.
ublk_ctrl_start_dev(p) ==
    /\ pc[p] = "start"
    /\ th[p] \in {"ready", "ended"}
    /\ LET g == Dev(p) IN
       \/ /\ state[g] = (IF kind[p] = "recover" THEN "QUIESCED" ELSE "DEAD")
          /\ ~gone[g] /\ th[p] = "ready"
          /\ state' = [state EXCEPT ![g] = "LIVE"]
          /\ pid' = [pid EXCEPT ![g] = p]
          /\ Goto(p, "serve")
       \/ Goto(p, "unprep") /\ UNCHANGED <<state, pid>>
    /\ UNCHANGED <<command, th, hold, dev, rec, open, gone, history>>

\* Mutant: the threads are not waited for.
BadJoin(p) ==
    /\ pc[p] = "serve"
    /\ Goto(p, "unprep")
    /\ UNCHANGED <<command, th, hold, driver, history>>

\* The threads are joined.
Join(p) ==
    /\ pc[p] = "serve"
    /\ th[p] = "ended"
    /\ Goto(p, "unprep")
    /\ UNCHANGED <<command, th, hold, driver, history>>

\* Mutant: the daemon ends without deleting its device.
BadUnprep(p) ==
    /\ pc[p] = "unprep"
    /\ Drop(p, {"fd"})
    /\ Goto(p, "done")
    /\ UNCHANGED <<command, th, history>>

\* Mutant: /dev/ublkcN is not closed.
BadClose(p) ==
    /\ pc[p] = "unprep"
    /\ Goto(p, "del")
    /\ UNCHANGED <<command, th, hold, driver, history>>

\* deinit_tgt, then close(fds[0]); DEL_DEV follows, after a failure and at the end
\* of a normal life alike.
ublk_dev_unprep(p) ==
    /\ pc[p] = "unprep"
    /\ Drop(p, {"fd"})
    /\ Goto(p, "del")
    /\ UNCHANGED <<command, th, history>>

\* STOP_DEV: requests are drained or, when nobody serves them, failed.
ublk_ctrl_stop_dev(p) ==
    /\ pc[p] = "stop"
    /\ \/ /\ Exists(p)
          /\ state' = [state EXCEPT ![Dev(p)] = "DEAD"]
          /\ stray' = (stray \/ Dev(p) # gen[p])
          /\ GoOn(p, "poll")
       \/ ~Exists(p) /\ Return(p) /\ UNCHANGED <<state, stray>>
    /\ UNCHANGED <<kind, num, gen, tgt, th, hold, dev, pid, rec, open, gone,
                   lost, careless>>

\* Mutant: a daemon that is still there makes del give up.
BadStopIoDaemon(p) ==
    /\ pc[p] = "poll"
    /\ Goto(p, IF ipid[p] # None /\ ~Ended(ipid[p]) THEN "done" ELSE "del")
    /\ UNCHANGED <<command, th, hold, driver, history>>

\* Mutant: del does not wait for the daemon.
BadPoll(p) ==
    /\ pc[p] = "poll"
    /\ Goto(p, "del")
    /\ UNCHANGED <<command, th, hold, driver, history>>

\* kill(pid, 0) until the daemon is gone, for three seconds; then DEL_DEV anyway.
ublk_stop_io_daemon(p) ==
    /\ pc[p] = "poll"
    /\ careless' = (careless \/ (ipid[p] # None /\ ~Ended(ipid[p])))
    /\ Goto(p, "del")
    /\ UNCHANGED <<command, th, hold, driver, lost, stray>>

\* DEL_DEV, by the del command and by every add or recover that comes to its end.
ublk_ctrl_del_dev(p) ==
    /\ pc[p] = "del"
    /\ \/ /\ Exists(p)
          /\ gone' = [gone EXCEPT ![Dev(p)] = TRUE]
          /\ state' = [state EXCEPT ![Dev(p)] = "DEAD"]
          /\ stray' = (stray \/ Dev(p) # gen[p])
          /\ gen' = [gen EXCEPT ![p] = Dev(p)]
          /\ UNCHANGED open
          /\ Release
          /\ GoOn(p, "delwait")
       \/ ~Exists(p) /\ Return(p) /\ UNCHANGED <<dev, state, gone, gen, stray, open>>
    /\ UNCHANGED <<kind, num, tgt, th, hold, pid, rec, lost, careless>>

DelReturns(p) ==
    /\ pc[p] = "delwait"
    /\ Dev(p) # gen[p]
    /\ Return(p)
    /\ UNCHANGED <<kind, num, gen, tgt, th, hold, driver, history>>

Step(p) ==
    \/ ublk_ctrl_add_dev(p) \/ ublk_ctrl_get_info(p) \/ ublk_ctrl_start_user_recover(p)
    \/ Fork(p) \/ ublk_dev_prep(p) \/ ublk_ctrl_start_dev(p) \/ Join(p) \/ ublk_dev_unprep(p)
    \/ ublk_ctrl_stop_dev(p) \/ ublk_stop_io_daemon(p) \/ ublk_ctrl_del_dev(p) \/ DelReturns(p)

-----------------------------------------------------------------------------
(* Around them.                                                            *)

\* Aborted commands end the queue threads (ublk_io_handler_fn, ublk_queue_deinit).
\* Some of the queues of a partial start are not there to answer START_DEV.
QueuesEnd(p) ==
    /\ "queues" \in hold[p]
    /\ LET g == Dev(p) IN gone[g] \/ (pc[p] = "serve" /\ state[g] # "LIVE")
    /\ th' = [th EXCEPT ![p] = IF @ = "ready" THEN "ended" ELSE @]
    /\ Drop(p, {"queues"})
    /\ UNCHANGED <<pc, command, history>>

\* kill -9 of a daemon (external).
Kill(p) ==
    /\ pc[p] # "new" /\ ~fg[p] /\ ~Ended(p)
    /\ Goto(p, "killed")
    /\ th' = [th EXCEPT ![p] = "ended"]
    /\ lost' = lost \cup {gen[p]}
    /\ careless' = (careless \/ \E q \in Cmds : fg[q])
    /\ Drop(p, {"fd", "queues"})
    /\ UNCHANGED <<command, stray>>

\* The driver notices that the daemon of a live device is dead (external).
Notice(g) ==
    /\ state[g] = "LIVE"
    /\ pid[g] # None /\ Ended(pid[g])
    /\ state' = [state EXCEPT ![g] = IF rec[g] THEN "QUIESCED" ELSE "DEAD"]
    /\ UNCHANGED <<pc, command, th, hold, dev, pid, rec, open, gone, history>>

Next == \E p \in Cmds : Run(p) \/ Step(p) \/ QueuesEnd(p) \/ Kill(p) \/ Notice(p)

Spec == Init /\ [][Next]_vars

\* A started process runs, and aborted queue threads end; nobody has to start a
\* command or kill a daemon.
FairSpec == Spec /\ \A p \in Cmds : WF_vars(Step(p)) /\ WF_vars(QueuesEnd(p))

-----------------------------------------------------------------------------
(* Properties.                                                             *)

Pcs == {"new", "add", "info", "srec", "fork", "prep", "start", "serve", "unprep", "stop",
        "poll", "del", "delwait", "done", "killed"}
States == {"DEAD", "LIVE", "QUIESCED"}
Maybe == Cmds \cup {None}

\* Type invariant of the commands' and the driver's variables.
TypeOK ==
    /\ pc \in [Cmds -> Pcs]
    /\ kind \in [Cmds -> {"none", "add", "recover", "del"}]
    /\ fg \in [Cmds -> BOOLEAN]
    /\ num \in [Cmds -> Numbers]
    /\ gen \in [Cmds -> Maybe] /\ ipid \in [Cmds -> Maybe]
    /\ seen \in [Cmds -> States]
    /\ tgt \in [Cmds -> {"none", "init", "recover"}]
    /\ th \in [Cmds -> {"none", "ready", "partial", "ended"}]
    /\ hold \in [Cmds -> SUBSET {"fd", "queues"}]
    /\ dev \in [Numbers -> Maybe]
    /\ state \in [Cmds -> States]
    /\ pid \in [Cmds -> Maybe] /\ open \in [Cmds -> Maybe]
    /\ rec \in [Cmds -> BOOLEAN] /\ gone \in [Cmds -> BOOLEAN]
    /\ lost \subseteq Maybe
    /\ stray \in BOOLEAN /\ careless \in BOOLEAN

\* The processes that will issue DEL_DEV for device g when they come to their end.
Keepers(g) == {p \in Cmds : gen[p] = g /\ kind[p] \in {"add", "recover"}
                   /\ pc[p] \in {"fork", "prep", "start", "serve", "unprep", "del"}}

\* No device is left behind: whatever fails in ublk_start_daemon and whoever deletes
\* first, a device that is not being deleted has a process that will delete it, or
\* its daemon was killed (miniublk.c:1013-1025, 1101-1112).
NoOrphan == \A n \in Numbers :
    dev[n] # None /\ ~gone[dev[n]] => dev[n] \in lost \/ Keepers(dev[n]) # {}

\* A LIVE device is served: the daemon on record has the node open and its queue
\* threads run, or it was killed and the driver has not noticed yet; stop, delete and
\* a second recovery never take the threads away first (miniublk.c:895-922).
LiveServed == \A n \in Numbers :
    dev[n] # None /\ state[dev[n]] = "LIVE" =>
        LET p == pid[dev[n]] IN
        /\ p # None
        /\ pc[p] = "killed" \/ (pc[p] = "serve" /\ open[dev[n]] = p /\ th[p] = "ready"
                                /\ hold[p] = {"fd", "queues"})

\* A del command that found its device and has ended leaves it deleted, also when
\* the daemon did not go away within three seconds (miniublk.c:1136-1171).
DelDone == \A p \in Cmds, n \in Numbers :
    kind[p] = "del" /\ pc[p] = "done" /\ gen[p] # None => dev[n] # gen[p]

\* Used the way tests/ublk does, no STOP_DEV, DEL_DEV or recovery ever hits another
\* device than the one the command looked up or made, although devices are named by
\* reusable numbers and both del and the daemon issue DEL_DEV.
OwnOnly == stray => careless

\* Used that way, a recovered device went through recover_tgt, which compares the
\* backing file with the parameters of the device (miniublk.c:590-594, 1543-1567).
RecoverChecked == \A g \in Cmds :
    state[g] = "LIVE" /\ pid[g] # None /\ kind[pid[g]] = "recover" =>
        tgt[pid[g]] = "recover" \/ careless

\* The two ways a node stays open for good: a daemon whose START_DEV waits for a
\* queue that failed in ublk_queue_init, and one whose target could not be set up,
\* which ublk_dev_prep leaves with fds[0] open (miniublk.c:590-596, 841-846).
Wedged(q) == \/ pc[q] = "start" /\ th[q] = "partial"
             \/ pc[q] = "delwait" /\ tgt[q] = "none" /\ "fd" \in hold[q]

\* Every del command ends, unless some daemon is wedged (miniublk.c:1114-1171).
DelEnds == \A p \in Cmds :
    (kind[p] = "del" /\ pc[p] # "new") ~> (pc[p] = "done" \/ \E q \in Cmds : Wedged(q))

-----------------------------------------------------------------------------
(* The inductive invariant of the control plane.                           *)

Alive(p) == pc[p] # "new" /\ ~Ended(p)

\* A command that the tests would wait for before they start another one.
Busy(p) == Alive(p) /\ ~InCharge(p)

\* Which command is where, what it knows by then, who still waits for it, and what
\* it keeps open.
Flow == \A p \in Cmds :
    /\ pc[p] = "add" => kind[p] = "add"
    /\ pc[p] = "info" => kind[p] \in {"recover", "del"}
    /\ pc[p] = "srec" => kind[p] = "recover"
    /\ pc[p] \in {"stop", "poll"} => kind[p] = "del"
    /\ pc[p] \in {"fork", "prep", "start", "serve", "unprep"} => kind[p] \in {"add", "recover"}
    /\ pc[p] \in {"new", "add", "info"} => gen[p] = None
    /\ Alive(p) /\ pc[p] \notin {"add", "info"} => gen[p] # None
    /\ pc[p] \in {"add", "info", "srec", "fork", "stop", "poll"} => fg[p]
    /\ fg[p] => Alive(p) /\ pc[p] \notin {"prep", "start", "serve", "unprep"}
    /\ hold[p] # {} => pc[p] \in {"start", "serve", "unprep", "del", "delwait"}
    /\ pc[p] \in {"start", "serve"} /\ th[p] = "ready" => hold[p] = {"fd", "queues"}

\* Devices and numbers: a number names the device of an add that asked for it, and
\* a command only knows devices that had its number.
Naming ==
    /\ \A n \in Numbers : dev[n] # None =>
          num[dev[n]] = n /\ pc[dev[n]] \notin {"new", "add"}
    /\ \A g \in Cmds : pc[g] \in {"new", "add"} =>
          state[g] = "DEAD" /\ pid[g] = None /\ open[g] = None /\ ~gone[g]
    /\ \A p \in Cmds : gen[p] # None =>
          num[gen[p]] = num[p] /\ pc[gen[p]] \notin {"new", "add"}

\* dev_info: what the state of a device says about its daemon.
DaemonStates ==
    /\ \A g \in Cmds : gone[g] => state[g] = "DEAD"
    /\ \A g \in Cmds : state[g] = "QUIESCED" => pid[g] # None /\ Ended(pid[g])
    /\ \A g \in Cmds : pid[g] # None =>
          pc[pid[g]] \in {"serve", "unprep", "del", "delwait", "done", "killed"}

\* A process keeps the node of the device with its number open, and no other.
Nodes ==
    /\ \A p \in Cmds : hold[p] # {} => Exists(p) /\ open[Dev(p)] = p
    /\ \A g \in Cmds : open[g] # None => hold[open[g]] # {} /\ Dev(open[g]) = g
    /\ \A p \in Cmds : hold[p] # {} /\ pc[p] = "delwait" => Dev(p) = gen[p]

\* LiveServed, of every device ever made.
Live == \A g \in Cmds : state[g] = "LIVE" =>
    /\ dev[num[g]] = g
    /\ pid[g] # None
    /\ pc[pid[g]] = "killed" \/ (pc[pid[g]] = "serve" /\ open[g] = pid[g] /\ th[pid[g]] = "ready"
                                 /\ hold[pid[g]] = {"fd", "queues"})

\* One command at a time.
OneBusy == \A p, q \in Cmds : Busy(p) /\ Busy(q) => p = q

\* A daemon in charge serves a live device, or a del waits for this very daemon.
ServesOrAwaited == \A q \in Cmds : Alive(q) /\ InCharge(q) =>
    \/ pc[q] = "serve" /\ state[gen[q]] = "LIVE"
    \/ \E p \in Cmds : pc[p] = "poll" /\ gen[p] = gen[q] /\ ipid[p] = q

\* A command that is about to start or delete a device has no rival alive.
NoRival ==
    /\ \A p \in Cmds : Busy(p) /\ pc[p] \in {"fork", "prep", "start", "serve", "unprep", "del"} =>
          pid[gen[p]] = None \/ Ended(pid[gen[p]])
    /\ \A p \in Cmds : pc[p] \in {"stop", "poll"} => ipid[p] = pid[gen[p]]

\* The number a command goes by still names its device, or none.
SameDevice == \A p \in Cmds : Alive(p) /\ gen[p] # None => Dev(p) \in {gen[p], None}

\* What recover read is still so when it matters.
FreshInfo ==
    /\ \A p \in Cmds : kind[p] = "recover" /\ pc[p] \in {"info", "srec"} => ~Unnoticed
    /\ \A p \in Cmds : pc[p] = "srec" /\ state[gen[p]] = "QUIESCED" => seen[p] = "QUIESCED"
    /\ \A p \in Cmds : kind[p] = "recover" /\ pc[p] \in {"fork", "prep"} => seen[p] = "QUIESCED"
    /\ \A p \in Cmds : kind[p] = "recover" /\ pc[p] \in {"start", "serve"} => tgt[p] = "recover"

\* What holds as long as the commands are used the way tests/ublk does.
Tidy == OneBusy /\ ServesOrAwaited /\ NoRival /\ SameDevice /\ FreshInfo
Careful == ~careless => Tidy /\ ~stray

\* The inductive invariant of add, recover, del and the daemons against the driver.
DInv == TypeOK /\ Flow /\ Naming /\ DaemonStates /\ Nodes /\ Live /\ NoOrphan /\ DelDone
        /\ Careful /\ RecoverChecked
=============================================================================
