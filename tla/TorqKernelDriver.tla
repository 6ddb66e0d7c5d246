-------------------------- MODULE TorqKernelDriver --------------------------
(***************************************************************************)
(* The Linux driver of the NPU                                              *)
(* (runtime/torq_hw/hal/SL2610/src/torq_core_linux.c).  Threads of user     *)
(* processes open the device, create networks in their open file, write the *)
(* LRAM segments of a network, and START, RUN, WAIT for, STOP and DESTROY   *)
(* it.  One network at a time owns the hardware.                            *)
(*                                                                         *)
(* Locks are taken as in torq_ioctl: the file's inst_mutex, then for some   *)
(* commands the device_lock.  The hardware runs on its own: a job writes    *)
(* LRAM, ends, and raises an interrupt.  The handler is three steps: it     *)
(* reads STATUS, clears it, and completes the completion.  The line is      *)
(* shared (IRQF_SHARED) and the handler does not ask whose interrupt it is, *)
(* so it runs for other devices too, and also when the clock is off.        *)
(*                                                                         *)
(* Left out: clock and reset calls are taken to succeed.  A call that the   *)
(* kernel may refuse (memory, dma-buf, IOMMU) may fail at any time.         *)
(***************************************************************************)
EXTENDS Integers, Sequences

CONSTANTS
  File, Thread, Net,
  Addr, Data,     \* LRAM offsets, and what user programs write there
  Command,        \* the system calls that the threads make
  IdleDomain,     \* where the IOMMU may leave the device without a network
  Bits,           \* bits of the STATUS register other than NSS
  MaxSegments,    \* bound on the segments of a network
  MaxCompletions  \* bound on the completions that interrupts leave

None == "none"
Result == "result"      \* what a job leaves in LRAM
NSS == "NSS"

ASSUME DriverAssumption ==
  /\ MaxSegments \in Nat /\ MaxCompletions \in Nat
  /\ Command \subseteq {"create", "start", "run", "wait", "stop", "destroy",
                         "write", "read", "release"}
  /\ None \notin Net \cup Thread
  /\ "default" \in IdleDomain /\ IdleDomain \cap Net = {}
  /\ Result \notin Data
  /\ NSS \notin Bits

VARIABLES
  files,        \* torq_dev->files
  powered,      \* the core clock is on
  nets,         \* the networks that exist, with their file and segments
  active,       \* torq_dev->active_network
  domain,       \* the IOMMU domain that the device is attached to
  instMutex, deviceLock,
  pc, call,     \* of every thread: where it is, and its system call
  job,          \* hardware: the network whose job runs
  status,       \* hardware: the STATUS register
  lram,         \* hardware: who wrote what at an offset
  irqStatus, handler, completion,
  overrun,      \* ghost: RUN came before its network's previous job had ended
                \* or before the handler had read the STATUS of that job
  late,         \* ghost: RUN came after the handler had read a job's STATUS and
                \* before its complete, and no WAIT has been woken since
  foreign       \* ghost: START found another network's job running

locks == <<instMutex, deviceLock>>
threads == <<pc, call>>
hardware == <<job, status, lram>>
irq == <<irqStatus, handler, completion>>
ghosts == <<overrun, late, foreign>>
networks == <<nets, active, domain>>
vars == <<files, powered, networks, locks, threads, hardware, irq, ghosts>>

(* A word of LRAM: its data, and the network it is of. *)
Empty == [net |-> None, data |-> None]

NoCall == [op |-> None]

Init ==
  /\ files = {} /\ powered = FALSE
  /\ nets = <<>> /\ active = None /\ domain = "default"
  /\ instMutex = [f \in File |-> None] /\ deviceLock = None
  /\ pc = [t \in Thread |-> "user"]
  /\ call = [t \in Thread |-> NoCall]
  /\ job = None /\ status = {} /\ lram = [a \in Addr |-> Empty]
  /\ irqStatus = {} /\ handler = "idle" /\ completion = 0
  /\ overrun = FALSE /\ late = FALSE /\ foreign = FALSE
-----------------------------------------------------------------------------
(* Entering and leaving the driver. *)

Uses(t, f) == pc[t] # "user" /\ call[t].file = f

Goto(t, l) == pc' = [pc EXCEPT ![t] = l] /\ UNCHANGED call

Unlock(t) ==
  /\ instMutex' = [f \in File |-> IF instMutex[f] = t THEN None ELSE instMutex[f]]
  /\ deviceLock' = IF deviceLock = t THEN None ELSE deviceLock

Return(t) ==
  /\ Unlock(t)
  /\ pc' = [pc EXCEPT ![t] = "user"]
  /\ call' = [call EXCEPT ![t] = NoCall]

(* torq_open, under files_mutex *)
Open(f) ==
  /\ f \notin files
  /\ files' = files \cup {f}
  /\ powered' = IF files = {} THEN TRUE ELSE powered
  /\ UNCHANGED <<networks, locks, threads, hardware, irq, ghosts>>

(* A thread makes a system call with any network id, its own, another       *)
(* file's or one that is gone.  The kernel releases a file after the last   *)
(* system call on it has returned.                                          *)
Enter(t) ==
  /\ pc[t] = "user"
  /\ \E f \in files, op \in Command, n \in Net, a \in Addr, d \in Data,
        b \in SUBSET (Bits \cup {NSS}) :
       /\ \A u \in Thread : Uses(u, f) => op # "release" /\ call[u].op # "release"
       /\ call' = [call EXCEPT ![t] =
            CASE op \in {"create", "release"} -> [op |-> op, file |-> f]
              [] op = "write" -> [op |-> op, file |-> f, net |-> n, addr |-> a, data |-> d]
              [] op = "read" -> [op |-> op, file |-> f, net |-> n, addr |-> a]
              [] op = "wait" -> [op |-> op, file |-> f, net |-> n, bits |-> b]
              [] OTHER -> [op |-> op, file |-> f, net |-> n]]
  /\ pc' = [pc EXCEPT ![t] = "inst"]
  /\ UNCHANGED <<files, powered, networks, locks, hardware, irq, ghosts>>

RequireDeviceLock(op) == op \in {"start", "run", "wait", "stop", "destroy", "release"}

(* Mutant: writes do not take the file's mutex. *)
LockInstNotToWrite(t) ==
  /\ pc[t] = "inst"
  /\ call[t].op # "write" => instMutex[call[t].file] = None
  /\ instMutex' = IF call[t].op = "write" THEN instMutex
                  ELSE [instMutex EXCEPT ![call[t].file] = t]
  /\ Goto(t, IF RequireDeviceLock(call[t].op) THEN "device" ELSE "body")
  /\ UNCHANGED <<files, powered, networks, deviceLock, hardware, irq, ghosts>>

LockInst(t) ==
  /\ pc[t] = "inst"
  /\ instMutex[call[t].file] = None
  /\ instMutex' = [instMutex EXCEPT ![call[t].file] = t]
  /\ Goto(t, IF RequireDeviceLock(call[t].op) THEN "device" ELSE "body")
  /\ UNCHANGED <<files, powered, networks, deviceLock, hardware, irq, ghosts>>

LockDevice(t) ==
  /\ pc[t] = "device"
  /\ deviceLock = None
  /\ deviceLock' = t
  /\ Goto(t, "body")
  /\ UNCHANGED <<files, powered, networks, instMutex, hardware, irq, ghosts>>

In(t, op) == pc[t] = "body" /\ call[t].op = op

(* torq_find_network_in_instance *)
Find(t) == /\ call[t].net \in DOMAIN nets
           /\ nets[call[t].net].file = call[t].file

(* A call that returns without effect. *)
NoEffect(t, op, condition) ==
  /\ In(t, op)
  /\ condition
  /\ Return(t)
  /\ UNCHANGED <<files, powered, networks, hardware, irq, ghosts>>
-----------------------------------------------------------------------------
(* torq_create_network *)
CreateNetwork(t) ==
  \/ NoEffect(t, "create", TRUE)   \* ENOMEM
  \/ /\ In(t, "create")
     /\ \E n \in Net \ DOMAIN nets :
          nets' = [m \in DOMAIN nets \cup {n} |->
                     IF m = n THEN [file |-> call[t].file, mapped |-> FALSE, segs |-> <<>>]
                              ELSE nets[m]]
     /\ Return(t)
     /\ UNCHANGED <<files, powered, active, domain, hardware, irq, ghosts>>

(* The networks that are left when those in ns have been freed. *)
Without(ns) == [n \in DOMAIN nets \ ns |-> nets[n]]

(* Mutant: the device stays in the network's domain. *)
DetachKeepsDomain == active' = None /\ UNCHANGED domain

(* The device goes back to the default domain, if the IOMMU lets it. *)
Detach == active' = None /\ domain' \in IdleDomain

(* torq_start_network up to line 377. *)
StartNetwork(t) ==
  LET n == call[t].net IN
  \/ NoEffect(t, "start", ~Find(t))   \* ENOENT
  \/ NoEffect(t, "start", Find(t) /\ active # None)   \* EBUSY
  \/ \* the buffer or the domain cannot be attached
     NoEffect(t, "start", Find(t) /\ active = None)   \* EIO
  \/ /\ In(t, "start") /\ Find(t) /\ active = None
     /\ \/ \* the buffer cannot be mapped: back to the default domain
           /\ ~nets[n].mapped
           /\ domain' \in IdleDomain
           /\ Return(t)
           /\ UNCHANGED <<nets, active, ghosts>>
        \/ /\ nets' = [nets EXCEPT ![n].mapped = TRUE]
           /\ domain' = n
           /\ active' = n
           /\ foreign' = (job # None)
           /\ Goto(t, "commit")
           /\ UNCHANGED <<locks, overrun, late>>
     /\ UNCHANGED <<files, powered, hardware, irq>>

(* torq_commit_network_lram: all segments in the order of their list *)
Committed(n) ==
  [a \in Addr |->
     LET segs == nets[n].segs
         here == {i \in DOMAIN segs : segs[i].addr = a}
         last == CHOOSE i \in here : \A j \in here : j <= i
     IN  IF here = {} THEN lram[a] ELSE [net |-> n, data |-> segs[last].data]]

(* Mutant: the segments are not loaded. *)
StartSkipsCommit(t) ==
  /\ pc[t] = "commit"
  /\ Goto(t, "reset")
  /\ UNCHANGED <<files, powered, networks, locks, hardware, irq, ghosts>>

StartCommit(t) ==
  /\ pc[t] = "commit"
  /\ lram' = Committed(call[t].net)
  /\ Goto(t, "reset")
  /\ UNCHANGED <<files, powered, networks, locks, job, status, irq, ghosts>>

(* Mutant: no reset. *)
StartNoReset(t) ==
  /\ pc[t] = "reset"
  /\ Return(t)
  /\ UNCHANGED <<files, powered, networks, hardware, irq, ghosts>>

(* The core's reset ends the job that still runs; LRAM keeps its contents. *)
StartReset(t) ==
  /\ pc[t] = "reset"
  /\ job' = None
  /\ status' = {}
  /\ overrun' = FALSE
  /\ Return(t)
  /\ UNCHANGED <<files, powered, networks, lram, irq, late, foreign>>

Overtakes == /\ overrun' = (job # None \/ NSS \in status)
             /\ late' = (handler # "idle" /\ NSS \in irqStatus)

(* Mutant: the completion of the previous job is kept. *)
RunKeepsCompletion(t) ==
  \/ NoEffect(t, "run", ~Find(t))   \* ENOENT
  \/ NoEffect(t, "run", Find(t) /\ active # call[t].net)   \* ENODEV
  \/ /\ In(t, "run") /\ Find(t) /\ active = call[t].net
     /\ job' = call[t].net
     /\ Overtakes
     /\ Return(t)
     /\ UNCHANGED <<files, powered, networks, status, lram, irq, foreign>>

(* torq_run_network: writing START supersedes a job that runs *)
RunNetwork(t) ==
  \/ NoEffect(t, "run", ~Find(t))   \* ENOENT
  \/ NoEffect(t, "run", Find(t) /\ active # call[t].net)   \* ENODEV
  \/ /\ In(t, "run") /\ Find(t) /\ active = call[t].net
     /\ completion' = 0
     /\ job' = call[t].net
     /\ Overtakes
     /\ Return(t)
     /\ UNCHANGED <<files, powered, networks, status, lram, irqStatus, handler, foreign>>

(* torq_wait_network up to the wait, which keeps both locks *)
WaitNetwork(t) ==
  \/ NoEffect(t, "wait", ~Find(t))   \* ENOENT
  \/ NoEffect(t, "wait", Find(t) /\ active # call[t].net)   \* ENODEV
  \/ /\ In(t, "wait") /\ Find(t) /\ active = call[t].net
     /\ Goto(t, "waiting")
     /\ UNCHANGED <<files, powered, networks, locks, hardware, irq, ghosts>>

WaitCompletes(t) ==
  /\ pc[t] = "waiting"
  /\ completion > 0
  /\ completion' = completion - 1
  /\ Goto(t, "woken")
  /\ UNCHANGED <<files, powered, networks, locks, hardware, irqStatus, handler, ghosts>>

(* WAIT reads interrupt_status, which the handler may have written again. *)
WaitReads(t) ==
  /\ pc[t] = "woken"
  /\ late' = FALSE
  /\ Return(t)   \* 0, or EIO
  /\ UNCHANGED <<files, powered, networks, hardware, irq, overrun, foreign>>

(* Mutant: the wait has no timeout. *)
WaitForever(t) == FALSE /\ UNCHANGED vars

WaitTimesOut(t) ==
  /\ pc[t] = "waiting"
  /\ completion = 0
  /\ Return(t)
  /\ UNCHANGED <<files, powered, networks, hardware, irq, ghosts>>

(* torq_stop_network, torq_detach_network_domain: the job is not stopped *)
StopNetwork(t) ==
  \/ NoEffect(t, "stop", ~Find(t))   \* ENOENT
  \/ NoEffect(t, "stop", Find(t) /\ active # call[t].net)   \* EPERM
  \/ /\ In(t, "stop") /\ Find(t) /\ active = call[t].net
     /\ Detach
     /\ Return(t)
     /\ UNCHANGED <<files, powered, nets, hardware, irq, ghosts>>

(* Mutant: an active network can be destroyed, and is not detached. *)
DestroyActive(t) ==
  \/ NoEffect(t, "destroy", ~Find(t))   \* ENOENT
  \/ /\ In(t, "destroy") /\ Find(t)
     /\ nets' = Without({call[t].net})
     /\ Return(t)
     /\ UNCHANGED <<files, powered, active, domain, hardware, irq, ghosts>>

(* torq_destroy_network, torq_cleanup_network_resources *)
DestroyNetwork(t) ==
  \/ NoEffect(t, "destroy", ~Find(t))   \* ENOENT
  \/ NoEffect(t, "destroy", Find(t) /\ active = call[t].net)   \* EBUSY
  \/ /\ In(t, "destroy") /\ Find(t) /\ active # call[t].net
     /\ nets' = Without({call[t].net})
     /\ Return(t)
     /\ UNCHANGED <<files, powered, active, domain, hardware, irq, ghosts>>

(* torq_write_lram.  The network is looked up and compared with the active  *)
(* one without the device_lock; if the segment cannot be recorded, the data *)
(* is written to the hardware all the same.                                 *)
WriteLram(t) ==
  LET n == call[t].net
      segment == [addr |-> call[t].addr, data |-> call[t].data] IN
  \/ NoEffect(t, "write", TRUE)   \* ENOMEM
  \/ NoEffect(t, "write", ~Find(t))   \* ENOENT
  \/ /\ In(t, "write") /\ Find(t)
     /\ \/ /\ Len(nets[n].segs) < MaxSegments
           /\ nets' = [nets EXCEPT ![n].segs = Append(@, segment)]
        \/ UNCHANGED nets
     /\ IF active = n THEN Goto(t, "wlock") /\ UNCHANGED locks
                      ELSE Return(t)
     /\ UNCHANGED <<files, powered, active, domain, hardware, irq, ghosts>>

WriteLock(t) ==
  /\ pc[t] = "wlock"
  /\ deviceLock = None
  /\ deviceLock' = t
  /\ Goto(t, "wcommit")
  /\ UNCHANGED <<files, powered, networks, instMutex, hardware, irq, ghosts>>

WriteCommit(t) ==
  /\ pc[t] = "wcommit"
  /\ lram' = [lram EXCEPT ![call[t].addr] = [net |-> call[t].net, data |-> call[t].data]]
  /\ Return(t)
  /\ UNCHANGED <<files, powered, networks, job, status, irq, ghosts>>

(* torq_read_lram copies out the first segment at the offset. *)
ReadLram(t) == NoEffect(t, "read", TRUE)   \* 0, or ENOENT

(* torq_release: all networks of the file, then the file itself *)
ReleaseNetworks(t) ==
  LET mine == {n \in DOMAIN nets : nets[n].file = call[t].file} IN
  /\ In(t, "release")
  /\ IF active \in mine THEN Detach ELSE UNCHANGED <<active, domain>>
  /\ nets' = Without(mine)
  /\ Unlock(t)
  /\ Goto(t, "delfile")
  /\ UNCHANGED <<files, powered, hardware, irq, ghosts>>

(* Mutant: every release turns the clock off. *)
ReleaseAlwaysPowersOff(t) ==
  /\ pc[t] = "delfile"
  /\ files' = files \ {call[t].file}
  /\ powered' = FALSE
  /\ Return(t)
  /\ UNCHANGED <<networks, hardware, irq, ghosts>>

ReleaseFile(t) ==
  /\ pc[t] = "delfile"
  /\ files' = files \ {call[t].file}
  /\ powered' = IF files' = {} THEN FALSE ELSE powered
  /\ Return(t)
  /\ UNCHANGED <<networks, hardware, irq, ghosts>>
-----------------------------------------------------------------------------
(* The hardware and its interrupt. *)

JobWrites(a) ==
  /\ job # None /\ powered
  /\ lram' = [lram EXCEPT ![a] = [net |-> job, data |-> Result]]
  /\ UNCHANGED <<files, powered, networks, locks, threads, job, status, irq, ghosts>>

JobEnds ==
  /\ job # None /\ powered
  /\ job' = None
  /\ \E b \in SUBSET Bits : status' = status \cup {NSS} \cup b
  /\ UNCHANGED <<files, powered, networks, locks, threads, lram, irq, ghosts>>

(* torq_synpu_irq_handler, for the NPU or for another device on the line,   *)
(* which may be at any time.  With the clock off the value that is read may *)
(* be any, and the write does nothing.                                      *)
IrqStatus ==
  /\ handler = "idle"
  /\ completion < MaxCompletions
  /\ IF powered THEN irqStatus' = status ELSE irqStatus' \in SUBSET (Bits \cup {NSS})
  /\ handler' = "clear"
  /\ UNCHANGED <<files, powered, networks, locks, threads, hardware, completion, ghosts>>

IrqClear ==
  /\ handler = "clear"
  /\ status' = IF powered THEN status \ {NSS} ELSE status
  /\ handler' = "complete"
  /\ UNCHANGED <<files, powered, networks, locks, threads, job, lram,
                 irqStatus, completion, ghosts>>

IrqComplete ==
  /\ handler = "complete"
  /\ handler' = "idle"
  /\ completion' = completion + 1
  /\ UNCHANGED <<files, powered, networks, locks, threads, hardware, irqStatus, ghosts>>
-----------------------------------------------------------------------------
Locking(t) == LockInst(t) \/ LockDevice(t) \/ WriteLock(t)

Working(t) ==
  \/ CreateNetwork(t) \/ StartNetwork(t) \/ StartCommit(t) \/ StartReset(t)
  \/ RunNetwork(t) \/ WaitNetwork(t) \/ WaitCompletes(t) \/ WaitReads(t)
  \/ WaitTimesOut(t) \/ StopNetwork(t) \/ DestroyNetwork(t) \/ WriteLram(t)
  \/ WriteCommit(t) \/ ReadLram(t) \/ ReleaseNetworks(t) \/ ReleaseFile(t)

Hardware == \/ \E a \in Addr : JobWrites(a)
            \/ JobEnds \/ IrqStatus \/ IrqClear \/ IrqComplete

Next ==
  \/ \E f \in File : Open(f)
  \/ \E t \in Thread : Enter(t) \/ Locking(t) \/ Working(t)
  \/ Hardware

Spec == Init /\ [][Next]_vars

(* A thread in the driver keeps running, and a mutex that is free again and *)
(* again is given to every thread that waits for it (Linux hands a mutex    *)
(* over to a waiter that was passed by).  Nothing is assumed of the         *)
(* hardware or of the user programs.                                        *)
FairSpec == /\ Spec
            /\ \A t \in Thread : WF_vars(Working(t)) /\ SF_vars(Locking(t))
-----------------------------------------------------------------------------
Starting == \E t \in Thread : pc[t] \in {"commit", "reset"}

(* While nobody holds the device_lock, the device is attached to the domain *)
(* of the active network, and to no network's domain if none is active      *)
(* (torq_start_network, torq_detach_network_domain and their error paths).  *)
DomainFollowsActive ==
  deviceLock = None =>
    IF active = None THEN domain \in IdleDomain ELSE domain = active

(* The active network and the domain that the device uses have not been     *)
(* freed by torq_destroy_network or torq_release.                           *)
NoFreedNetworkInUse == {active, domain} \cap Net \subseteq DOMAIN nets

(* torq_write_lram looks at active_network without the device_lock, and yet *)
(* what it writes to the hardware is written for the active network: the    *)
(* network can be stopped only through the file whose mutex is held.        *)
WritesReachTheirNetwork ==
  \A t \in Thread : pc[t] = "wcommit" => active = call[t].net

(* Once START has returned no job of another network runs: the reset ended  *)
(* the one that STOP or a timed-out WAIT had left behind.                   *)
NoForeignJob == active # None /\ ~Starting => job \in {None, active}

(* A job finds at the offsets of its network's segments what the network    *)
(* put there, by START, WRITE_LRAM or an earlier job, and never what        *)
(* another network left, provided START found the hardware idle.            *)
JobFindsItsLram ==
  job # None /\ job = active /\ ~Starting /\ ~foreign =>
    \A i \in DOMAIN nets[job].segs :
      LET a == nets[job].segs[i].addr
      IN  \/ lram[a].net = job
          \/ \E t \in Thread : pc[t] \in {"wlock", "wcommit"} /\ call[t].net = job
                               /\ call[t].addr = a

(* WAIT was asked for the end of the job (the bit NSS), and finds that bit  *)
(* and the others it was asked for in interrupt_status.                     *)
WaitSucceeds(t) == /\ pc[t] = "woken" /\ pc'[t] = "user"
                   /\ NSS \in call[t].bits /\ call[t].bits \subseteq irqStatus

(* A WAIT for NSS that returns 0 while a job runs has one of two reasons.   *)
(* Either the program gave RUN while its own network's previous job, or the *)
(* interrupt of that job, was outstanding (overrun).  Or RUN, of any        *)
(* network, fell between the handler's readl of STATUS and its complete     *)
(* (late), which reinit_completion does not undo and the reset of START     *)
(* does not wait for; and then it is one WAIT at most.  In every other case *)
(* no completion of an earlier job, of an earlier network or of another     *)
(* device on the line is taken for the end of the job.                      *)
WaitMeansFinished ==
  [][\A t \in Thread :
       WaitSucceeds(t) => job = None \/ overrun \/ late]_vars

(* A system call that writes registers or LRAM, or waits for the NPU. *)
UsesHardware(t) ==
  \/ pc[t] \in {"commit", "reset", "waiting", "wcommit"}
  \/ In(t, "run") /\ Find(t) /\ active = call[t].net

(* System calls write registers and LRAM, and wait for the NPU, only while  *)
(* the clock is on, although files come and go on other threads.  It is not *)
(* so for the interrupt handler: the last release turns the clock off and   *)
(* leaves a job, its interrupt and the shared line as they are.             *)
CallsAreClocked == \A t \in Thread : UsesHardware(t) => powered

(* Every system call returns, though WAIT keeps both locks while it waits   *)
(* for a job that may never end: there is no deadlock between inst_mutex,   *)
(* device_lock and the completion.                                          *)
CallReturns == \A t \in Thread : pc[t] # "user" ~> pc[t] = "user"

(* The steps of the driver between which a START is half done are hidden:   *)
(* for other programs the network becomes active when START has reset the   *)
(* hardware.                                                                *)
Npu == INSTANCE NpuDriver
         WITH owner <- [n \in DOMAIN nets |-> nets[n].file],
              active <- IF Starting THEN None ELSE active

(* Every step of the driver, its locks and its interrupt handler is a call  *)
(* of the abstract driver or invisible: whatever two threads do, a network  *)
(* becomes active only when none is, is destroyed only while it is not, and *)
(* a file goes only after its networks, of which the active one is stopped. *)
ImplementsNpuDriver == Npu!Spec
=============================================================================
