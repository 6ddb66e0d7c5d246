----------------------------- MODULE TorqSession -----------------------------
(***************************************************************************)
(* Running an executable on the NPU through the kernel driver:              *)
(* iree_hal_torq_native_executable_run (runtime/driver/                     *)
(* native_executable.cc) with a TorqAstraMachina (runtime/torq_hw/src/      *)
(* TorqAstraMachina.cpp).  Threads of several processes run executables;    *)
(* a process has one session lock, and may be killed at any time.  The      *)
(* kernel is NpuDriver, which TorqKernelDriver implements; a thread has at  *)
(* most one device file, so the files are named after the threads.          *)
(*                                                                         *)
(* A step is one system call, or what happens between two.  A system call   *)
(* that sets something up may fail.  Left out: dumps and profiling, the     *)
(* contents of XRAM.                                                        *)
(***************************************************************************)
EXTENDS Integers, Sequences

CONSTANTS
  Thread,
  Layouts,             \* how the threads may be spread over processes
  Net,
  Program,             \* the host actions of the executable
  XramStarts,          \* where the XRAM of an executable may begin: xram_base
  XramSize,            \* how much XRAM it has: xram_size
  MaxRetries,          \* kMaxRetries
  MaxRuns              \* bound on the runs of all threads

None == "none"

(* The compiler puts a wait behind every start                              *)
(* (LowerCallProgramToStartWaitPass).                                       *)
ASSUME SessionAssumption ==
  /\ \A l \in Layouts : DOMAIN l = Thread
  /\ None \notin Net
  /\ Program \in Seq({"start", "wait", "copy", "host"})
  /\ Len(Program) > 0
  /\ \A k \in DOMAIN Program : Program[k] = "start" =>
       \E m \in k + 1 .. Len(Program) : Program[m] = "wait"
  /\ XramStarts \subseteq Nat /\ XramSize \in Nat \ {0}
  /\ MaxRetries \in Nat \ {0} /\ MaxRuns \in Nat

VARIABLES
  processOf,      \* the process of every thread
  files, owner, active, job,   \* the kernel and the hardware
  sessionLock,    \* of every process: _session_lock is locked
  pc,             \* of every thread: where it is
  after,          \* where close() returns to
  torq,           \* the TorqAstraMachina of every thread
  run,            \* the locals of run and of its ExecutionContext
  runs            \* the number of runs begun

kernel == <<files, owner, active, job>>
vars == <<processOf, kernel, sessionLock, pc, after, torq, run, runs>>

Npu == INSTANCE NpuDriver WITH File <- Thread

Process == {processOf[t] : t \in Thread}

(* The members of a TorqAstraMachina.  The constructor does not set the two *)
(* device nodes ("unset").  A node that could not be opened is -1           *)
(* ("failed"), one that was closed is 0 ("zero").  Not a member: "mapped",  *)
(* the pages of this session's buffer that the process has mapped.          *)
Constructed == [torqDevNode |-> "unset", dmabufDevNode |-> "unset",
                dmabufHandle |-> FALSE, xramVBase |-> "null",
                networkId |-> None, networkActive |-> FALSE,
                xramStartAddr |-> 0, mapped |-> 0]

Closed == [Constructed EXCEPT !.torqDevNode = "zero", !.dmabufDevNode = "zero"]

(* alignXram(): the buffer begins at the page that xramStartAddr lies in;   *)
(* the pages of its aligned size, and those that munmap is told of.         *)
Page == 4096
Pages(size) == (size + Page - 1) \div Page

AlignOffset(h) == h.xramStartAddr % Page
PagesMapped(h) == Pages(XramSize + AlignOffset(h))
PagesUnmapped == Pages(XramSize)

(* "unread" is a ghost: a job was started and has not been waited for. *)
NewRun == [retries |-> 0, actionIndex |-> 1, ok |-> TRUE, unread |-> FALSE]

Init ==
  /\ processOf \in Layouts
  /\ Npu!Init
  /\ sessionLock = [p \in Process |-> FALSE]
  /\ pc = [t \in Thread |-> "idle"]
  /\ after = [t \in Thread |-> None]
  /\ torq = [t \in Thread |-> Closed]
  /\ run = [t \in Thread |-> NewRun]
  /\ runs = 0
-----------------------------------------------------------------------------
Goto(t, l) == pc' = [pc EXCEPT ![t] = l] /\ UNCHANGED after

(* Call close(), and go on at l when it returns. *)
CallClose(t, l) ==
  /\ pc' = [pc EXCEPT ![t] = "stop"]
  /\ after' = [after EXCEPT ![t] = l]

(* An ioctl on _torqDevNode reaches the driver. *)
Valid(t) == torq[t].torqDevNode = "open" /\ t \in files

Set(t, member, value) == torq' = [torq EXCEPT ![t][member] = value]

(* newTorqHw, and the constructor *)
Begin(t) ==
  /\ pc[t] = "idle" /\ runs < MaxRuns
  /\ runs' = runs + 1
  /\ \E x \in XramStarts :
       torq' = [torq EXCEPT ![t] = [Constructed EXCEPT !.xramStartAddr = x]]
  /\ Goto(t, "lock")
  /\ UNCHANGED <<kernel, sessionLock, run>>

(* open() *)
Lock(t) ==
  /\ pc[t] = "lock"
  /\ ~sessionLock[processOf[t]]
  /\ sessionLock' = [sessionLock EXCEPT ![processOf[t]] = TRUE]
  /\ Goto(t, "open")
  /\ UNCHANGED <<kernel, torq, run, runs>>

OpenNode(t) ==
  /\ pc[t] = "open"
  /\ \/ Npu!Open(t) /\ Set(t, "torqDevNode", "open") /\ Goto(t, "xram")
     \/ Set(t, "torqDevNode", "failed") /\ CallClose(t, "destroy") /\ UNCHANGED kernel
  /\ UNCHANGED <<sessionLock, run, runs>>

SetupXramSpace(t) ==
  /\ pc[t] = "xram"
  /\ \/ /\ torq' = [torq EXCEPT ![t].dmabufDevNode = "failed"]
        /\ CallClose(t, "destroy")
     \/ /\ torq' = [torq EXCEPT ![t].dmabufDevNode = "open"]
        /\ CallClose(t, "destroy")
     \/ /\ torq' = [torq EXCEPT ![t].dmabufDevNode = "open", ![t].dmabufHandle = TRUE,
                                ![t].xramVBase = "failed"]
        /\ CallClose(t, "destroy")
     \/ /\ torq' = [torq EXCEPT ![t].dmabufDevNode = "open", ![t].dmabufHandle = TRUE,
                                ![t].xramVBase = "mapped", ![t].mapped = PagesMapped(torq[t])]
        /\ Goto(t, "create")
  /\ UNCHANGED <<kernel, sessionLock, run, runs>>

(* The driver maps XRAM by whole pages: it refuses any other address.       *)
CreateNetwork(t) ==
  /\ pc[t] = "create"
  /\ \/ /\ Valid(t) /\ AlignOffset(torq[t]) = 0
        /\ \E n \in Net : Npu!CreateNetwork(t, n) /\ Set(t, "networkId", n)
        /\ Goto(t, "prepare")
     \/ CallClose(t, "destroy") /\ UNCHANGED <<kernel, torq>>
  /\ UNCHANGED <<sessionLock, run, runs>>
-----------------------------------------------------------------------------
(* The body of run between open() and close(). *)

(* The segments and the input bindings are written to XRAM.  An error       *)
(* returns without close().                                                 *)
Prepare(t) ==
  /\ pc[t] = "prepare"
  /\ Goto(t, "load") \/ Goto(t, "destroy")
  /\ UNCHANGED <<kernel, sessionLock, torq, run, runs>>

(* Mutant: load() does not look at what startNetwork() returned. *)
LoadIgnoresBusy(t) ==
  /\ pc[t] = "load"
  /\ Npu!StartNetwork(t, torq[t].networkId) \/ UNCHANGED kernel
  /\ Set(t, "networkActive", TRUE) /\ Goto(t, "run")
  /\ UNCHANGED <<sessionLock, run, runs>>

(* load(), startNetwork(): EBUSY is retried, any other error returns. *)
Load(t) ==
  /\ pc[t] = "load"
  /\ \/ /\ Valid(t) /\ Npu!StartNetwork(t, torq[t].networkId)
        /\ Set(t, "networkActive", TRUE) /\ Goto(t, "run")
        /\ UNCHANGED run
     \/ /\ Valid(t) /\ active # None
        /\ run' = [run EXCEPT ![t].retries = @ + 1]
        /\ Goto(t, IF run[t].retries = MaxRetries - 1 THEN "destroy" ELSE "load")
        /\ UNCHANGED <<kernel, torq>>
     \/ Goto(t, "destroy") /\ UNCHANGED <<kernel, torq, run>>
  /\ UNCHANGED <<sessionLock, runs>>

Action(t, kind) ==
  pc[t] = "run" /\ Program[run[t].actionIndex] = kind

(* processAction succeeded: the next one, or the end of the loop. *)
NextAction(t, unread) ==
  /\ run' = [run EXCEPT ![t].actionIndex = @ + 1, ![t].unread = unread]
  /\ Goto(t, IF run[t].actionIndex = Len(Program) THEN "release" ELSE "run")

(* processAction returned an error. *)
ActionFails(t) ==
  /\ run' = [run EXCEPT ![t].ok = FALSE]
  /\ Goto(t, "release")
  /\ UNCHANGED kernel

(* processStartNSSAction, start(), runNetwork() *)
StartNSS(t) ==
  /\ Action(t, "start")
  /\ \/ /\ Valid(t) /\ torq[t].networkActive
        /\ Npu!RunNetwork(t, torq[t].networkId)
        /\ NextAction(t, TRUE)
     \/ ActionFails(t)
  /\ UNCHANGED <<sessionLock, torq, runs>>

(* Mutant: the result of wait() is not looked at. *)
WaitNSSIgnoresTimeout(t) ==
  /\ Action(t, "wait")
  /\ NextAction(t, FALSE)
  /\ UNCHANGED <<kernel, sessionLock, torq, runs>>

(* processWaitNSSAction, wait(), waitNetwork(): the driver returns 0 when   *)
(* the job has ended (but for the late completions that WaitMeansFinished   *)
(* of TorqKernelDriver sets apart), and an error after its timeout.         *)
WaitNSS(t) ==
  /\ Action(t, "wait")
  /\ \/ /\ Valid(t) /\ active = torq[t].networkId /\ job # torq[t].networkId
        /\ NextAction(t, FALSE)
        /\ UNCHANGED kernel
     \/ ActionFails(t)
  /\ UNCHANGED <<sessionLock, torq, runs>>

(* processHostCopyAction: LRAM is accessed only while the network is active *)
HostCopy(t) ==
  /\ Action(t, "copy")
  /\ \/ /\ Valid(t) /\ torq[t].networkActive
        /\ NextAction(t, run[t].unread) /\ UNCHANGED kernel
     \/ ActionFails(t)
  /\ UNCHANGED <<sessionLock, torq, runs>>

(* loadHostCode, processStartHostAction: the function may be missing *)
StartHost(t) ==
  /\ Action(t, "host")
  /\ \/ NextAction(t, run[t].unread) /\ UNCHANGED kernel
     \/ ActionFails(t)
  /\ UNCHANGED <<sessionLock, torq, runs>>

(* release(): _networkActive is cleared even when STOP fails. *)
Release(t) ==
  /\ pc[t] = "release"
  /\ \/ Valid(t) /\ Npu!StopNetwork(t, torq[t].networkId)
     \/ ~(Valid(t) /\ active = torq[t].networkId) /\ UNCHANGED kernel
  /\ Set(t, "networkActive", FALSE)
  /\ IF run[t].ok THEN Goto(t, "readback") ELSE CallClose(t, "destroy")
  /\ UNCHANGED <<sessionLock, run, runs>>

(* The output bindings are read from XRAM; an error returns without close() *)
ReadBack(t) ==
  /\ pc[t] = "readback"
  /\ CallClose(t, "destroy") \/ Goto(t, "destroy")
  /\ UNCHANGED <<kernel, sessionLock, torq, run, runs>>
-----------------------------------------------------------------------------
(* close(), called by open(), by run and by the destructor *)

(* stopNetwork(); a failure is ignored *)
CloseStops(t) ==
  /\ pc[t] = "stop"
  /\ IF torq[t].networkActive /\ Valid(t) /\ active = torq[t].networkId
     THEN Npu!StopNetwork(t, torq[t].networkId)
     ELSE UNCHANGED kernel
  /\ Goto(t, "drop")
  /\ UNCHANGED <<sessionLock, torq, run, runs>>

(* destroyNetwork(), if there is a network *)
CloseDestroys(t) ==
  /\ pc[t] = "drop"
  /\ IF torq[t].networkId # None /\ Valid(t)
     THEN /\ Npu!DestroyNetwork(t, torq[t].networkId)
          /\ torq' = [torq EXCEPT ![t].networkId = None, ![t].networkActive = FALSE]
     ELSE UNCHANGED <<kernel, torq>>
  /\ Goto(t, "unmap")
  /\ UNCHANGED <<sessionLock, run, runs>>

(* ::close of a member that was never set: it may be any number, that of    *)
(* another session's device file included.                                  *)
CloseUnset(t) ==
  \/ UNCHANGED kernel
  \/ \E u \in Thread \ {t} :
       /\ processOf[u] = processOf[t] /\ Valid(u)
       /\ owner' = Npu!Without({n \in DOMAIN owner : owner[n] = u})
       /\ active' = IF active \in DOMAIN owner' THEN active ELSE None
       /\ files' = files \ {u}
       /\ UNCHANGED job

(* munmap, the buffer and the dma heap: what was mapped is not all unmapped *)
(* when the buffer begins before xramStartAddr.                             *)
CloseXram(t) ==
  /\ pc[t] = "unmap"
  /\ torq' = [torq EXCEPT ![t].dmabufHandle = FALSE, ![t].dmabufDevNode = "zero",
                          ![t].xramVBase = IF @ = "mapped" THEN "null" ELSE @,
                          ![t].mapped = IF torq[t].xramVBase = "mapped"
                                        THEN @ - PagesUnmapped ELSE @]
  /\ IF torq[t].dmabufDevNode = "unset" THEN CloseUnset(t) ELSE UNCHANGED kernel
  /\ Goto(t, "node")
  /\ UNCHANGED <<sessionLock, run, runs>>

(* ::close(_torqDevNode): the kernel releases the networks, then the file *)
CloseNode(t) ==
  /\ pc[t] = "node"
  /\ IF Valid(t) THEN Npu!ReleaseNetworks(t) /\ Goto(t, "file")
                 ELSE UNCHANGED kernel /\ Goto(t, "unlock")
  /\ Set(t, "torqDevNode", "zero")
  /\ UNCHANGED <<sessionLock, run, runs>>

CloseFile(t) ==
  /\ pc[t] = "file"
  /\ Npu!ReleaseFile(t)
  /\ Goto(t, "unlock")
  /\ UNCHANGED <<sessionLock, torq, run, runs>>

(* Back to run or its caller; the locals of run end with it. *)
ReturnFromClose(t) ==
  /\ pc' = [pc EXCEPT ![t] = after[t]]
  /\ after' = [after EXCEPT ![t] = None]
  /\ run' = IF after[t] = "idle" THEN [run EXCEPT ![t] = NewRun] ELSE run

(* Mutant: the lock is given back only by the session that succeeded. *)
UnlockIfOk(t) ==
  /\ pc[t] = "unlock"
  /\ sessionLock' = [sessionLock EXCEPT ![processOf[t]] = @ /\ ~(run[t].ok /\ after[t] = "destroy")]
  /\ ReturnFromClose(t)
  /\ UNCHANGED <<kernel, torq, runs>>

(* The lock is unlocked whoever holds it. *)
Unlock(t) ==
  /\ pc[t] = "unlock"
  /\ sessionLock' = [sessionLock EXCEPT ![processOf[t]] = FALSE]
  /\ ReturnFromClose(t)
  /\ UNCHANGED <<kernel, torq, runs>>

(* Mutant: the destructor does not call close(). *)
DestructorOnly(t) ==
  /\ pc[t] = "destroy"
  /\ Goto(t, "idle")
  /\ UNCHANGED <<kernel, sessionLock, torq, run, runs>>

(* The destructor runs when run returns: what it does for an active network *)
(* is what close() then does.                                               *)
Destructor(t) ==
  /\ pc[t] = "destroy"
  /\ CallClose(t, "idle")
  /\ UNCHANGED <<kernel, sessionLock, torq, run, runs>>
-----------------------------------------------------------------------------
(* A process is killed; the kernel closes the files of its threads, and the *)
(* process is started anew.                                                 *)
Kill(p) ==
  LET mine == {t \in Thread : processOf[t] = p} IN
  /\ \E t \in mine : pc[t] \notin {"idle", "killed", "killed file"}
  /\ \A t \in mine : pc[t] \notin {"killed", "killed file"}
  /\ pc' = [t \in Thread |-> IF t \in mine THEN "killed" ELSE pc[t]]
  /\ torq' = [t \in Thread |-> IF t \in mine THEN Closed ELSE torq[t]]
  /\ sessionLock' = [sessionLock EXCEPT ![p] = FALSE]
  /\ run' = [t \in Thread |-> IF t \in mine THEN NewRun ELSE run[t]]
  /\ after' = [t \in Thread |-> IF t \in mine THEN None ELSE after[t]]
  /\ UNCHANGED <<kernel, runs>>

KernelCleansUp(t) ==
  /\ pc[t] = "killed"
  /\ IF t \in files THEN Npu!ReleaseNetworks(t) /\ Goto(t, "killed file")
                    ELSE UNCHANGED kernel /\ Goto(t, "idle")
  /\ UNCHANGED <<sessionLock, torq, run, runs>>

KernelClosesFile(t) ==
  /\ pc[t] = "killed file"
  /\ Npu!ReleaseFile(t)
  /\ Goto(t, "idle")
  /\ UNCHANGED <<sessionLock, torq, run, runs>>

JobEnds == Npu!JobEnds /\ UNCHANGED <<sessionLock, pc, after, torq, run, runs>>

Step(t) ==
  /\ \/ Lock(t) \/ OpenNode(t) \/ SetupXramSpace(t) \/ CreateNetwork(t)
     \/ Prepare(t) \/ Load(t) \/ StartNSS(t) \/ WaitNSS(t) \/ HostCopy(t) \/ StartHost(t)
     \/ Release(t) \/ ReadBack(t)
     \/ CloseStops(t) \/ CloseDestroys(t) \/ CloseXram(t) \/ CloseNode(t) \/ CloseFile(t)
     \/ Unlock(t) \/ Destructor(t) \/ KernelCleansUp(t) \/ KernelClosesFile(t)
  /\ UNCHANGED processOf

(* Every run of every thread is over. *)
Terminated == runs = MaxRuns /\ (\A t \in Thread : pc[t] = "idle") /\ UNCHANGED vars

Next ==
  \/ \E t \in Thread : Step(t) \/ (Begin(t) /\ UNCHANGED processOf)
  \/ \E p \in Process : Kill(p) /\ UNCHANGED processOf
  \/ JobEnds /\ UNCHANGED processOf
  \/ Terminated

Spec == Init /\ [][Next]_vars

(* A thread in run keeps running.  That system calls return is CallReturns  *)
(* of TorqKernelDriver.  Nothing is assumed of the job: WAIT times out.     *)
FairSpec == Spec /\ \A t \in Thread : WF_vars(Step(t))
-----------------------------------------------------------------------------
(* A session that has loaded its network has the device: its network is the *)
(* active one and no other network's job runs, although close() unlocks the *)
(* session lock of whoever holds it, so that two sessions of a process may  *)
(* be open at the same time, and although jobs outlive their sessions.      *)
DeviceIsTheSessions ==
  \A t \in Thread :
    torq[t].networkActive /\ Valid(t) /\ pc[t] # "drop"  =>
      active = torq[t].networkId /\ job \in {None, active}

(* Results are handed to the caller only after every job that run started   *)
(* has ended, also when a wait timed out or the process was killed before.  *)
ResultsAreFinished ==
  \A t \in Thread : pc[t] = "readback" =>
    ~run[t].unread /\ (t \in files => job # torq[t].networkId)

(* A thread that is out of run has left nothing behind, on any error path:  *)
(* no file, no network, no buffer, no mapping.  The one exception is what   *)
(* the code does: close() unmaps _xramSize bytes where _xramSizeAligned     *)
(* were mapped, so an XRAM that does not begin on a page may leave its last *)
(* page mapped, and the buffer in memory, until the process ends.  No more  *)
(* than a page is left of a run, and nothing of one that had a network.     *)
NothingIsLeft ==
  \A t \in Thread : pc[t] = "idle" =>
    /\ t \notin files
    /\ \A n \in DOMAIN owner : owner[n] # t
    /\ ~torq[t].dmabufHandle /\ torq[t].dmabufDevNode # "open"
    /\ torq[t].xramVBase # "mapped"
    /\ torq[t].mapped = 0 \/ (torq[t].mapped = 1 /\ AlignOffset(torq[t]) # 0)

(* Run returns, whatever fails, whatever the other sessions do and even if  *)
(* the hardware hangs.                                                      *)
RunReturns == \A t \in Thread : pc[t] # "idle" ~> pc[t] = "idle"
=============================================================================
