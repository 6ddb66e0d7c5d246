----------------------- MODULE TorqKernelDriverProofs -----------------------
(***************************************************************************)
(* Proofs about TorqKernelDriver, for any number of files, threads and      *)
(* networks and any set of system calls.                                    *)
(***************************************************************************)
EXTENDS TorqKernelDriver, TLAPS

(***************************************************************************)
(* Who holds which mutex.  The place of a thread in its system call says    *)
(* which mutexes it holds, and a file is released by the only call on it.   *)
(***************************************************************************)
Place == {"user", "inst", "device", "body", "commit", "reset", "waiting", "woken",
          "wlock", "wcommit", "delfile"}

HoldsInst(t) ==
  pc[t] \in {"device", "body", "commit", "reset", "waiting", "woken", "wlock", "wcommit"}

HoldsDevice(t) ==
  \/ pc[t] \in {"commit", "reset", "waiting", "woken", "wcommit"}
  \/ pc[t] = "body" /\ RequireDeviceLock(call[t].op)

(* The system call of a thread, and what it may be at each place. *)
CallOK(t) ==
  pc[t] # "user" =>
    /\ call[t].op \in Command
    /\ call[t].file \in files
    /\ call[t].op \notin {"create", "release"} => call[t].net \in Net
    /\ call[t].op = "write" => call[t].addr \in Addr /\ call[t].data \in Data
    /\ pc[t] = "device" => RequireDeviceLock(call[t].op)
    /\ pc[t] \in {"commit", "reset"} => call[t].op = "start"
    /\ pc[t] \in {"waiting", "woken"} => call[t].op = "wait"
    /\ pc[t] \in {"wlock", "wcommit"} => call[t].op = "write"
    /\ pc[t] = "delfile" => call[t].op = "release"

InstMutexHeld ==
  \A f \in File, t \in Thread : instMutex[f] = t <=> HoldsInst(t) /\ call[t].file = f

DeviceLockHeld == \A t \in Thread : deviceLock = t <=> HoldsDevice(t)

ReleasedAlone ==
  \A t, u \in Thread :
    /\ t # u /\ pc[t] # "user" /\ pc[u] # "user"
    /\ call[t].file = call[u].file
    => call[t].op # "release"

LockInv ==
  /\ files \subseteq File
  /\ pc \in [Thread -> Place]
  /\ DOMAIN call = Thread
  /\ instMutex \in [File -> Thread \cup {None}]
  /\ deviceLock \in Thread \cup {None}
  /\ \A t \in Thread : CallOK(t)
  /\ InstMutexHeld
  /\ DeviceLockHeld
  /\ ReleasedAlone

(***************************************************************************)
(* The networks and the device.  A thread that is half way through START,   *)
(* WAIT or a write to the hardware does it for the active network, which is *)
(* a network of its file.                                                   *)
(***************************************************************************)
Segment == [addr : Addr, data : Data]
Network == [file : File, mapped : BOOLEAN, segs : Seq(Segment)]

NetworksOK ==
  /\ DOMAIN nets \subseteq Net
  /\ \A n \in DOMAIN nets : nets[n] \in Network /\ nets[n].file \in files
  /\ \A t \in Thread : pc[t] = "delfile" =>
       \A n \in DOMAIN nets : nets[n].file # call[t].file

ActiveOK ==
  /\ active # None => active \in DOMAIN nets
  /\ IF active = None THEN domain \in IdleDomain ELSE domain = active

BusyWithActive ==
  \A t \in Thread : pc[t] \in {"commit", "reset", "waiting", "woken", "wlock", "wcommit"} =>
    /\ active = call[t].net
    /\ nets[active].file = call[t].file

DeviceInv ==
  /\ NetworksOK
  /\ ActiveOK
  /\ BusyWithActive
  /\ files # {} => powered = TRUE
-----------------------------------------------------------------------------
(* A thread that leaves the driver gives back every mutex it has. *)
LEMMA ReturnKeepsLocks ==
  ASSUME LockInv, NEW t \in Thread, pc[t] # "user", Return(t), UNCHANGED files
  PROVE  LockInv'
PROOF
<1> USE DriverAssumption
<1>1. /\ pc' = [pc EXCEPT ![t] = "user"]
      /\ call' = [call EXCEPT ![t] = NoCall]
      /\ instMutex' = [f \in File |-> IF instMutex[f] = t THEN None ELSE instMutex[f]]
      /\ deviceLock' = IF deviceLock = t THEN None ELSE deviceLock
  BY DEF Return, Unlock
<1>2. /\ pc' \in [Thread -> Place]
      /\ DOMAIN call' = Thread
      /\ instMutex' \in [File -> Thread \cup {None}]
      /\ deviceLock' \in Thread \cup {None}
      /\ files' \subseteq File
  BY <1>1 DEF LockInv, Place
<1>3. \A u \in Thread : u # t => pc'[u] = pc[u] /\ call'[u] = call[u]
  BY <1>1 DEF LockInv
<1>4. pc'[t] = "user"
  BY <1>1 DEF LockInv
<1>5. \A u \in Thread : CallOK(u)'
  BY <1>3, <1>4 DEF LockInv, CallOK, RequireDeviceLock
<1>6. InstMutexHeld'
  BY <1>1, <1>3, <1>4 DEF LockInv, InstMutexHeld, HoldsInst
<1>7. DeviceLockHeld'
  BY <1>1, <1>3, <1>4 DEF LockInv, DeviceLockHeld, HoldsDevice, RequireDeviceLock
<1>8. ReleasedAlone'
  BY <1>3, <1>4 DEF LockInv, ReleasedAlone
<1> QED BY <1>2, <1>5, <1>6, <1>7, <1>8 DEF LockInv

(* A thread that goes on without taking or giving back a mutex.  *)
LEMMA GotoKeepsLocks ==
  ASSUME LockInv, NEW t \in Thread, pc[t] # "user",
         NEW l \in Place \ {"user"}, Goto(t, l), UNCHANGED <<files, locks>>,
         CallOK(t)', HoldsInst(t)' <=> HoldsInst(t), HoldsDevice(t)' <=> HoldsDevice(t)
  PROVE  LockInv'
PROOF
<1>1. pc' = [pc EXCEPT ![t] = l] /\ call' = call
  BY DEF Goto
<1>2. pc' \in [Thread -> Place] /\ DOMAIN call' = Thread
  BY <1>1 DEF LockInv
<1>3. \A u \in Thread : u # t => pc'[u] = pc[u]
  BY <1>1 DEF LockInv
<1>4. pc'[t] = l
  BY <1>1 DEF LockInv
<1>5. \A u \in Thread : CallOK(u)'
  BY <1>1, <1>3 DEF LockInv, CallOK
<1>6. InstMutexHeld'
  BY <1>1, <1>3 DEF LockInv, InstMutexHeld, HoldsInst, locks
<1>7. DeviceLockHeld'
  BY <1>1, <1>3 DEF LockInv, DeviceLockHeld, HoldsDevice, locks
<1>8. ReleasedAlone'
  BY <1>1, <1>3, <1>4 DEF LockInv, ReleasedAlone
<1> QED BY <1>2, <1>5, <1>6, <1>7, <1>8 DEF LockInv, locks

(* A system call begins: no mutex is held yet, and a release begins only    *)
(* when no other call is made on the file.                                  *)
LEMMA EnterKeepsLocks ==
  ASSUME LockInv, NEW t \in Thread, Enter(t)
  PROVE  LockInv'
PROOF
<1> USE DriverAssumption
<1>1. PICK f \in files, op \in Command, n \in Net, a \in Addr, d \in Data,
           b \in SUBSET (Bits \cup {NSS}) :
        /\ \A u \in Thread : Uses(u, f) => op # "release" /\ call[u].op # "release"
        /\ call' = [call EXCEPT ![t] =
             CASE op \in {"create", "release"} -> [op |-> op, file |-> f]
               [] op = "write" -> [op |-> op, file |-> f, net |-> n, addr |-> a, data |-> d]
               [] op = "read" -> [op |-> op, file |-> f, net |-> n, addr |-> a]
               [] op = "wait" -> [op |-> op, file |-> f, net |-> n, bits |-> b]
               [] OTHER -> [op |-> op, file |-> f, net |-> n]]
  BY DEF Enter
<1>2. pc[t] = "user" /\ pc' = [pc EXCEPT ![t] = "inst"] /\ UNCHANGED <<files, locks>>
  BY DEF Enter
<1>3. /\ pc' \in [Thread -> Place] /\ DOMAIN call' = Thread
      /\ pc'[t] = "inst"
      /\ \A u \in Thread : u # t => pc'[u] = pc[u] /\ call'[u] = call[u]
  BY <1>1, <1>2 DEF LockInv, Place
<1>4. /\ call'[t].op = op /\ call'[t].file = f
      /\ op \notin {"create", "release"} => call'[t].net = n
      /\ op = "write" => call'[t].addr = a /\ call'[t].data = d
  <2>1. CASE op \in {"create", "release"}
    BY <1>1, <2>1 DEF LockInv
  <2>2. CASE op = "write"
    BY <1>1, <2>2 DEF LockInv
  <2>3. CASE op = "read"
    BY <1>1, <2>3 DEF LockInv
  <2>4. CASE op = "wait"
    BY <1>1, <2>4 DEF LockInv
  <2>5. CASE op \notin {"create", "release", "write", "read", "wait"}
    BY <1>1, <2>5 DEF LockInv
  <2> QED BY <2>1, <2>2, <2>3, <2>4, <2>5
<1>5. \A u \in Thread : CallOK(u)'
  BY <1>2, <1>3, <1>4 DEF LockInv, CallOK, RequireDeviceLock
<1>6. InstMutexHeld'
  BY <1>2, <1>3 DEF LockInv, InstMutexHeld, HoldsInst, locks
<1>7. DeviceLockHeld'
  BY <1>2, <1>3 DEF LockInv, DeviceLockHeld, HoldsDevice, RequireDeviceLock, locks
<1>8. ReleasedAlone'
  BY <1>1, <1>2, <1>3, <1>4 DEF LockInv, ReleasedAlone, Uses
<1> QED BY <1>2, <1>3, <1>5, <1>6, <1>7, <1>8 DEF LockInv, locks

(* The three ways of taking a mutex, which is free. *)
LEMMA LockingKeepsLocks ==
  ASSUME LockInv, NEW t \in Thread, Locking(t)
  PROVE  LockInv'
PROOF
<1> USE DriverAssumption DEF LockInv, Place, InstMutexHeld, DeviceLockHeld, CallOK,
        HoldsInst, HoldsDevice, RequireDeviceLock, ReleasedAlone, Goto
<1>1. CASE LockInst(t)
  BY <1>1 DEF LockInst
<1>2. CASE LockDevice(t)
  BY <1>2 DEF LockDevice
<1>3. CASE WriteLock(t)
  BY <1>3 DEF WriteLock
<1> QED BY <1>1, <1>2, <1>3 DEF Locking

(* torq_release gives its mutexes back before it removes the file.          *)
LEMMA ReleaseKeepsLocks ==
  ASSUME LockInv, NEW t \in Thread, ReleaseNetworks(t) \/ ReleaseFile(t)
  PROVE  LockInv'
PROOF
<1> USE DriverAssumption
<1>1. CASE ReleaseNetworks(t)
  <2>1. /\ pc[t] = "body" /\ call[t].op = "release"
        /\ pc' = [pc EXCEPT ![t] = "delfile"] /\ call' = call /\ files' = files
        /\ instMutex' = [f \in File |-> IF instMutex[f] = t THEN None ELSE instMutex[f]]
        /\ deviceLock' = IF deviceLock = t THEN None ELSE deviceLock
    BY <1>1 DEF ReleaseNetworks, In, Goto, Unlock
  <2> QED BY <2>1 DEF LockInv, Place, InstMutexHeld, DeviceLockHeld, CallOK, HoldsInst,
                      HoldsDevice, RequireDeviceLock, ReleasedAlone
<1>2. CASE ReleaseFile(t)
  <2>1. /\ pc[t] = "delfile" /\ Return(t) /\ files' = files \ {call[t].file}
    BY <1>2 DEF ReleaseFile
  <2>2. \A u \in Thread : u # t /\ pc[u] # "user" => call[u].file # call[t].file
    BY <2>1 DEF LockInv, CallOK, ReleasedAlone
  <2>3. /\ pc' = [pc EXCEPT ![t] = "user"]
        /\ call' = [call EXCEPT ![t] = NoCall]
        /\ instMutex' = [f \in File |-> IF instMutex[f] = t THEN None ELSE instMutex[f]]
        /\ deviceLock' = IF deviceLock = t THEN None ELSE deviceLock
    BY <2>1 DEF Return, Unlock
  <2> QED BY <2>1, <2>2, <2>3
          DEF LockInv, Place, InstMutexHeld, DeviceLockHeld, CallOK, HoldsInst,
              HoldsDevice, RequireDeviceLock, ReleasedAlone
<1> QED BY <1>1, <1>2

(* Every step of the driver keeps the mutexes with their holders. *)
LEMMA LockInvStep == LockInv /\ [Next]_vars => LockInv'
PROOF
<1> SUFFICES ASSUME LockInv, [Next]_vars PROVE LockInv'
  OBVIOUS
<1> USE DriverAssumption
<1>1. ASSUME NEW f \in File, Open(f) PROVE LockInv'
  BY <1>1 DEF Open, locks, threads, LockInv, CallOK, RequireDeviceLock, InstMutexHeld,
              DeviceLockHeld, HoldsInst, HoldsDevice, ReleasedAlone
<1>2. ASSUME NEW t \in Thread, Enter(t) PROVE LockInv'
  BY <1>2, EnterKeepsLocks
<1>3. ASSUME NEW t \in Thread, Locking(t) PROVE LockInv'
  BY <1>3, LockingKeepsLocks
<1>4. ASSUME NEW t \in Thread, Working(t) PROVE LockInv'
  <2> USE ReturnKeepsLocks DEF NoEffect, In
  <2>1. CASE CreateNetwork(t)
    BY <2>1 DEF CreateNetwork
  <2>2. CASE StartNetwork(t)
    <3>1. CASE Return(t) /\ UNCHANGED files /\ pc[t] = "body"
      BY <3>1
    <3>2. CASE /\ Goto(t, "commit") /\ In(t, "start")
               /\ UNCHANGED <<files, locks>>
      BY <3>2, GotoKeepsLocks
      DEF Goto, LockInv, CallOK, HoldsInst, HoldsDevice, RequireDeviceLock, Place
    <3> QED BY <2>2, <3>1, <3>2 DEF StartNetwork, locks
  <2>3. CASE StartCommit(t)
    BY <2>3, GotoKeepsLocks
    DEF StartCommit, Goto, LockInv, CallOK, HoldsInst, HoldsDevice, RequireDeviceLock, Place
  <2>4. CASE StartReset(t)
    BY <2>4 DEF StartReset
  <2>5. CASE RunNetwork(t)
    BY <2>5 DEF RunNetwork
  <2>6. CASE WaitNetwork(t)
    <3>1. CASE Return(t) /\ UNCHANGED files /\ pc[t] = "body"
      BY <3>1
    <3>2. CASE /\ Goto(t, "waiting") /\ In(t, "wait")
               /\ UNCHANGED <<files, locks>>
      BY <3>2, GotoKeepsLocks
      DEF Goto, LockInv, CallOK, HoldsInst, HoldsDevice, RequireDeviceLock, Place
    <3> QED BY <2>6, <3>1, <3>2 DEF WaitNetwork, locks
  <2>7. CASE WaitReads(t) \/ WaitTimesOut(t)
    BY <2>7 DEF WaitReads, WaitTimesOut
  <2>14. CASE WaitCompletes(t)
    BY <2>14, GotoKeepsLocks
    DEF WaitCompletes, Goto, LockInv, CallOK, HoldsInst, HoldsDevice, RequireDeviceLock, Place
  <2>8. CASE StopNetwork(t)
    BY <2>8 DEF StopNetwork
  <2>9. CASE DestroyNetwork(t)
    BY <2>9 DEF DestroyNetwork
  <2>10. CASE WriteLram(t)
    <3>1. CASE Return(t) /\ UNCHANGED files /\ pc[t] = "body"
      BY <3>1
    <3>2. CASE /\ Goto(t, "wlock") /\ In(t, "write")
               /\ UNCHANGED <<files, locks>>
      BY <3>2, GotoKeepsLocks
      DEF Goto, LockInv, CallOK, HoldsInst, HoldsDevice, RequireDeviceLock, Place
    <3> QED BY <2>10, <3>1, <3>2 DEF WriteLram, locks
  <2>11. CASE WriteCommit(t)
    BY <2>11 DEF WriteCommit
  <2>12. CASE ReadLram(t)
    BY <2>12 DEF ReadLram
  <2>13. CASE ReleaseNetworks(t) \/ ReleaseFile(t)
    BY <2>13, ReleaseKeepsLocks
  <2> QED BY <1>4, <2>1, <2>2, <2>3, <2>4, <2>5, <2>6, <2>7, <2>8, <2>9, <2>10,
             <2>11, <2>12, <2>13, <2>14 DEF Working
<1>5. CASE Hardware \/ UNCHANGED vars
  <2>1. UNCHANGED <<files, locks, threads>>
    BY <1>5 DEF Hardware, JobWrites, JobEnds, IrqStatus, IrqClear, IrqComplete, vars
  <2> QED BY <2>1 DEF locks, threads, LockInv, CallOK, RequireDeviceLock, InstMutexHeld,
              DeviceLockHeld, HoldsInst, HoldsDevice, ReleasedAlone
<1> QED BY <1>1, <1>2, <1>3, <1>4, <1>5 DEF Next

LEMMA LockInvInit == Init => LockInv
PROOF
  BY DriverAssumption
  DEF Init, LockInv, Place, CallOK, InstMutexHeld, DeviceLockHeld, ReleasedAlone,
      HoldsInst, HoldsDevice, RequireDeviceLock
-----------------------------------------------------------------------------
(* Two threads in the middle of a call on the same file, or both with the   *)
(* device_lock, are one thread.                                             *)
LEMMA HoldersAreAlone ==
  ASSUME LockInv, NEW t \in Thread, NEW u \in Thread
  PROVE  /\ HoldsInst(t) /\ HoldsInst(u) /\ call[t].file = call[u].file => t = u
         /\ HoldsDevice(t) /\ HoldsDevice(u) => t = u
         /\ HoldsInst(t) => call[t].file \in File
         /\ HoldsDevice(t) => HoldsInst(t)
PROOF
<1> QED BY DEF LockInv, InstMutexHeld, DeviceLockHeld, CallOK, HoldsInst, HoldsDevice,
               RequireDeviceLock

(* What a step keeps of the networks and the device when it changes none of *)
(* them: the threads that are in the middle of a call on the active network *)
(* are those that were.                                                     *)
LEMMA NothingChanges ==
  ASSUME LockInv, DeviceInv, UNCHANGED <<networks, files, powered>>,
         \A u \in Thread :
           \/ pc'[u] = pc[u] /\ call'[u] = call[u]
           \/ pc'[u] \notin {"commit", "reset", "waiting", "woken", "wlock", "wcommit", "delfile"}
           \/ /\ pc[u] \in {"commit", "reset", "waiting", "woken", "wlock", "wcommit"}
              /\ pc'[u] \in {"commit", "reset", "waiting", "woken", "wlock", "wcommit"}
              /\ call'[u] = call[u]
  PROVE  DeviceInv'
PROOF
  BY DEF DeviceInv, NetworksOK, ActiveOK, BusyWithActive, networks

LEMMA ReturnedThread ==
  ASSUME LockInv, NEW t \in Thread, Return(t)
  PROVE  /\ pc'[t] = "user"
         /\ \A u \in Thread : u # t => pc'[u] = pc[u] /\ call'[u] = call[u]
         /\ \A u \in Thread : pc'[u] \in {"commit", "reset", "waiting", "woken", "wlock", "wcommit", "delfile"}
                              => u # t /\ pc'[u] = pc[u] /\ call'[u] = call[u]
PROOF
  BY DEF Return, LockInv

LEMMA MovedThread ==
  ASSUME LockInv, NEW t \in Thread, NEW l, Goto(t, l)
  PROVE  /\ pc'[t] = l
         /\ call' = call
         /\ \A u \in Thread : u # t => pc'[u] = pc[u]
PROOF
  BY DEF Goto, LockInv

LEMMA DeviceInvInit == Init => DeviceInv
PROOF
  BY DriverAssumption DEF Init, DeviceInv, NetworksOK, ActiveOK, BusyWithActive

(* The networks that are left after torq_destroy_network and torq_release.  *)
LEMMA WithoutNetworks ==
  ASSUME NEW ns
  PROVE  /\ DOMAIN Without(ns) = DOMAIN nets \ ns
         /\ \A n \in DOMAIN nets \ ns : Without(ns)[n] = nets[n]
PROOF
  BY DEF Without

(* torq_create_network, torq_start_network *)
LEMMA CreateKeepsDevice ==
  ASSUME LockInv, DeviceInv, NEW t \in Thread, CreateNetwork(t)
  PROVE  DeviceInv'
PROOF
<1> USE DriverAssumption
<1>1. CASE NoEffect(t, "create", TRUE)
  BY <1>1, ReturnedThread, NothingChanges DEF NoEffect
<1>2. CASE ~NoEffect(t, "create", TRUE)
  <2>1. /\ In(t, "create") /\ Return(t) /\ UNCHANGED <<files, powered, active, domain>>
    BY <1>2 DEF CreateNetwork
  <2>2. PICK n \in Net \ DOMAIN nets :
          nets' = [m \in DOMAIN nets \cup {n} |->
                     IF m = n THEN [file |-> call[t].file, mapped |-> FALSE, segs |-> <<>>]
                              ELSE nets[m]]
    BY <1>2 DEF CreateNetwork
  <2>3. call[t].file \in files
    BY <2>1 DEF LockInv, CallOK, In
  <2>4. NetworksOK'
    <3>1. DOMAIN nets' \subseteq Net
      BY <2>2 DEF DeviceInv, NetworksOK
    <3>2. \A m \in DOMAIN nets' :
            nets'[m] \in Network /\ nets'[m].file \in files'
      BY <2>1, <2>2, <2>3 DEF Network, LockInv, DeviceInv, NetworksOK
    <3>3. ASSUME NEW u \in Thread, pc'[u] = "delfile"
          PROVE  \A m \in DOMAIN nets' : nets'[m].file # call'[u].file
      <4>1. pc[u] = "delfile" /\ call'[u] = call[u] /\ u # t
        BY <2>1, <3>3, ReturnedThread
      <4>2. call[u].file # call[t].file
        BY <2>1, <4>1 DEF LockInv, ReleasedAlone, In, CallOK
      <4> QED BY <2>2, <4>1, <4>2 DEF DeviceInv, NetworksOK
    <3> QED BY <3>1, <3>2, <3>3 DEF NetworksOK
  <2>5. ActiveOK' /\ \A m \in DOMAIN nets : nets'[m] = nets[m]
    BY <2>1, <2>2 DEF DeviceInv, ActiveOK
  <2>6. BusyWithActive'
    <3>1. ASSUME NEW u \in Thread, pc'[u] \in {"commit", "reset", "waiting", "woken", "wlock", "wcommit"}
          PROVE  active' = call'[u].net /\ nets'[active'].file = call'[u].file
      <4>1. /\ pc[u] \in {"commit", "reset", "waiting", "woken", "wlock", "wcommit"}
            /\ call'[u] = call[u]
        BY <2>1, <3>1, ReturnedThread
      <4>2. active # None
        BY <4>1 DEF DeviceInv, BusyWithActive, LockInv, CallOK
      <4> QED BY <2>1, <2>5, <4>1, <4>2 DEF DeviceInv, BusyWithActive, ActiveOK
    <3> QED BY <3>1 DEF BusyWithActive
  <2> QED BY <2>1, <2>4, <2>5, <2>6 DEF DeviceInv
<1> QED BY <1>1, <1>2

LEMMA StartKeepsDevice ==
  ASSUME LockInv, DeviceInv, NEW t \in Thread, StartNetwork(t)
  PROVE  DeviceInv'
PROOF
<1> USE DriverAssumption
<1> DEFINE n == call[t].net
<1>1. CASE Return(t) /\ UNCHANGED <<files, powered, nets, active, domain>>
  BY <1>1, ReturnedThread, NothingChanges DEF networks
<1>2. CASE /\ In(t, "start") /\ Find(t) /\ active = None
           /\ domain' \in IdleDomain /\ Return(t)
           /\ UNCHANGED <<files, powered, nets, active>>
  <2>1. \A u \in Thread : pc[u] \notin {"commit", "reset", "waiting", "woken", "wlock", "wcommit"}
    BY <1>2 DEF DeviceInv, BusyWithActive, LockInv, CallOK
  <2> QED BY <1>2, <2>1, ReturnedThread
          DEF DeviceInv, NetworksOK, ActiveOK, BusyWithActive
<1>3. CASE /\ In(t, "start") /\ Find(t) /\ active = None
           /\ nets' = [nets EXCEPT ![n].mapped = TRUE]
           /\ domain' = n /\ active' = n /\ Goto(t, "commit")
           /\ UNCHANGED <<files, powered>>
  <2>1. \A u \in Thread : pc[u] \notin {"commit", "reset", "waiting", "woken", "wlock", "wcommit"}
    BY <1>3 DEF DeviceInv, BusyWithActive, LockInv, CallOK
  <2>2. /\ DOMAIN nets' = DOMAIN nets
        /\ \A m \in DOMAIN nets :
             /\ nets'[m].file = nets[m].file
             /\ nets'[m] \in Network
    BY <1>3 DEF Network, DeviceInv, NetworksOK
  <2>3. n \in DOMAIN nets /\ n \in Net /\ nets[n].file = call[t].file
    BY <1>3 DEF Find, DeviceInv, NetworksOK
  <2>7. /\ pc'[t] = "commit" /\ call' = call
        /\ \A u \in Thread : u # t => pc'[u] = pc[u]
    BY <1>3, MovedThread
  <2>4. NetworksOK'
    <3>1. \A m \in DOMAIN nets' : nets'[m] \in Network /\ nets'[m].file \in files'
      <4>1. files' = files
        BY <1>3
      <4> QED BY <2>2, <4>1 DEF DeviceInv, NetworksOK
    <3>2. ASSUME NEW u \in Thread, pc'[u] = "delfile"
          PROVE  \A m \in DOMAIN nets' : nets'[m].file # call'[u].file
      BY <2>2, <2>7, <3>2 DEF DeviceInv, NetworksOK
    <3> QED BY <2>2, <3>1, <3>2 DEF DeviceInv, NetworksOK
  <2>5. ActiveOK'
    BY <1>3, <2>2, <2>3 DEF ActiveOK
  <2>6. BusyWithActive'
    BY <1>3, <2>1, <2>2, <2>3, <2>7 DEF BusyWithActive
  <2> QED BY <1>3, <2>4, <2>5, <2>6 DEF DeviceInv
<1> QED BY <1>1, <1>2, <1>3 DEF StartNetwork, NoEffect, networks

(* torq_stop_network: no other call has got the network, as its file's      *)
(* mutex is held.                                                           *)
LEMMA StopKeepsDevice ==
  ASSUME LockInv, DeviceInv, NEW t \in Thread, StopNetwork(t)
  PROVE  DeviceInv'
PROOF
<1> USE DriverAssumption
<1>1. CASE Return(t) /\ UNCHANGED <<files, powered, networks>>
  BY <1>1, ReturnedThread, NothingChanges
<1>2. CASE /\ In(t, "stop") /\ Find(t) /\ active = call[t].net
           /\ Detach /\ Return(t) /\ UNCHANGED <<files, powered, nets>>
  <2>1. \A u \in Thread : u # t => pc[u] \notin {"commit", "reset", "waiting", "woken", "wlock", "wcommit"}
    <3> SUFFICES ASSUME NEW u \in Thread, u # t,
                        pc[u] \in {"commit", "reset", "waiting", "woken", "wlock", "wcommit"}
                 PROVE  FALSE
      OBVIOUS
    <3>1. call[u].file = call[t].file
      BY <1>2 DEF Find, DeviceInv, BusyWithActive
    <3> QED BY <1>2, <3>1, HoldersAreAlone DEF In, HoldsInst
  <2> QED BY <1>2, <2>1, ReturnedThread
          DEF Detach, DeviceInv, NetworksOK, ActiveOK, BusyWithActive
<1> QED BY <1>1, <1>2 DEF StopNetwork, NoEffect

(* torq_destroy_network *)
LEMMA DestroyKeepsDevice ==
  ASSUME LockInv, DeviceInv, NEW t \in Thread, DestroyNetwork(t)
  PROVE  DeviceInv'
PROOF
<1> USE DriverAssumption
<1>1. CASE Return(t) /\ UNCHANGED <<files, powered, networks>>
  BY <1>1, ReturnedThread, NothingChanges
<1>2. CASE /\ In(t, "destroy") /\ Find(t) /\ active # call[t].net
           /\ nets' = Without({call[t].net})
           /\ Return(t) /\ UNCHANGED <<files, powered, active, domain>>
  <2>1. /\ DOMAIN nets' = DOMAIN nets \ {call[t].net}
        /\ \A n \in DOMAIN nets' : nets'[n] = nets[n]
    BY <1>2, WithoutNetworks
  <2>2. NetworksOK'
    <3>1. ASSUME NEW u \in Thread, pc'[u] = "delfile"
          PROVE  pc[u] = "delfile" /\ call'[u] = call[u]
      BY <1>2, <3>1, ReturnedThread
    <3>2. \A m \in DOMAIN nets' : nets'[m] \in Network /\ nets'[m].file \in files'
      BY <1>2, <2>1 DEF DeviceInv, NetworksOK
    <3>3. ASSUME NEW u \in Thread, pc'[u] = "delfile"
          PROVE  \A m \in DOMAIN nets' : nets'[m].file # call'[u].file
      BY <2>1, <3>1, <3>3 DEF DeviceInv, NetworksOK
    <3> QED BY <2>1, <3>2, <3>3 DEF DeviceInv, NetworksOK
  <2>4. ActiveOK'
    BY <1>2, <2>1 DEF DeviceInv, ActiveOK
  <2>3. BusyWithActive'
    <3>1. ASSUME NEW u \in Thread, pc'[u] \in {"commit", "reset", "waiting", "woken", "wlock", "wcommit"}
          PROVE  active' = call'[u].net /\ nets'[active'].file = call'[u].file
      <4>1. /\ pc[u] \in {"commit", "reset", "waiting", "woken", "wlock", "wcommit"}
            /\ call'[u] = call[u]
        BY <1>2, <3>1, ReturnedThread
      <4>2. active # None
        BY <4>1 DEF DeviceInv, BusyWithActive, LockInv, CallOK
      <4> QED BY <1>2, <2>1, <4>1, <4>2 DEF DeviceInv, BusyWithActive, ActiveOK
    <3> QED BY <3>1 DEF BusyWithActive
  <2> QED BY <1>2, <2>2, <2>3, <2>4 DEF DeviceInv
<1> QED BY <1>1, <1>2 DEF DestroyNetwork, NoEffect

(* torq_write_lram up to the device_lock: a network that is found active    *)
(* stays active until the data is written.                                  *)
LEMMA WriteKeepsDevice ==
  ASSUME LockInv, DeviceInv, NEW t \in Thread, WriteLram(t)
  PROVE  DeviceInv'
PROOF
<1> USE DriverAssumption
<1> DEFINE n == call[t].net
           segment == [addr |-> call[t].addr, data |-> call[t].data]
<1>1. CASE Return(t) /\ UNCHANGED <<files, powered, networks>>
  BY <1>1, ReturnedThread, NothingChanges
<1>2. CASE /\ In(t, "write") /\ Find(t)
           /\ \/ nets' = [nets EXCEPT ![n].segs = Append(@, segment)]
              \/ UNCHANGED nets
           /\ IF active = n THEN Goto(t, "wlock") ELSE Return(t)
           /\ UNCHANGED <<files, powered, active, domain>>
  <2>1. n \in DOMAIN nets /\ nets[n].file = call[t].file /\ n \in Net
    BY <1>2 DEF Find, DeviceInv, NetworksOK
  <2>2. segment \in Segment
    BY <1>2 DEF LockInv, CallOK, In, Segment
  <2>3. /\ DOMAIN nets' = DOMAIN nets
        /\ \A m \in DOMAIN nets :
             /\ nets'[m].file = nets[m].file
             /\ nets'[m] \in Network
    <3>1. nets[n] \in Network /\ Append(nets[n].segs, segment) \in Seq(Segment)
      BY <2>1, <2>2 DEF Network, DeviceInv, NetworksOK
    <3>2. CASE UNCHANGED nets
      BY <3>2 DEF DeviceInv, NetworksOK
    <3>3. CASE nets' = [nets EXCEPT ![n].segs = Append(@, segment)]
      <4>1. nets'[n] = [nets[n] EXCEPT !.segs = Append(nets[n].segs, segment)]
        BY <2>1, <3>3
      <4>2. nets'[n] \in Network /\ nets'[n].file = nets[n].file
        BY <3>1, <4>1 DEF Network
      <4> QED BY <3>3, <4>2 DEF DeviceInv, NetworksOK
    <3> QED BY <1>2, <3>2, <3>3
  <2>4. \A u \in Thread : u # t => pc'[u] = pc[u] /\ call'[u] = call[u]
    BY <1>2, ReturnedThread, MovedThread
  <2>5. \/ pc'[t] = "user"
        \/ pc'[t] = "wlock" /\ active = n /\ call' = call
    BY <1>2, ReturnedThread, MovedThread
  <2>6. NetworksOK'
    BY <1>2, <2>3, <2>4, <2>5 DEF DeviceInv, NetworksOK
  <2>7. ActiveOK'
    BY <1>2, <2>3 DEF DeviceInv, ActiveOK
  <2>8. BusyWithActive'
    <3>1. ASSUME NEW u \in Thread, u # t,
                 pc'[u] \in {"commit", "reset", "waiting", "woken", "wlock", "wcommit"}
          PROVE  active' = call'[u].net /\ nets'[active'].file = call'[u].file
      <4>1. active # None
        BY <2>4, <3>1 DEF DeviceInv, BusyWithActive, LockInv, CallOK
      <4> QED BY <1>2, <2>3, <2>4, <3>1, <4>1 DEF DeviceInv, BusyWithActive, ActiveOK
    <3> QED BY <1>2, <2>1, <2>3, <2>5, <3>1 DEF BusyWithActive
  <2> QED BY <1>2, <2>6, <2>7, <2>8 DEF DeviceInv
<1> QED BY <1>1, <1>2 DEF WriteLram, NoEffect

(* torq_release: the networks of the file go, the active one is detached;   *)
(* then the file goes, and the clock with the last file.                    *)
LEMMA ReleaseKeepsDevice ==
  ASSUME LockInv, DeviceInv, NEW t \in Thread, ReleaseNetworks(t) \/ ReleaseFile(t)
  PROVE  DeviceInv'
PROOF
<1> USE DriverAssumption
<1>1. CASE ReleaseNetworks(t)
  <2> DEFINE mine == {n \in DOMAIN nets : nets[n].file = call[t].file}
  <2>1. /\ In(t, "release") /\ nets' = Without(mine)
        /\ Goto(t, "delfile") /\ UNCHANGED <<files, powered>>
        /\ IF active \in mine THEN Detach ELSE UNCHANGED <<active, domain>>
    BY <1>1 DEF ReleaseNetworks
  <2>2. /\ DOMAIN nets' = DOMAIN nets \ mine
        /\ \A n \in DOMAIN nets' : nets'[n] = nets[n] /\ nets[n].file # call[t].file
    <3>1. /\ DOMAIN Without(mine) = DOMAIN nets \ mine
          /\ \A n \in DOMAIN nets \ mine : Without(mine)[n] = nets[n]
      BY WithoutNetworks
    <3> QED BY <2>1, <3>1
  <2>3. /\ pc'[t] = "delfile" /\ call' = call
        /\ \A u \in Thread : u # t => pc'[u] = pc[u]
    BY <2>1, MovedThread
  <2>4. NetworksOK'
    <3>1. \A n \in DOMAIN nets' : nets'[n] \in Network /\ nets'[n].file \in files'
      BY <2>1, <2>2 DEF DeviceInv, NetworksOK
    <3>2. ASSUME NEW u \in Thread, pc'[u] = "delfile"
          PROVE  \A n \in DOMAIN nets' : nets'[n].file # call'[u].file
      BY <2>2, <2>3, <3>2 DEF DeviceInv, NetworksOK
    <3> QED BY <2>2, <3>1, <3>2 DEF DeviceInv, NetworksOK
  <2>5. ActiveOK'
    BY <2>1, <2>2 DEF DeviceInv, ActiveOK, NetworksOK, Detach
  <2>6. BusyWithActive'
    <3>1. ASSUME NEW u \in Thread, pc'[u] \in {"commit", "reset", "waiting", "woken", "wlock", "wcommit"}
          PROVE  active' = call'[u].net /\ nets'[active'].file = call'[u].file
      <4>1. u # t /\ pc[u] \in {"commit", "reset", "waiting", "woken", "wlock", "wcommit"}
        BY <2>3, <3>1
      <4>2. /\ active = call[u].net /\ nets[active].file = call[u].file
            /\ active # None /\ active \in DOMAIN nets
        BY <4>1 DEF DeviceInv, BusyWithActive, ActiveOK, LockInv, CallOK
      <4>3. call[u].file # call[t].file
        BY <2>1, <4>1, HoldersAreAlone DEF In, HoldsInst
      <4> QED BY <2>1, <2>2, <2>3, <4>2, <4>3
    <3> QED BY <3>1 DEF BusyWithActive
  <2> QED BY <2>1, <2>4, <2>5, <2>6 DEF DeviceInv
<1>2. CASE ReleaseFile(t)
  <2>1. /\ pc[t] = "delfile" /\ Return(t) /\ files' = files \ {call[t].file}
        /\ powered' = (IF files' = {} THEN FALSE ELSE powered)
        /\ UNCHANGED <<nets, active, domain>>
    BY <1>2 DEF ReleaseFile, networks
  <2>2. \A u \in Thread :
          pc'[u] \in {"commit", "reset", "waiting", "woken", "wlock", "wcommit", "delfile"}
            => pc'[u] = pc[u] /\ call'[u] = call[u]
    BY <2>1, ReturnedThread
  <2>3. NetworksOK'
    <3>1. \A n \in DOMAIN nets' : nets'[n] \in Network /\ nets'[n].file \in files'
      BY <2>1 DEF DeviceInv, NetworksOK
    <3> QED BY <2>1, <2>2, <3>1 DEF DeviceInv, NetworksOK
  <2>4. ActiveOK' /\ BusyWithActive'
    BY <2>1, <2>2 DEF DeviceInv, ActiveOK, BusyWithActive
  <2>5. files' # {} => powered' = TRUE
    BY <2>1 DEF DeviceInv
  <2> QED BY <2>3, <2>4, <2>5 DEF DeviceInv
<1> QED BY <1>1, <1>2

LEMMA DeviceInvStep == LockInv /\ DeviceInv /\ [Next]_vars => DeviceInv'
PROOF
<1> SUFFICES ASSUME LockInv, DeviceInv, [Next]_vars PROVE DeviceInv'
  OBVIOUS
<1> USE DriverAssumption
<1>1. ASSUME NEW f \in File, Open(f) PROVE DeviceInv'
  BY <1>1 DEF Open, networks, threads, DeviceInv, NetworksOK, ActiveOK, BusyWithActive
<1>2. ASSUME NEW t \in Thread, Enter(t) PROVE DeviceInv'
  <2>1. UNCHANGED <<networks, files, powered>>
    BY <1>2 DEF Enter
  <2>2. \A u \in Thread : \/ pc'[u] = pc[u] /\ call'[u] = call[u]
                          \/ pc'[u] = "inst"
    BY <1>2 DEF Enter, LockInv
  <2> QED BY <2>1, <2>2, NothingChanges
<1>3. ASSUME NEW t \in Thread, Locking(t) PROVE DeviceInv'
  <2>1. UNCHANGED <<networks, files, powered, call>>
    BY <1>3 DEF Locking, LockInst, LockDevice, WriteLock, Goto
  <2>2. \A u \in Thread : \/ pc'[u] = pc[u]
                          \/ pc'[u] \in {"device", "body"}
                          \/ pc[u] = "wlock" /\ pc'[u] = "wcommit"
    BY <1>3 DEF Locking, LockInst, LockDevice, WriteLock, Goto, LockInv
  <2> QED BY <2>1, <2>2, NothingChanges
<1>4. ASSUME NEW t \in Thread, Working(t) PROVE DeviceInv'
  <2>1. CASE CreateNetwork(t)
    BY <2>1, CreateKeepsDevice
  <2>2. CASE StartNetwork(t)
    BY <2>2, StartKeepsDevice
  <2>3. CASE StartCommit(t)
    BY <2>3, MovedThread, NothingChanges DEF StartCommit
  <2>4. CASE StartReset(t)
    BY <2>4, ReturnedThread, NothingChanges DEF StartReset
  <2>5. CASE RunNetwork(t)
    <3>1. Return(t) /\ UNCHANGED <<networks, files, powered>>
      BY <2>5 DEF RunNetwork, NoEffect
    <3> QED BY <3>1, ReturnedThread, NothingChanges
  <2>6. CASE WaitNetwork(t)
    <3>1. CASE Return(t) /\ UNCHANGED <<networks, files, powered>>
      BY <3>1, ReturnedThread, NothingChanges
    <3>2. CASE /\ In(t, "wait") /\ Find(t) /\ active = call[t].net
               /\ Goto(t, "waiting") /\ UNCHANGED <<networks, files, powered>>
      <4>1. /\ pc'[t] = "waiting" /\ call' = call
            /\ \A u \in Thread : u # t => pc'[u] = pc[u]
        BY <3>2, MovedThread
      <4> QED BY <3>2, <4>1
              DEF networks, Find, DeviceInv, NetworksOK, ActiveOK, BusyWithActive
    <3> QED BY <2>6, <3>1, <3>2 DEF WaitNetwork, NoEffect
  <2>7. CASE WaitReads(t) \/ WaitTimesOut(t)
    <3>1. Return(t) /\ UNCHANGED <<networks, files, powered>>
      BY <2>7 DEF WaitReads, WaitTimesOut
    <3> QED BY <3>1, ReturnedThread, NothingChanges
  <2>13. CASE WaitCompletes(t)
    BY <2>13, MovedThread, NothingChanges DEF WaitCompletes
  <2>8. CASE StopNetwork(t)
    BY <2>8, StopKeepsDevice
  <2>9. CASE DestroyNetwork(t)
    BY <2>9, DestroyKeepsDevice
  <2>10. CASE WriteLram(t)
    BY <2>10, WriteKeepsDevice
  <2>11. CASE WriteCommit(t) \/ ReadLram(t)
    <3>1. Return(t) /\ UNCHANGED <<networks, files, powered>>
      BY <2>11 DEF WriteCommit, ReadLram, NoEffect
    <3> QED BY <3>1, ReturnedThread, NothingChanges
  <2>12. CASE ReleaseNetworks(t) \/ ReleaseFile(t)
    BY <2>12, ReleaseKeepsDevice
  <2> QED BY <1>4, <2>1, <2>2, <2>3, <2>4, <2>5, <2>6, <2>7, <2>8, <2>9, <2>10,
             <2>11, <2>12, <2>13 DEF Working
<1>5. CASE Hardware \/ UNCHANGED vars
  <2>1. UNCHANGED <<files, powered, networks, threads>>
    BY <1>5 DEF Hardware, JobWrites, JobEnds, IrqStatus, IrqClear, IrqComplete, vars
  <2> QED BY <2>1 DEF networks, threads, DeviceInv, NetworksOK, ActiveOK, BusyWithActive
<1> QED BY <1>1, <1>2, <1>3, <1>4, <1>5 DEF Next
-----------------------------------------------------------------------------
(***************************************************************************)
(* Jobs.  A START that found the hardware idle keeps it idle until its      *)
(* reset.  While a network is active what it wrote is in LRAM, or about to  *)
(* be written by a thread that has found it active.  While its job runs,    *)
(* interrupt_status shows the end of an older job to the one completion     *)
(* that a late handler owes, and to no other.                               *)
(***************************************************************************)
StartFoundIdle == Starting /\ ~foreign => job = None

Pending(a) ==
  \E t \in Thread : pc[t] \in {"wlock", "wcommit"} /\ call[t].net = active
                    /\ call[t].addr = a

SegmentsLoaded ==
  active # None /\ ~foreign /\ (\A t \in Thread : pc[t] # "commit") =>
    \A i \in DOMAIN nets[active].segs :
      lram[nets[active].segs[i].addr].net = active \/ Pending(nets[active].segs[i].addr)

Owed == IF late THEN 1 ELSE 0

Woken == \E t \in Thread : pc[t] = "woken"

(* The completions that a WAIT may still take for the end of the job. *)
Unread == IF Woken THEN completion + 1 ELSE completion

NothingLeftOver ==
  active # None /\ ~Starting /\ job # None /\ ~overrun =>
    /\ NSS \notin status
    /\ NSS \in irqStatus => /\ Unread <= Owed
                            /\ handler # "idle" => Unread < Owed

JobInv ==
  /\ StartFoundIdle
  /\ NoForeignJob
  /\ DOMAIN lram = Addr
  /\ SegmentsLoaded
  /\ completion \in Nat
  /\ NothingLeftOver

LEMMA JobInvInit == Init => JobInv
PROOF
  BY DriverAssumption
  DEF Init, JobInv, StartFoundIdle, Starting, NoForeignJob, SegmentsLoaded, NothingLeftOver

(* What a step keeps that does not touch START: it may only end a job or    *)
(* deactivate the network.                                                  *)
LEMMA OtherStepKeepsStart ==
  ASSUME StartFoundIdle, NoForeignJob, UNCHANGED foreign,
         job' \in {job, None}, active' \in {active, None},
         \A u \in Thread : pc[u] \in {"commit", "reset"} <=> pc'[u] \in {"commit", "reset"}
  PROVE  StartFoundIdle' /\ NoForeignJob'
PROOF
<1>1. Starting' <=> Starting
  BY DEF Starting
<1> QED BY <1>1 DEF StartFoundIdle, NoForeignJob

(* A thread that returns, or that moves between two places outside START.   *)
LEMMA StartUntouched ==
  ASSUME LockInv, NEW t \in Thread, pc[t] \notin {"commit", "reset"},
         Return(t) \/ (\E l \in Place \ {"commit", "reset"} : Goto(t, l))
  PROVE  \A u \in Thread : pc[u] \in {"commit", "reset"} <=> pc'[u] \in {"commit", "reset"}
PROOF
<1>1. \A u \in Thread : u # t => pc'[u] = pc[u]
  BY ReturnedThread, MovedThread
<1>2. pc'[t] \notin {"commit", "reset"}
  BY ReturnedThread, MovedThread
<1> QED BY <1>1, <1>2

(* While a thread holds the device_lock for another call, no START is half  *)
(* done.                                                                    *)
LEMMA NotStarting ==
  ASSUME LockInv, NEW t \in Thread, HoldsDevice(t), pc[t] \notin {"commit", "reset"}
  PROVE  ~Starting
PROOF
  BY HoldersAreAlone DEF Starting, HoldsDevice

(* START ends what another network left running before it returns.          *)
LEMMA ForeignStep ==
  LockInv /\ DeviceInv /\ JobInv /\ [Next]_vars => StartFoundIdle' /\ NoForeignJob'
PROOF
<1> SUFFICES ASSUME LockInv, DeviceInv, JobInv, [Next]_vars
             PROVE  StartFoundIdle' /\ NoForeignJob'
  OBVIOUS
<1>0. StartFoundIdle /\ NoForeignJob
  BY DEF JobInv
<1>1. ASSUME NEW f \in File, Open(f) PROVE StartFoundIdle' /\ NoForeignJob'
  BY <1>0, <1>1, OtherStepKeepsStart DEF Open, networks, threads, hardware, ghosts
<1>2. ASSUME NEW t \in Thread, Enter(t) PROVE StartFoundIdle' /\ NoForeignJob'
  <2>1. \A u \in Thread : pc[u] \in {"commit", "reset"} <=> pc'[u] \in {"commit", "reset"}
    BY <1>2 DEF Enter, LockInv
  <2> QED BY <1>0, <1>2, <2>1, OtherStepKeepsStart DEF Enter, networks, hardware, ghosts
<1>3. ASSUME NEW t \in Thread, Locking(t) PROVE StartFoundIdle' /\ NoForeignJob'
  <2>1. \A u \in Thread : pc[u] \in {"commit", "reset"} <=> pc'[u] \in {"commit", "reset"}
    BY <1>3 DEF Locking, LockInst, LockDevice, WriteLock, Goto, LockInv
  <2>2. UNCHANGED <<active, job, foreign>>
    BY <1>3 DEF Locking, LockInst, LockDevice, WriteLock, networks, hardware, ghosts
  <2> QED BY <1>0, <2>1, <2>2, OtherStepKeepsStart
<1>4. ASSUME NEW t \in Thread, Working(t) PROVE StartFoundIdle' /\ NoForeignJob'
  <2>1. CASE /\ Return(t) /\ pc[t] \notin {"commit", "reset"}
             /\ job' \in {job, None} /\ active' \in {active, None} /\ foreign' = foreign
    BY <1>0, <2>1, StartUntouched, OtherStepKeepsStart
  <2>2. CASE CreateNetwork(t) \/ WaitReads(t) \/ WaitTimesOut(t) \/ StopNetwork(t)
             \/ DestroyNetwork(t) \/ WriteCommit(t) \/ ReadLram(t) \/ ReleaseFile(t)
    <3>1. /\ Return(t) /\ pc[t] \notin {"commit", "reset"}
          /\ active' \in {active, None} /\ UNCHANGED <<job, foreign>>
      BY <2>2 DEF CreateNetwork, WaitReads, WaitTimesOut, StopNetwork, DestroyNetwork,
                  WriteCommit, ReadLram, ReleaseFile, NoEffect, In, Detach, networks,
                  hardware, ghosts
    <3> QED BY <2>1, <3>1
  <2>3. CASE StartNetwork(t)
    <3>1. \/ /\ Return(t) /\ pc[t] \notin {"commit", "reset"}
             /\ UNCHANGED <<job, active, foreign>>
          \/ Goto(t, "commit") /\ UNCHANGED job /\ foreign' = (job # None)
      BY <2>3 DEF StartNetwork, NoEffect, In, networks, hardware, ghosts
    <3>2. CASE Goto(t, "commit") /\ UNCHANGED job /\ foreign' = (job # None)
      <4>1. Starting'
        BY <3>2, MovedThread DEF Starting
      <4> QED BY <3>2, <4>1 DEF StartFoundIdle, NoForeignJob
    <3> QED BY <2>1, <3>1, <3>2
  <2>4. CASE StartCommit(t)
    <3>1. /\ pc[t] = "commit" /\ Goto(t, "reset") /\ UNCHANGED <<job, active, foreign>>
      BY <2>4 DEF StartCommit, networks, ghosts
    <3>2. \A u \in Thread : pc[u] \in {"commit", "reset"} <=> pc'[u] \in {"commit", "reset"}
      BY <3>1, MovedThread
    <3> QED BY <1>0, <3>1, <3>2, OtherStepKeepsStart
  <2>5. CASE StartReset(t)
    BY <2>5 DEF StartReset, StartFoundIdle, NoForeignJob
  <2>6. CASE RunNetwork(t)
    <3>1. \/ Return(t) /\ pc[t] \notin {"commit", "reset"} /\ UNCHANGED <<job, active, foreign>>
          \/ /\ In(t, "run") /\ Return(t) /\ active = call[t].net /\ job' = call[t].net
             /\ UNCHANGED <<active, foreign>>
      BY <2>6 DEF RunNetwork, NoEffect, In, networks, hardware, ghosts
    <3>2. CASE In(t, "run") /\ Return(t) /\ active = call[t].net /\ job' = call[t].net
               /\ UNCHANGED <<active, foreign>>
      <4>1. ~Starting
        BY <3>2, NotStarting DEF In, HoldsDevice, RequireDeviceLock
      <4>2. \A u \in Thread : pc[u] \in {"commit", "reset"} <=> pc'[u] \in {"commit", "reset"}
        BY <3>2, StartUntouched DEF In
      <4>3. ~Starting'
        BY <4>1, <4>2 DEF Starting
      <4> QED BY <3>2, <4>3 DEF StartFoundIdle, NoForeignJob
    <3> QED BY <2>1, <3>1, <3>2
  <2>7. CASE WaitNetwork(t) \/ WaitCompletes(t) \/ WriteLram(t) \/ ReleaseNetworks(t)
    <3>1. /\ pc[t] \in {"body", "waiting"} /\ UNCHANGED <<job, foreign>>
          /\ active' \in {active, None}
          /\ \/ Return(t)
             \/ Goto(t, "waiting") \/ Goto(t, "woken") \/ Goto(t, "wlock") \/ Goto(t, "delfile")
      BY <2>7 DEF WaitNetwork, WaitCompletes, WriteLram, ReleaseNetworks, NoEffect, In, Detach, networks,
                  hardware, ghosts
    <3>2. Return(t) \/ (\E l \in Place \ {"commit", "reset"} : Goto(t, l))
      BY <3>1 DEF Place
    <3> QED BY <1>0, <3>1, <3>2, StartUntouched, OtherStepKeepsStart
  <2> QED BY <1>4, <2>2, <2>3, <2>4, <2>5, <2>6, <2>7 DEF Working
<1>5. CASE Hardware \/ UNCHANGED vars
  <2>1. UNCHANGED <<pc, active, foreign>> /\ job' \in {job, None}
    BY <1>5 DEF Hardware, JobWrites, JobEnds, IrqStatus, IrqClear, IrqComplete, vars, networks,
                threads, hardware, ghosts
  <2> QED BY <1>0, <2>1, OtherStepKeepsStart
<1> QED BY <1>1, <1>2, <1>3, <1>4, <1>5 DEF Next

(* Segments that have been loaded, or are about to be, stay so while the    *)
(* threads that are about to write go on and LRAM is left alone.            *)
LEMMA OtherStepKeepsSegments ==
  ASSUME LockInv, DeviceInv, SegmentsLoaded, UNCHANGED <<lram, foreign>>,
         active' \in {active, None},
         active' # None => nets'[active].segs = nets[active].segs,
         \A u \in Thread :
           /\ pc[u] = "commit" => pc'[u] = "commit"
           /\ pc[u] \in {"wlock", "wcommit"} =>
                pc'[u] \in {"wlock", "wcommit"} /\ call'[u] = call[u]
  PROVE  SegmentsLoaded'
PROOF
<1> SUFFICES ASSUME active' # None, ~foreign', \A u \in Thread : pc'[u] # "commit",
                    NEW k \in DOMAIN nets'[active'].segs
             PROVE  \/ lram'[nets'[active'].segs[k].addr].net = active'
                    \/ Pending(nets[active].segs[k].addr)'
  BY DEF SegmentsLoaded
<1>1. /\ active' = active /\ nets'[active'].segs = nets[active].segs
      /\ active # None /\ ~foreign /\ \A u \in Thread : pc[u] # "commit"
  OBVIOUS
<1>2. ASSUME Pending(nets[active].segs[k].addr)
      PROVE  Pending(nets[active].segs[k].addr)'
  BY <1>1, <1>2 DEF Pending
<1>3. \/ lram[nets[active].segs[k].addr].net = active
      \/ Pending(nets[active].segs[k].addr)
  BY <1>1 DEF SegmentsLoaded
<1> QED BY <1>1, <1>2, <1>3

(* The same for a thread that returns, or moves outside START and WRITE.    *)
LEMMA CallKeepsSegments ==
  ASSUME LockInv, DeviceInv, SegmentsLoaded, UNCHANGED <<lram, foreign>>,
         active' \in {active, None},
         active' # None => nets'[active].segs = nets[active].segs,
         NEW t \in Thread, pc[t] \notin {"commit", "wlock", "wcommit"},
         Return(t) \/ \E l \in Place : Goto(t, l)
  PROVE  SegmentsLoaded'
PROOF
<1>1. \A u \in Thread : u # t => pc'[u] = pc[u] /\ call'[u] = call[u]
  BY ReturnedThread, MovedThread
<1>2. \A u \in Thread :
        /\ pc[u] = "commit" => pc'[u] = "commit"
        /\ pc[u] \in {"wlock", "wcommit"} =>
             pc'[u] \in {"wlock", "wcommit"} /\ call'[u] = call[u]
  BY <1>1
<1> QED BY <1>2, OtherStepKeepsSegments

(* torq_commit_network_lram leaves every segment of the network in LRAM.    *)
LEMMA CommittedSegments ==
  ASSUME LockInv, DeviceInv, NEW n \in DOMAIN nets, NEW k \in DOMAIN nets[n].segs
  PROVE  Committed(n)[nets[n].segs[k].addr].net = n
PROOF
<1>1. nets[n].segs \in Seq(Segment)
  BY DEF DeviceInv, NetworksOK, Network
<1>2. nets[n].segs[k] \in Segment
  BY <1>1
<1>3. nets[n].segs[k].addr \in Addr
  BY <1>2 DEF Segment
<1> DEFINE a == nets[n].segs[k].addr
           here == {m \in DOMAIN nets[n].segs : nets[n].segs[m].addr = a}
           last == CHOOSE m \in here : \A j \in here : j <= m
<1>4. Committed(n)[a] = IF here = {} THEN lram[a] ELSE [net |-> n, data |-> nets[n].segs[last].data]
  BY <1>3 DEF Committed
<1>5. here # {}
  OBVIOUS
<1> QED BY <1>4, <1>5

(* While a network is active, its segments stay loaded.                     *)
LEMMA LoadedStep == LockInv /\ DeviceInv /\ JobInv /\ [Next]_vars => SegmentsLoaded'
PROOF
<1> SUFFICES ASSUME LockInv, DeviceInv, JobInv, [Next]_vars PROVE SegmentsLoaded'
  OBVIOUS
<1>0. SegmentsLoaded /\ StartFoundIdle /\ NoForeignJob /\ DOMAIN lram = Addr
  BY DEF JobInv
<1>1. ASSUME NEW f \in File, Open(f) PROVE SegmentsLoaded'
  BY <1>0, <1>1, OtherStepKeepsSegments DEF Open, networks, threads, hardware, ghosts
<1>2. ASSUME NEW t \in Thread, Enter(t) PROVE SegmentsLoaded'
  <2>1. \A u \in Thread : pc[u] \in {"commit", "wlock", "wcommit"} =>
                            pc'[u] = pc[u] /\ call'[u] = call[u]
    BY <1>2 DEF Enter, LockInv
  <2> QED BY <1>0, <1>2, <2>1, OtherStepKeepsSegments DEF Enter, networks, hardware, ghosts
<1>3. ASSUME NEW t \in Thread, Locking(t) PROVE SegmentsLoaded'
  <2>1. /\ call' = call
        /\ \A u \in Thread : \/ pc'[u] = pc[u]
                             \/ pc[u] \in {"inst", "device"}
                             \/ pc[u] = "wlock" /\ pc'[u] = "wcommit"
    BY <1>3 DEF Locking, LockInst, LockDevice, WriteLock, Goto, LockInv
  <2>2. UNCHANGED <<active, nets, lram, foreign>>
    BY <1>3 DEF Locking, LockInst, LockDevice, WriteLock, networks, hardware, ghosts
  <2> QED BY <1>0, <2>1, <2>2, OtherStepKeepsSegments
<1>4. ASSUME NEW t \in Thread, Working(t) PROVE SegmentsLoaded'
  <2>1. CASE /\ Return(t) /\ pc[t] \notin {"commit", "wlock", "wcommit"}
             /\ UNCHANGED <<active, nets, lram, foreign>>
    BY <1>0, <2>1, CallKeepsSegments
  <2>2. CASE WaitReads(t) \/ WaitTimesOut(t) \/ ReadLram(t) \/ ReleaseFile(t)
             \/ RunNetwork(t) \/ StartReset(t)
    <3>1. /\ Return(t) /\ pc[t] \notin {"commit", "wlock", "wcommit"}
          /\ UNCHANGED <<active, nets, lram, foreign>>
      BY <2>2 DEF RunNetwork, WaitReads, WaitTimesOut, ReadLram, ReleaseFile, StartReset,
                  NoEffect, In, networks, hardware, ghosts
    <3> QED BY <2>1, <3>1
  <2>3. CASE CreateNetwork(t)
    <3>1. /\ Return(t) /\ pc[t] = "body" /\ UNCHANGED <<active, lram, foreign>>
          /\ \A m \in DOMAIN nets : nets'[m] = nets[m]
      BY <2>3 DEF CreateNetwork, NoEffect, In, networks, hardware, ghosts
    <3>2. active' # None => nets'[active].segs = nets[active].segs
      BY <3>1 DEF DeviceInv, ActiveOK
    <3> QED BY <1>0, <3>1, <3>2, CallKeepsSegments
  <2>4. CASE StartNetwork(t)
    <3>1. \/ /\ Return(t) /\ pc[t] = "body" /\ active' \in {active, None}
             /\ UNCHANGED <<nets, lram, foreign>>
          \/ Goto(t, "commit")
      BY <2>4 DEF StartNetwork, NoEffect, In, networks, hardware, ghosts
    <3>2. CASE Goto(t, "commit")
      BY <3>2, MovedThread DEF SegmentsLoaded
    <3> QED BY <1>0, <3>1, <3>2, CallKeepsSegments
  <2>5. CASE StartCommit(t)
    <3>1. /\ lram' = Committed(call[t].net) /\ UNCHANGED <<nets, active>> /\ pc[t] = "commit"
      BY <2>5 DEF StartCommit, networks
    <3>2. active = call[t].net
      BY <3>1 DEF DeviceInv, BusyWithActive
    <3>3. active # None => active \in DOMAIN nets
      BY DEF DeviceInv, ActiveOK
    <3> QED BY <3>1, <3>2, <3>3, CommittedSegments DEF SegmentsLoaded
  <2>6. CASE WaitNetwork(t) \/ WaitCompletes(t) \/ StopNetwork(t) \/ ReleaseNetworks(t)
    <3>1. /\ pc[t] \in {"body", "waiting"} /\ UNCHANGED <<lram, foreign>>
          /\ active' \in {active, None}
          /\ \/ Return(t) \/ Goto(t, "waiting") \/ Goto(t, "woken") \/ Goto(t, "delfile")
      BY <2>6 DEF WaitNetwork, WaitCompletes, StopNetwork, ReleaseNetworks, NoEffect, In, Detach, networks,
                  hardware, ghosts
    <3>2. Return(t) \/ (\E l \in Place : Goto(t, l))
      BY <3>1 DEF Place
    <3>3. active' # None => nets'[active].segs = nets[active].segs
      <4>1. CASE UNCHANGED nets
        BY <4>1
      <4>2. CASE ReleaseNetworks(t) /\ active' # None
        <5> DEFINE mine == {n \in DOMAIN nets : nets[n].file = call[t].file}
        <5>1. nets' = Without(mine) /\ active \notin mine
          BY <4>2 DEF ReleaseNetworks, Detach
        <5>2. active \in DOMAIN nets
          BY <3>1, <4>2 DEF DeviceInv, ActiveOK
        <5>3. Without(mine)[active] = nets[active]
          BY <5>1, <5>2, WithoutNetworks
        <5> QED BY <5>1, <5>3
      <4> QED BY <2>6, <4>1, <4>2 DEF WaitNetwork, WaitCompletes, StopNetwork, NoEffect, networks
    <3> QED BY <1>0, <3>1, <3>2, <3>3, CallKeepsSegments
  <2>7. CASE DestroyNetwork(t)
    <3>1. \/ Return(t) /\ pc[t] = "body" /\ UNCHANGED <<active, nets, lram, foreign>>
          \/ /\ Return(t) /\ pc[t] = "body" /\ active # call[t].net
             /\ nets' = Without({call[t].net}) /\ UNCHANGED <<active, lram, foreign>>
      BY <2>7 DEF DestroyNetwork, NoEffect, In, networks, hardware, ghosts
    <3>2. CASE /\ Return(t) /\ pc[t] = "body" /\ active # call[t].net
               /\ nets' = Without({call[t].net}) /\ UNCHANGED <<active, lram, foreign>>
      <4>1. active # None => nets'[active].segs = nets[active].segs
        BY <3>2, WithoutNetworks DEF DeviceInv, ActiveOK
      <4> QED BY <1>0, <3>2, <4>1, CallKeepsSegments
    <3> QED BY <2>1, <3>1, <3>2
  <2>8. CASE WriteLram(t)
    <3> DEFINE n == call[t].net
               segment == [addr |-> call[t].addr, data |-> call[t].data]
    <3>1. \/ Return(t) /\ pc[t] = "body" /\ UNCHANGED <<active, nets, lram, foreign>>
          \/ /\ pc[t] = "body" /\ n \in DOMAIN nets
             /\ \/ nets' = [nets EXCEPT ![n].segs = Append(@, segment)]
                \/ UNCHANGED nets
             /\ IF active = n THEN Goto(t, "wlock") ELSE Return(t)
             /\ UNCHANGED <<active, lram, foreign>>
      BY <2>8 DEF WriteLram, NoEffect, In, Find, networks, hardware, ghosts
    <3>2. CASE /\ pc[t] = "body" /\ Return(t) /\ active # n
               /\ \/ nets' = [nets EXCEPT ![n].segs = Append(@, segment)]
                  \/ UNCHANGED nets
               /\ UNCHANGED <<active, lram, foreign>>
      <4>1. active' # None => nets'[active].segs = nets[active].segs
        <5>1. active' # None => active \in DOMAIN nets
          BY <3>2 DEF DeviceInv, ActiveOK
        <5> QED BY <3>2, <5>1
      <4> QED BY <1>0, <3>2, <4>1, CallKeepsSegments
    <3>3. CASE pc[t] = "body" /\ Goto(t, "wlock") /\ UNCHANGED <<active, nets, lram, foreign>>
      BY <1>0, <3>3, CallKeepsSegments DEF Place
    <3>4. CASE /\ pc[t] = "body" /\ Goto(t, "wlock") /\ active = n /\ n \in DOMAIN nets
               /\ nets' = [nets EXCEPT ![n].segs = Append(@, segment)]
               /\ UNCHANGED <<active, lram, foreign>>
      <4>1. /\ pc'[t] = "wlock" /\ call' = call
            /\ \A u \in Thread : u # t => pc'[u] = pc[u]
        BY <3>4, MovedThread
      <4>2. nets[n] \in Network /\ nets[n].segs \in Seq(Segment)
        BY <3>4 DEF DeviceInv, NetworksOK, Network
      <4>3. nets'[n].segs = Append(nets[n].segs, segment)
        <5>1. nets'[n] = [nets[n] EXCEPT !.segs = Append(nets[n].segs, segment)]
          BY <3>4
        <5> QED BY <4>2, <5>1 DEF Network
      <4>4. /\ active = n /\ active' = active /\ lram' = lram /\ foreign' = foreign
            /\ \A u \in Thread : pc'[u] # "commit" => pc[u] # "commit"
        BY <3>4, <4>1
      <4>5. SUFFICES ASSUME active # None, ~foreign, \A u \in Thread : pc[u] # "commit",
                            NEW k \in DOMAIN nets'[n].segs
                     PROVE  \/ lram[nets'[n].segs[k].addr].net = n
                            \/ \E u \in Thread : /\ pc'[u] \in {"wlock", "wcommit"}
                                                 /\ call'[u].net = n
                                                 /\ call'[u].addr = nets'[n].segs[k].addr
        BY <4>4 DEF SegmentsLoaded, Pending
      <4>6. CASE k \in DOMAIN nets[n].segs
        <5>1. nets'[n].segs[k] = nets[n].segs[k]
          BY <4>2, <4>3, <4>6
        <5>2. lram[nets[n].segs[k].addr].net = n \/ Pending(nets[n].segs[k].addr)
          BY <1>0, <3>4, <4>5, <4>6 DEF SegmentsLoaded
        <5> QED BY <3>4, <4>1, <5>1, <5>2 DEF Pending
      <4>7. CASE k \notin DOMAIN nets[n].segs
        <5>1. nets'[n].segs[k] = segment
          BY <4>2, <4>3, <4>5, <4>7
        <5>2. nets'[n].segs[k].addr = call[t].addr
          BY <5>1
        <5> QED BY <3>4, <4>1, <5>2
      <4> QED BY <4>6, <4>7
    <3> QED BY <2>1, <3>1, <3>2, <3>3, <3>4
  <2>9. CASE WriteCommit(t)
    <3>1. /\ lram' = [lram EXCEPT ![call[t].addr] = [net |-> call[t].net, data |-> call[t].data]]
          /\ pc[t] = "wcommit" /\ Return(t) /\ UNCHANGED <<active, nets, foreign>>
      BY <2>9 DEF WriteCommit, networks, ghosts
    <3>2. call[t].net = active /\ call[t].addr \in Addr
      BY <3>1 DEF DeviceInv, BusyWithActive, LockInv, CallOK
    <3>3. /\ lram'[call[t].addr].net = active
          /\ \A a : a # call[t].addr => lram'[a] = lram[a]
      BY <1>0, <3>1, <3>2
    <3>4. \A u \in Thread : u # t => pc'[u] = pc[u] /\ call'[u] = call[u]
      BY <3>1, ReturnedThread
    <3>5. SUFFICES ASSUME active # None, ~foreign, \A u \in Thread : pc[u] # "commit",
                          NEW k \in DOMAIN nets[active].segs
                   PROVE  \/ lram'[nets[active].segs[k].addr].net = active
                          \/ \E u \in Thread : /\ pc'[u] \in {"wlock", "wcommit"}
                                               /\ call'[u].net = active
                                               /\ call'[u].addr = nets[active].segs[k].addr
      <4>1. \A u \in Thread : pc'[u] # "commit" => pc[u] # "commit"
        BY <3>1, <3>4
      <4> QED BY <3>1, <4>1 DEF SegmentsLoaded, Pending
    <3>6. \/ lram[nets[active].segs[k].addr].net = active
          \/ Pending(nets[active].segs[k].addr)
      BY <1>0, <3>5 DEF SegmentsLoaded
    <3> QED BY <3>3, <3>4, <3>6 DEF Pending
  <2> QED BY <1>4, <2>2, <2>3, <2>4, <2>5, <2>6, <2>7, <2>8, <2>9 DEF Working
<1>5. CASE (\E a \in Addr : JobWrites(a))
  <2>1. PICK a \in Addr : job # None /\ lram' = [lram EXCEPT ![a] = [net |-> job, data |-> Result]]
    BY <1>5 DEF JobWrites
  <2>2. UNCHANGED <<active, nets, foreign, pc, call>>
    BY <1>5 DEF JobWrites, networks, threads, ghosts
  <2>3. active # None /\ ~foreign => job = active
    BY <1>0, <2>1 DEF StartFoundIdle, NoForeignJob
  <2>4. /\ active # None /\ ~foreign => lram'[a].net = active
        /\ \A b : b # a => lram'[b] = lram[b]
    BY <1>0, <2>1, <2>3
  <2> QED BY <1>0, <2>2, <2>4 DEF SegmentsLoaded, Pending
<1>6. CASE JobEnds \/ IrqStatus \/ IrqClear \/ IrqComplete \/ UNCHANGED vars
  <2>1. UNCHANGED <<active, nets, foreign, pc, call, lram>>
    BY <1>6 DEF JobEnds, IrqStatus, IrqClear, IrqComplete, vars, networks, threads, hardware, ghosts
  <2> QED BY <1>0, <2>1 DEF SegmentsLoaded, Pending
<1> QED BY <1>1, <1>2, <1>3, <1>4, <1>5, <1>6 DEF Next, Hardware

(* A network becomes active only by START, whose reset leaves no job.       *)
LEMMA ActivatedIdle ==
  LockInv /\ [Next]_vars =>
    (active' # None /\ ~Starting' => (active # None /\ ~Starting) \/ job' = None)
PROOF
<1> SUFFICES ASSUME LockInv, [Next]_vars, active' # None, ~Starting', job' # None
             PROVE  active # None /\ ~Starting
  OBVIOUS
<1>1. ASSUME active' \in {active, None},
             \A u \in Thread : pc[u] \in {"commit", "reset"} <=> pc'[u] \in {"commit", "reset"}
      PROVE  active # None /\ ~Starting
  BY <1>1 DEF Starting
<1>2. CASE (\E f \in File : Open(f)) \/ Hardware \/ UNCHANGED vars
  BY <1>1, <1>2 DEF Open, Hardware, JobWrites, JobEnds, IrqStatus, IrqClear, IrqComplete, vars,
                    networks, threads
<1>3. ASSUME NEW t \in Thread, Enter(t) PROVE active # None /\ ~Starting
  BY <1>1, <1>3 DEF Enter, networks, LockInv
<1>4. ASSUME NEW t \in Thread, Locking(t) PROVE active # None /\ ~Starting
  BY <1>1, <1>4 DEF Locking, LockInst, LockDevice, WriteLock, Goto, LockInv, networks
<1>5. ASSUME NEW t \in Thread, Working(t) PROVE active # None /\ ~Starting
  <2>1. CASE /\ Return(t) \/ (\E l \in Place \ {"commit", "reset"} : Goto(t, l))
             /\ pc[t] \notin {"commit", "reset"} /\ active' \in {active, None}
    BY <1>1, <2>1, StartUntouched
  <2>2. CASE CreateNetwork(t) \/ RunNetwork(t) \/ WaitReads(t) \/ WaitTimesOut(t)
             \/ StopNetwork(t) \/ DestroyNetwork(t) \/ WriteCommit(t) \/ ReadLram(t)
             \/ ReleaseFile(t)
    <3>1. Return(t) /\ pc[t] \notin {"commit", "reset"} /\ active' \in {active, None}
      BY <2>2 DEF CreateNetwork, RunNetwork, WaitReads, WaitTimesOut, StopNetwork,
                  DestroyNetwork, WriteCommit, ReadLram, ReleaseFile, NoEffect, In, Detach,
                  networks
    <3> QED BY <2>1, <3>1
  <2>3. CASE StartNetwork(t)
    <3>1. \/ Return(t) /\ pc[t] = "body" /\ active' = active
          \/ Goto(t, "commit")
      BY <2>3 DEF StartNetwork, NoEffect, In, networks
    <3>2. ~Goto(t, "commit")
      BY MovedThread DEF Starting
    <3> QED BY <2>1, <3>1, <3>2
  <2>4. CASE StartCommit(t)
    BY <2>4, MovedThread DEF StartCommit, Starting
  <2>5. CASE StartReset(t)
    BY <2>5 DEF StartReset
  <2>6. CASE WaitNetwork(t) \/ WaitCompletes(t) \/ WriteLram(t) \/ ReleaseNetworks(t)
    <3>1. /\ pc[t] \in {"body", "waiting"} /\ active' \in {active, None}
          /\ \/ Return(t)
             \/ Goto(t, "waiting") \/ Goto(t, "woken") \/ Goto(t, "wlock") \/ Goto(t, "delfile")
      BY <2>6 DEF WaitNetwork, WaitCompletes, WriteLram, ReleaseNetworks, NoEffect, In, Detach, networks
    <3>2. Return(t) \/ (\E l \in Place \ {"commit", "reset"} : Goto(t, l))
      BY <3>1 DEF Place
    <3> QED BY <2>1, <3>1, <3>2
  <2> QED BY <1>5, <2>2, <2>3, <2>4, <2>5, <2>6 DEF Working
<1> QED BY <1>2, <1>3, <1>4, <1>5 DEF Next

(* The clock is on while a network is active.                               *)
LEMMA ActiveIsPowered == DeviceInv /\ active # None => powered
PROOF
<1> SUFFICES ASSUME DeviceInv, active # None PROVE powered
  OBVIOUS
<1>1. active \in DOMAIN nets
  BY DEF DeviceInv, ActiveOK
<1>2. nets[active].file \in files
  BY <1>1 DEF DeviceInv, NetworksOK
<1>3. powered = TRUE
  BY <1>2 DEF DeviceInv
<1> QED BY <1>3

(* A WAIT that is woken holds the device_lock: no other call is at work.    *)
LEMMA WokenKept ==
  ASSUME LockInv, NEW t \in Thread, pc[t] # "woken",
         Return(t) \/ (\E l \in Place \ {"woken"} : Goto(t, l))
  PROVE  Woken' <=> Woken
PROOF
<1>1. \A u \in Thread : u # t => pc'[u] = pc[u]
  BY ReturnedThread, MovedThread
<1>2. pc'[t] # "woken"
  BY ReturnedThread, MovedThread
<1> QED BY <1>1, <1>2 DEF Woken

(* While the job of the active network runs and RUN has not overtaken the   *)
(* one before, STATUS does not show the end of a job, and the handler and   *)
(* the completion no more of it than a late RUN has left.                   *)
LEMMA LeftOverStep ==
  LockInv /\ DeviceInv /\ JobInv /\ [Next]_vars => completion' \in Nat /\ NothingLeftOver'
PROOF
<1> SUFFICES ASSUME LockInv, DeviceInv, JobInv, [Next]_vars
             PROVE  completion' \in Nat /\ NothingLeftOver'
  OBVIOUS
<1>0. NothingLeftOver /\ completion \in Nat
  BY DEF JobInv
<1>1. CASE UNCHANGED <<overrun, late, job, status, irq>> /\ (Woken' <=> Woken)
  <2>1. completion' = completion /\ Owed' = Owed /\ Unread' = Unread
    BY <1>1 DEF irq, Owed, Unread
  <2> QED BY <1>0, <1>1, <2>1, ActivatedIdle DEF NothingLeftOver, irq
<1>2. CASE (\E f \in File : Open(f)) \/ (\E t \in Thread : Enter(t) \/ Locking(t))
           \/ (\E a \in Addr : JobWrites(a)) \/ UNCHANGED vars
  <2>1. UNCHANGED <<overrun, late, job, status, irq>>
    BY <1>2 DEF Open, Enter, Locking, LockInst, LockDevice, WriteLock, JobWrites, vars,
                hardware, ghosts
  <2>2. \A u \in Thread : pc'[u] = "woken" <=> pc[u] = "woken"
    BY <1>2 DEF Open, Enter, Locking, LockInst, LockDevice, WriteLock, JobWrites, vars,
                threads, Goto, LockInv
  <2>3. Woken' <=> Woken
    BY <2>2 DEF Woken
  <2> QED BY <1>1, <2>1, <2>3
<1>3. ASSUME NEW t \in Thread, Working(t) PROVE completion' \in Nat /\ NothingLeftOver'
  <2>1. CASE CreateNetwork(t) \/ StartNetwork(t) \/ StartCommit(t) \/ WaitNetwork(t)
             \/ WaitTimesOut(t) \/ StopNetwork(t) \/ DestroyNetwork(t) \/ WriteLram(t)
             \/ WriteCommit(t) \/ ReadLram(t) \/ ReleaseNetworks(t) \/ ReleaseFile(t)
    <3>1. /\ pc[t] \in {"body", "commit", "waiting", "wcommit", "delfile"}
          /\ \/ Return(t) \/ Goto(t, "commit") \/ Goto(t, "reset")
             \/ Goto(t, "waiting") \/ Goto(t, "wlock") \/ Goto(t, "delfile")
      BY <2>1 DEF CreateNetwork, StartNetwork, StartCommit, WaitNetwork, WaitTimesOut,
           StopNetwork, DestroyNetwork, WriteLram, WriteCommit, ReadLram, ReleaseNetworks,
           ReleaseFile, NoEffect, In
    <3>2. Woken' <=> Woken
      BY <3>1, WokenKept DEF Place
    <3>3. UNCHANGED <<overrun, late, job, status, irq>>
      BY <2>1 DEF CreateNetwork, StartNetwork, StartCommit, WaitNetwork, WaitTimesOut,
           StopNetwork, DestroyNetwork, WriteLram, WriteCommit, ReadLram, ReleaseNetworks,
           ReleaseFile, NoEffect, hardware, ghosts
    <3> QED BY <1>1, <3>2, <3>3
  <2>2. CASE StartReset(t)
    BY <1>0, <2>2 DEF StartReset, irq, NothingLeftOver
  <2>3. CASE RunNetwork(t)
    <3>1. \/ UNCHANGED <<overrun, late, job, status, irq>>
          \/ /\ completion' = 0 /\ UNCHANGED <<status, irqStatus, handler>>
             /\ overrun' = (job # None \/ NSS \in status)
             /\ late' = (handler # "idle" /\ NSS \in irqStatus)
      BY <2>3 DEF RunNetwork, Overtakes, NoEffect, hardware, ghosts
    <3>2. pc[t] = "body" /\ HoldsDevice(t) /\ Return(t)
      BY <2>3 DEF RunNetwork, NoEffect, In, HoldsDevice, RequireDeviceLock
    <3>3. ~Woken /\ ~Woken'
      <4>1. ~Woken
        BY <3>2, HoldersAreAlone DEF Woken, HoldsDevice
      <4> QED BY <3>2, <4>1, WokenKept
    <3>4. CASE /\ completion' = 0 /\ UNCHANGED <<status, irqStatus, handler>>
               /\ overrun' = (job # None \/ NSS \in status)
               /\ late' = (handler # "idle" /\ NSS \in irqStatus)
      <4>1. ~overrun' => NSS \notin status'
        BY <3>4
      <4>2. Unread' = 0
        BY <3>3, <3>4 DEF Unread
      <4>3. Owed' \in {0, 1}
        BY DEF Owed
      <4>4. NSS \in irqStatus' /\ handler' # "idle" => Owed' = 1
        <5>1. NSS \in irqStatus' /\ handler' # "idle" => late'
          BY <3>4
        <5> QED BY <5>1 DEF Owed
      <4>5. NSS \in irqStatus' => /\ Unread' <= Owed'
                                  /\ handler' # "idle" => Unread' < Owed'
        BY <4>2, <4>3, <4>4
      <4> QED BY <3>4, <4>1, <4>5 DEF NothingLeftOver
    <3> QED BY <1>1, <3>1, <3>3, <3>4
  <2>4. CASE WaitCompletes(t)
    <3>1. /\ completion > 0 /\ completion' = completion - 1 /\ Goto(t, "woken")
          /\ UNCHANGED <<overrun, late, job, status, irqStatus, handler>> /\ HoldsDevice(t)
          /\ pc[t] = "waiting"
      BY <2>4 DEF WaitCompletes, hardware, ghosts, HoldsDevice
    <3>2. ~Woken /\ Woken'
      BY <3>1, HoldersAreAlone, MovedThread DEF Woken, HoldsDevice
    <3>3. completion' \in Nat /\ Unread' = Unread /\ Owed' = Owed
      BY <1>0, <3>1, <3>2 DEF Unread, Owed
    <3> QED BY <1>0, <3>1, <3>3, ActivatedIdle DEF NothingLeftOver
  <2>5. CASE WaitReads(t)
    <3>1. /\ pc[t] = "woken" /\ late' = FALSE /\ Return(t) /\ HoldsDevice(t)
          /\ UNCHANGED <<overrun, job, status, irqStatus, handler, completion>>
      BY <2>5 DEF WaitReads, hardware, irq, HoldsDevice
    <3>2. \A u \in Thread : u # t => pc[u] # "woken"
      BY <3>1, HoldersAreAlone DEF HoldsDevice
    <3>3. Woken /\ ~Woken'
      BY <3>1, <3>2, ReturnedThread DEF Woken
    <3>4. Unread = completion + 1 /\ Unread' = completion /\ Owed \in {0, 1} /\ Owed' = 0
      BY <3>1, <3>3 DEF Unread, Owed
    <3>5. Unread <= Owed /\ (handler # "idle" => Unread < Owed)
            => Unread' <= Owed' /\ handler = "idle"
      BY <1>0, <3>4
    <3> QED BY <1>0, <3>1, <3>5, ActivatedIdle DEF NothingLeftOver
  <2> QED BY <1>3, <2>1, <2>2, <2>3, <2>4, <2>5 DEF Working
<1>4. CASE JobEnds
  BY <1>0, <1>4 DEF JobEnds, irq, NothingLeftOver
<1>5. CASE IrqStatus
  <2>1. /\ IF powered THEN irqStatus' = status ELSE irqStatus' \in SUBSET (Bits \cup {NSS})
        /\ UNCHANGED <<overrun, late, job, status, active, completion>>
    BY <1>5 DEF IrqStatus, ghosts, networks, hardware
  <2>2. NSS \notin status => NSS \notin irqStatus' \/ active = None
    BY <2>1, ActiveIsPowered
  <2> QED BY <1>0, <2>1, <2>2, ActivatedIdle DEF NothingLeftOver
<1>6. CASE IrqClear
  <2>1. /\ status' \subseteq status /\ handler = "clear" /\ handler' = "complete"
        /\ UNCHANGED <<overrun, late, job, irqStatus, completion, pc>>
    BY <1>6 DEF IrqClear, ghosts, threads
  <2>2. Owed' = Owed /\ Unread' = Unread
    BY <2>1 DEF Owed, Unread, Woken
  <2> QED BY <1>0, <2>1, <2>2, ActivatedIdle DEF NothingLeftOver
<1>7. CASE IrqComplete
  <2>1. /\ handler = "complete" /\ handler' = "idle" /\ completion' = completion + 1
        /\ UNCHANGED <<overrun, late, job, status, irqStatus, pc>>
    BY <1>7 DEF IrqComplete, hardware, ghosts, threads
  <2>2. Owed' = Owed /\ Owed \in {0, 1}
    BY <2>1 DEF Owed
  <2>3. Unread' = Unread + 1 /\ Unread \in Nat
    BY <1>0, <2>1 DEF Unread, Woken
  <2>4. Unread < Owed => Unread' <= Owed
    BY <2>2, <2>3
  <2> QED BY <1>0, <2>1, <2>2, <2>4, ActivatedIdle DEF NothingLeftOver
<1> QED BY <1>2, <1>3, <1>4, <1>5, <1>6, <1>7 DEF Next, Hardware

LEMMA JobInvStep == LockInv /\ DeviceInv /\ JobInv /\ [Next]_vars => JobInv'
PROOF
<1> SUFFICES ASSUME LockInv, DeviceInv, JobInv, [Next]_vars PROVE JobInv'
  OBVIOUS
<1>1. DOMAIN lram' = Addr
  <2>1. \/ lram' = lram
        \/ \E a, x : lram' = [lram EXCEPT ![a] = x]
        \/ \E n : lram' = Committed(n)
    BY DEF Next, Hardware, vars, hardware, Open, Enter, Locking, LockInst, LockDevice,
         WriteLock, Working, CreateNetwork, StartNetwork, StartCommit, StartReset,
         RunNetwork, WaitNetwork, WaitCompletes, WaitReads, WaitTimesOut, StopNetwork,
         DestroyNetwork, WriteLram, WriteCommit, ReadLram, ReleaseNetworks, ReleaseFile, NoEffect,
         JobWrites, JobEnds, IrqStatus, IrqClear, IrqComplete
  <2> QED BY <2>1 DEF JobInv, Committed
<1> QED BY <1>1, ForeignStep, LoadedStep, LeftOverStep DEF JobInv
-----------------------------------------------------------------------------
DriverInv == LockInv /\ DeviceInv /\ JobInv

LEMMA DriverInvHolds == Spec => []DriverInv
PROOF
<1>1. Init => DriverInv
  BY LockInvInit, DeviceInvInit, JobInvInit DEF DriverInv
<1>2. DriverInv /\ [Next]_vars => DriverInv'
  BY LockInvStep, DeviceInvStep, JobInvStep DEF DriverInv
<1> QED BY <1>1, <1>2, PTL DEF Spec

(* The IOMMU domain of the device is that of the active network whenever    *)
(* the device_lock is free: every exit of torq_start_network,               *)
(* torq_stop_network and torq_release agrees with active_network.           *)
THEOREM DriverDomainFollowsActive == Spec => []DomainFollowsActive
PROOF
<1>1. DriverInv => DomainFollowsActive
  BY DEF DriverInv, DeviceInv, ActiveOK, DomainFollowsActive
<1> QED BY <1>1, DriverInvHolds, PTL

(* torq_destroy_network and torq_release free no network that is active or  *)
(* whose domain the device uses.                                            *)
THEOREM DriverNoFreedNetworkInUse == Spec => []NoFreedNetworkInUse
PROOF
<1>1. DriverInv => NoFreedNetworkInUse
  BY DriverAssumption DEF DriverInv, DeviceInv, ActiveOK, NoFreedNetworkInUse
<1> QED BY <1>1, DriverInvHolds, PTL

(* torq_write_lram reads active_network before it takes the device_lock,    *)
(* and still writes the hardware only for the active network: whoever would *)
(* stop the network needs the inst_mutex of the same file.                  *)
THEOREM DriverWritesReachTheirNetwork == Spec => []WritesReachTheirNetwork
PROOF
<1>1. DriverInv => WritesReachTheirNetwork
  BY DEF DriverInv, DeviceInv, BusyWithActive, WritesReachTheirNetwork
<1> QED BY <1>1, DriverInvHolds, PTL

(* RUN's register writes, the LRAM and reset of START, a write to LRAM and  *)
(* the wait for the NPU are made with the clock on: the file of a running   *)
(* call is open, and torq_release turns the clock off only with the last    *)
(* file.  The interrupt handler is not a system call and not meant here.    *)
THEOREM DriverCallsAreClocked == Spec => []CallsAreClocked
PROOF
<1>1. DriverInv => CallsAreClocked
  <2> SUFFICES ASSUME DriverInv, NEW t \in Thread, UsesHardware(t)
               PROVE  powered
    BY DEF CallsAreClocked
  <2>1. call[t].file \in files
    BY DEF DriverInv, LockInv, CallOK, UsesHardware, In
  <2>2. powered = TRUE
    BY <2>1 DEF DriverInv, DeviceInv
  <2> QED BY <2>2
<1> QED BY <1>1, DriverInvHolds, PTL

(* After START no job of another network runs, although STOP, DESTROY and   *)
(* release leave jobs running.                                              *)
THEOREM DriverNoForeignJob == Spec => []NoForeignJob
PROOF
<1>1. DriverInv => NoForeignJob
  BY DEF DriverInv, JobInv
<1> QED BY <1>1, DriverInvHolds, PTL

(* A job started on hardware that START found idle finds the segments of    *)
(* its network in LRAM, for any number of networks and of writes to them.   *)
THEOREM DriverJobFindsItsLram == Spec => []JobFindsItsLram
PROOF
<1>1. DriverInv => JobFindsItsLram
  BY DEF DriverInv, JobInv, SegmentsLoaded, Pending, Starting, JobFindsItsLram
<1> QED BY <1>1, DriverInvHolds, PTL

(* WAIT for NSS returns 0 while a job runs only if RUN overtook its own     *)
(* network's job, or fell into the handler between its readl and complete,  *)
(* and then for one WAIT: torq_run_network reinitialises the completion,    *)
(* the reset of START clears STATUS, and what a handler reads for another   *)
(* device while the job runs is not NSS.                                    *)
THEOREM DriverWaitMeansFinished == Spec => WaitMeansFinished
PROOF
<1>1. ASSUME DriverInv, DriverInv', NEW t \in Thread, WaitSucceeds(t)
      PROVE  job = None \/ overrun \/ late
  <2>1. ~Starting
    BY <1>1, NotStarting DEF DriverInv, WaitSucceeds, HoldsDevice
  <2>2. active # None
    BY <1>1, DriverAssumption
    DEF DriverInv, WaitSucceeds, DeviceInv, BusyWithActive, LockInv, CallOK
  <2>3. NSS \in irqStatus /\ Woken
    BY <1>1 DEF WaitSucceeds, Woken
  <2>4. ~(Unread <= 0)
    BY <1>1, <2>3 DEF DriverInv, JobInv, Unread
  <2> QED BY <1>1, <2>1, <2>2, <2>3, <2>4 DEF DriverInv, JobInv, NothingLeftOver, Owed
<1>2. DriverInv /\ DriverInv' /\ [Next]_vars
        => [\A t \in Thread : WaitSucceeds(t) => job = None \/ overrun \/ late]_vars
  BY <1>1
<1> QED BY <1>2, DriverInvHolds, PTL DEF Spec, WaitMeansFinished
-----------------------------------------------------------------------------
(***************************************************************************)
(* The driver implements NpuDriver.  What other programs see of it is the   *)
(* file of each network and, between STARTs, the active network.            *)
(***************************************************************************)
Owner == [n \in DOMAIN nets |-> nets[n].file]
Active == IF Starting THEN None ELSE active

(* What a step shows that changes only locks, LRAM, the interrupt or the    *)
(* places of threads outside START.                                         *)
LEMMA HiddenStep ==
  ASSUME UNCHANGED <<files, nets, active, job>>,
         \A u \in Thread : pc[u] \in {"commit", "reset"} <=> pc'[u] \in {"commit", "reset"}
  PROVE  UNCHANGED Npu!npuVars
PROOF
  BY DEF Npu!npuVars, Starting

LEMMA HiddenCall ==
  ASSUME LockInv, NEW t \in Thread, pc[t] \notin {"commit", "reset"},
         UNCHANGED <<files, nets, active, job>>,
         Return(t) \/ \E l \in Place \ {"commit", "reset"} : Goto(t, l)
  PROVE  UNCHANGED Npu!npuVars
PROOF
  BY StartUntouched, HiddenStep

(* The calls that change what other programs see, one by one.               *)
LEMMA CreateRefines ==
  ASSUME DriverInv, NEW t \in Thread, CreateNetwork(t)
  PROVE  [Npu!Next]_Npu!npuVars
PROOF
<1>0. LockInv
  BY DEF DriverInv
<1>1. CASE NoEffect(t, "create", TRUE)
  BY <1>0, <1>1, HiddenCall DEF NoEffect, In, networks, hardware
<1>2. CASE ~NoEffect(t, "create", TRUE)
  <2>1. /\ pc[t] = "body" /\ Return(t) /\ UNCHANGED <<files, active, job>>
    BY <1>2 DEF CreateNetwork, In, hardware
  <2>2. PICK n \in Net \ DOMAIN nets :
          nets' = [m \in DOMAIN nets \cup {n} |->
                     IF m = n THEN [file |-> call[t].file, mapped |-> FALSE, segs |-> <<>>]
                              ELSE nets[m]]
    BY <1>2 DEF CreateNetwork
  <2>3. call[t].file \in files /\ files \subseteq File
    BY <1>0, <2>1 DEF LockInv, CallOK
  <2>4. Starting' <=> Starting
    BY <1>0, <2>1, StartUntouched DEF Starting
  <2>5. Owner' = [m \in DOMAIN Owner \cup {n} |-> IF m = n THEN call[t].file ELSE Owner[m]]
    BY <2>2 DEF Owner
  <2>6. Npu!CreateNetwork(call[t].file, n)
    BY <2>1, <2>2, <2>3, <2>4, <2>5 DEF Npu!CreateNetwork, Owner
  <2> QED BY <2>2, <2>3, <2>6 DEF Npu!Next
<1> QED BY <1>1, <1>2

(* Recording the mapping of the buffer is not seen from outside. *)
LEMMA StartRefines ==
  ASSUME DriverInv, NEW t \in Thread, StartNetwork(t)
  PROVE  UNCHANGED Npu!npuVars
PROOF
<1>0. LockInv /\ DeviceInv
  BY DEF DriverInv
<1>1. CASE pc[t] = "body" /\ Return(t) /\ UNCHANGED <<files, nets, active, job>>
  BY <1>0, <1>1, HiddenCall
<1>2. CASE /\ active = None /\ nets' = [nets EXCEPT ![call[t].net].mapped = TRUE]
           /\ Goto(t, "commit") /\ UNCHANGED <<files, job>>
  <2>1. Starting'
    BY <1>0, <1>2, MovedThread DEF Starting
  <2>2. Owner' = Owner
    <3>1. /\ DOMAIN nets' = DOMAIN nets
          /\ \A n \in DOMAIN nets : nets'[n].file = nets[n].file
      BY <1>0, <1>2 DEF Network, DeviceInv, NetworksOK
    <3> QED BY <3>1 DEF Owner
  <2> QED BY <1>2, <2>1, <2>2 DEF Npu!npuVars, Owner
<1> QED BY <1>1, <1>2 DEF StartNetwork, NoEffect, In, networks, hardware

(* The network becomes active for the others when START returns.            *)
LEMMA ResetRefines ==
  ASSUME DriverInv, NEW t \in Thread, StartReset(t)
  PROVE  Npu!Next
PROOF
<1> USE DriverAssumption
<1>0. LockInv /\ DeviceInv
  BY DEF DriverInv
<1>1. /\ pc[t] = "reset" /\ job' = None /\ Return(t) /\ UNCHANGED <<files, nets, active>>
  BY DEF StartReset, networks
<1>2. Starting
  BY <1>1 DEF Starting
<1>3. ~Starting'
  <2>1. \A u \in Thread : pc[u] \in {"commit", "reset"} => u = t
    BY <1>0, <1>1, HoldersAreAlone DEF HoldsDevice
  <2> QED BY <1>0, <1>1, <2>1, ReturnedThread DEF Starting
<1>4. /\ call[t].file \in File /\ call[t].net \in Net
      /\ active = call[t].net /\ nets[active].file = call[t].file
  BY <1>0, <1>1 DEF LockInv, CallOK, DeviceInv, BusyWithActive
<1>5. active \in DOMAIN nets
  BY <1>0, <1>4 DEF DeviceInv, ActiveOK
<1>6. Npu!StartNetwork(call[t].file, call[t].net)
  BY <1>1, <1>2, <1>3, <1>4, <1>5 DEF Npu!StartNetwork, Npu!Owns
<1> QED BY <1>4, <1>6 DEF Npu!Next

(* RUN and STOP: the device_lock excludes a START that is half done. *)
LEMMA RunStopRefine ==
  ASSUME DriverInv, NEW t \in Thread, RunNetwork(t) \/ StopNetwork(t)
  PROVE  [Npu!Next]_Npu!npuVars
PROOF
<1> USE DriverAssumption
<1>0. LockInv /\ DeviceInv
  BY DEF DriverInv
<1>1. CASE pc[t] = "body" /\ Return(t) /\ UNCHANGED <<files, nets, active, job>>
  BY <1>0, <1>1, HiddenCall
<1>2. CASE /\ In(t, "run") \/ In(t, "stop")
           /\ Find(t) /\ active = call[t].net /\ Return(t) /\ UNCHANGED <<files, nets>>
           /\ \/ In(t, "run") /\ job' = call[t].net /\ UNCHANGED active
              \/ In(t, "stop") /\ active' = None /\ UNCHANGED job
  <2>1. ~Starting /\ ~Starting'
    <3>1. ~Starting
      BY <1>0, <1>2, NotStarting DEF In, HoldsDevice, RequireDeviceLock
    <3>2. \A u \in Thread : pc[u] \in {"commit", "reset"} <=> pc'[u] \in {"commit", "reset"}
      BY <1>0, <1>2, StartUntouched DEF In
    <3> QED BY <3>1, <3>2 DEF Starting
  <2>2. call[t].file \in File /\ call[t].net \in Net
    BY <1>0, <1>2 DEF LockInv, CallOK, In
  <2>3. call[t].net \in DOMAIN nets /\ nets[call[t].net].file = call[t].file
    BY <1>2 DEF Find
  <2>4. \/ Npu!RunNetwork(call[t].file, call[t].net)
        \/ Npu!StopNetwork(call[t].file, call[t].net)
    BY <1>2, <2>1, <2>3 DEF Npu!RunNetwork, Npu!StopNetwork, Npu!Owns
  <2> QED BY <2>2, <2>4 DEF Npu!Next
<1> QED BY <1>1, <1>2 DEF RunNetwork, StopNetwork, Detach, NoEffect, In, networks, hardware

(* The owners of the networks that are left.                                *)
LEMMA OwnerWithout ==
  ASSUME NEW ns
  PROVE  nets' = Without(ns) =>
           Owner' = [n \in DOMAIN Owner \ ns |-> Owner[n]]
PROOF
  BY DEF Owner, Without

LEMMA DestroyRefines ==
  ASSUME DriverInv, NEW t \in Thread, DestroyNetwork(t)
  PROVE  [Npu!Next]_Npu!npuVars
PROOF
<1> USE DriverAssumption
<1>0. LockInv /\ DeviceInv
  BY DEF DriverInv
<1>1. CASE pc[t] = "body" /\ Return(t) /\ UNCHANGED <<files, nets, active, job>>
  BY <1>0, <1>1, HiddenCall
<1>2. CASE /\ In(t, "destroy") /\ Find(t) /\ active # call[t].net /\ Return(t)
           /\ nets' = Without({call[t].net}) /\ UNCHANGED <<files, active, job>>
  <2>1. Starting' <=> Starting
    BY <1>0, <1>2, StartUntouched DEF Starting, In
  <2>2. call[t].file \in File /\ call[t].net \in Net
    BY <1>0, <1>2 DEF LockInv, CallOK, In
  <2>3. call[t].net \in DOMAIN nets /\ nets[call[t].net].file = call[t].file
    BY <1>2 DEF Find
  <2>4. Owner' = [n \in DOMAIN Owner \ {call[t].net} |-> Owner[n]]
    BY <1>2, OwnerWithout
  <2>5. PICK f \in File, n \in Net : f = call[t].file /\ n = call[t].net
    BY <2>2
  <2>6. Npu!DestroyNetwork(f, n)
    BY <1>2, <2>1, <2>3, <2>4, <2>5 DEF Npu!DestroyNetwork, Npu!Owns, Npu!Without, Owner
  <2> QED BY <2>6 DEF Npu!Next
<1> QED BY <1>1, <1>2 DEF DestroyNetwork, NoEffect, In, networks, hardware

LEMMA ReleaseRefines ==
  ASSUME DriverInv, NEW t \in Thread, ReleaseNetworks(t) \/ ReleaseFile(t)
  PROVE  Npu!Next
PROOF
<1> USE DriverAssumption
<1>0. LockInv /\ DeviceInv
  BY DEF DriverInv
<1>1. CASE ReleaseNetworks(t)
  <2> DEFINE mine == {n \in DOMAIN nets : nets[n].file = call[t].file}
  <2>1. /\ In(t, "release") /\ nets' = Without(mine)
        /\ Goto(t, "delfile") /\ UNCHANGED <<files, job>>
        /\ active' = IF active \in mine THEN None ELSE active
    BY <1>1 DEF ReleaseNetworks, Detach, hardware
  <2>2. ~Starting /\ ~Starting'
    <3>1. ~Starting
      BY <1>0, <2>1, NotStarting DEF In, HoldsDevice, RequireDeviceLock
    <3>2. \A u \in Thread : pc[u] \in {"commit", "reset"} <=> pc'[u] \in {"commit", "reset"}
      BY <1>0, <2>1, StartUntouched DEF In, Place
    <3> QED BY <3>1, <3>2 DEF Starting
  <2>3. call[t].file \in files /\ call[t].file \in File
    BY <1>0, <2>1 DEF LockInv, CallOK, In
  <2>4. Owner' = [n \in DOMAIN Owner \ mine |-> Owner[n]]
    BY <2>1, OwnerWithout
  <2>5. mine = {n \in DOMAIN Owner : Owner[n] = call[t].file}
    BY DEF Owner
  <2>6. PICK f \in File : f = call[t].file
    BY <2>3
  <2>7. Npu!ReleaseNetworks(f)
    BY <2>1, <2>2, <2>3, <2>4, <2>5, <2>6 DEF Npu!ReleaseNetworks, Npu!Without, Owner
  <2> QED BY <2>7 DEF Npu!Next
<1>2. CASE ReleaseFile(t)
  <2>1. /\ pc[t] = "delfile" /\ Return(t) /\ files' = files \ {call[t].file}
        /\ UNCHANGED <<nets, active, job>>
    BY <1>2 DEF ReleaseFile, networks, hardware
  <2>2. Starting' <=> Starting
    BY <1>0, <2>1, StartUntouched DEF Starting
  <2>3. call[t].file \in files /\ call[t].file \in File
    BY <1>0, <2>1 DEF LockInv, CallOK
  <2>4. \A n \in DOMAIN nets : nets[n].file # call[t].file
    BY <1>0, <2>1 DEF DeviceInv, NetworksOK
  <2>5. Npu!ReleaseFile(call[t].file)
    BY <2>1, <2>2, <2>3, <2>4 DEF Npu!ReleaseFile
  <2> QED BY <2>3, <2>5 DEF Npu!Next
<1> QED BY <1>1, <1>2

LEMMA DriverStepRefines == DriverInv /\ [Next]_vars => [Npu!Next]_Npu!npuVars
PROOF
<1> SUFFICES ASSUME DriverInv, [Next]_vars PROVE [Npu!Next]_Npu!npuVars
  OBVIOUS
<1>0. LockInv
  BY DEF DriverInv
<1>1. ASSUME NEW f \in File, Open(f) PROVE Npu!Next
  BY <1>1 DEF Open, networks, threads, hardware, Starting, Npu!Open, Npu!Next
<1>2. ASSUME NEW t \in Thread, Enter(t) PROVE UNCHANGED Npu!npuVars
  <2>1. \A u \in Thread : pc[u] \in {"commit", "reset"} <=> pc'[u] \in {"commit", "reset"}
    BY <1>0, <1>2 DEF Enter, LockInv
  <2> QED BY <1>2, <2>1, HiddenStep DEF Enter, networks, hardware
<1>3. ASSUME NEW t \in Thread, Locking(t) PROVE UNCHANGED Npu!npuVars
  <2>1. \A u \in Thread : pc[u] \in {"commit", "reset"} <=> pc'[u] \in {"commit", "reset"}
    BY <1>0, <1>3 DEF Locking, LockInst, LockDevice, WriteLock, Goto, LockInv
  <2>2. UNCHANGED <<files, nets, active, job>>
    BY <1>3 DEF Locking, LockInst, LockDevice, WriteLock, networks, hardware
  <2> QED BY <2>1, <2>2, HiddenStep
<1>4. ASSUME NEW t \in Thread, Working(t) PROVE [Npu!Next]_Npu!npuVars
  <2>1. CASE CreateNetwork(t)
    BY <2>1, CreateRefines
  <2>2. CASE StartNetwork(t)
    BY <2>2, StartRefines
  <2>3. CASE StartCommit(t)
    <3>1. /\ pc[t] = "commit" /\ Goto(t, "reset") /\ UNCHANGED <<files, nets, active, job>>
      BY <2>3 DEF StartCommit, networks
    <3>2. \A u \in Thread : pc[u] \in {"commit", "reset"} <=> pc'[u] \in {"commit", "reset"}
      BY <1>0, <3>1, MovedThread
    <3> QED BY <3>1, <3>2, HiddenStep
  <2>4. CASE StartReset(t)
    BY <2>4, ResetRefines
  <2>5. CASE RunNetwork(t) \/ StopNetwork(t)
    BY <2>5, RunStopRefine
  <2>6. CASE \/ WaitNetwork(t) \/ WaitCompletes(t) \/ WaitReads(t) \/ WaitTimesOut(t)
             \/ WriteCommit(t) \/ ReadLram(t)
    <3>1. /\ pc[t] \notin {"commit", "reset"} /\ UNCHANGED <<files, nets, active, job>>
          /\ Return(t) \/ Goto(t, "waiting") \/ Goto(t, "woken")
      BY <2>6 DEF WaitNetwork, WaitCompletes, WaitReads, WaitTimesOut, WriteCommit, ReadLram, NoEffect,
                  In, networks, hardware
    <3>2. Return(t) \/ (\E l \in Place \ {"commit", "reset"} : Goto(t, l))
      BY <3>1 DEF Place
    <3> QED BY <1>0, <3>1, <3>2, HiddenCall
  <2>7. CASE DestroyNetwork(t)
    BY <2>7, DestroyRefines
  <2>8. CASE WriteLram(t)
    <3> DEFINE segment == [addr |-> call[t].addr, data |-> call[t].data]
    <3>1. /\ pc[t] = "body" /\ UNCHANGED <<files, active, job>>
          /\ Return(t) \/ Goto(t, "wlock")
          /\ \/ UNCHANGED nets
             \/ nets' = [nets EXCEPT ![call[t].net].segs = Append(@, segment)]
      BY <2>8 DEF WriteLram, NoEffect, In, networks, hardware
    <3>2. Owner' = Owner
      <4>1. /\ DOMAIN nets' = DOMAIN nets
            /\ \A n \in DOMAIN nets : nets'[n].file = nets[n].file
        <5>1. ASSUME NEW n \in DOMAIN nets PROVE nets[n] \in Network
          BY DEF DriverInv, DeviceInv, NetworksOK
        <5> QED BY <3>1, <5>1 DEF Network
      <4> QED BY <4>1 DEF Owner
    <3>3. Return(t) \/ (\E l \in Place \ {"commit", "reset"} : Goto(t, l))
      BY <3>1 DEF Place
    <3>4. Starting' <=> Starting
      BY <1>0, <3>1, <3>3, StartUntouched DEF Starting
    <3> QED BY <3>1, <3>2, <3>4 DEF Npu!npuVars, Owner
  <2>9. CASE ReleaseNetworks(t) \/ ReleaseFile(t)
    BY <2>9, ReleaseRefines
  <2> QED BY <1>4, <2>1, <2>2, <2>3, <2>4, <2>5, <2>6, <2>7, <2>8, <2>9 DEF Working
<1>5. CASE JobEnds
  BY <1>5 DEF JobEnds, networks, threads, Starting, Npu!JobEnds, Npu!Next
<1>6. CASE (\E a \in Addr : JobWrites(a)) \/ IrqStatus \/ IrqClear \/ IrqComplete \/ UNCHANGED vars
  <2>1. UNCHANGED <<files, nets, active, job, pc>>
    BY <1>6 DEF JobWrites, IrqStatus, IrqClear, IrqComplete, vars, networks, threads, hardware
  <2> QED BY <2>1, HiddenStep
<1> QED BY <1>1, <1>2, <1>3, <1>4, <1>5, <1>6 DEF Next, Hardware

(* torq_core_linux.c keeps what NpuDriver promises, for any number of       *)
(* processes, threads and networks: its locks make every system call one    *)
(* step, a START included, which takes three.                               *)
THEOREM DriverImplementsNpuDriver == Spec => ImplementsNpuDriver
PROOF
<1>1. Init => Npu!Init
  BY DEF Init, Npu!Init, Starting
<1> QED BY <1>1, DriverStepRefines, DriverInvHolds, PTL DEF Spec, ImplementsNpuDriver, Npu!Spec
=============================================================================
