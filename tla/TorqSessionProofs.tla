-------------------------- MODULE TorqSessionProofs --------------------------
(***************************************************************************)
(* Proofs about TorqSession, for any number of processes and threads and    *)
(* any executable in which a wait follows every start.                      *)
(***************************************************************************)
EXTENDS TorqSession, TLAPS

Closing == {"stop", "drop", "unmap", "node", "file", "unlock"}

Place == {"idle", "lock", "open", "xram", "create", "prepare", "load", "run", "release",
          "readback", "destroy", "killed", "killed file"} \cup Closing

Node == {"unset", "failed", "open", "zero"}

Torq == [torqDevNode : Node, dmabufDevNode : Node, dmabufHandle : BOOLEAN,
         xramVBase : {"null", "failed", "mapped"},
         networkId : Net \cup {None}, networkActive : BOOLEAN,
         xramStartAddr : Nat, mapped : Nat]

Run == [retries : Nat, actionIndex : Nat, ok : BOOLEAN, unread : BOOLEAN]

TypeInv ==
  /\ DOMAIN processOf = Thread
  /\ pc \in [Thread -> Place]
  /\ after \in [Thread -> {None, "destroy", "idle"}]
  /\ torq \in [Thread -> Torq]
  /\ run \in [Thread -> Run]

(* In the kernel a network belongs to an open file. *)
KernelInv ==
  /\ files \subseteq Thread
  /\ DOMAIN owner \subseteq Net
  /\ \A n \in DOMAIN owner : owner[n] \in files

(***************************************************************************)
(* What a thread can rely on.                                               *)
(***************************************************************************)
(* Its file is open only between open() and close(), and _torqDevNode is    *)
(* its descriptor until close() or the kernel closes it.  The file may have *)
(* been closed by another session, which closed a number it never opened.   *)
FileInv(t) ==
  /\ pc[t] \in {"idle", "lock", "open", "unlock"} => t \notin files
  /\ t \in files => torq[t].torqDevNode = "open" \/ pc[t] \in {"file", "killed", "killed file"}
  /\ pc[t] \in {"killed", "killed file"} => torq[t].torqDevNode # "open"

(* close() returns to run or to its caller.                                 *)
AfterInv(t) == pc[t] \in Closing => after[t] \in {"destroy", "idle"}

(* The pages that are mapped: all of the buffer, or at most the last one.   *)
MappingInv(h) ==
  IF h.xramVBase = "mapped" THEN h.mapped = PagesMapped(h)
                            ELSE h.mapped = 0 \/ (h.mapped = 1 /\ AlignOffset(h) # 0)

(* Before SetupXramSpace and behind CloseXram there is no buffer, and no    *)
(* mapping but what close() left.                                           *)
XramInv(t) ==
  /\ pc[t] \in {"idle", "lock", "open", "xram", "node", "file", "unlock",
                "killed", "killed file"} =>
       ~torq[t].dmabufHandle /\ torq[t].dmabufDevNode # "open" /\ torq[t].xramVBase # "mapped"
  /\ MappingInv(torq[t])

(* As long as its file is open the thread's network is its own, and if the  *)
(* thread has started it, it is active until close() stops it.              *)
NetworkInv(t) ==
  /\ pc[t] \in {"lock", "open", "xram", "create"} => torq[t].networkId = None
  /\ pc[t] \in {"prepare", "load", "run", "release", "readback"} => torq[t].networkId # None
  /\ pc[t] \in {"lock", "open", "xram", "create", "prepare", "load"} => ~torq[t].networkActive
  /\ torq[t].networkActive => torq[t].networkId # None
  /\ Valid(t) /\ torq[t].networkId # None =>
       torq[t].networkId \in DOMAIN owner /\ owner[torq[t].networkId] = t
  /\ Valid(t) /\ torq[t].networkActive /\ pc[t] # "drop" =>
       active = torq[t].networkId /\ job \in {None, active}

(* The locals of run: a job that has not been waited for has its wait still *)
(* before it, and one that has been waited for no longer runs.              *)
RunInv(t) ==
  /\ pc[t] \in {"idle", "lock", "open", "xram", "create", "prepare", "load",
                "killed", "killed file"} =>
       run[t].actionIndex = 1 /\ run[t].ok /\ ~run[t].unread
  /\ pc[t] = "run" => run[t].ok /\ run[t].actionIndex \in DOMAIN Program
  /\ pc[t] = "readback" => run[t].ok
  /\ pc[t] \in {"release", "readback"} /\ run[t].ok => run[t].actionIndex = Len(Program) + 1
  /\ pc[t] \in {"run", "release", "readback"} /\ run[t].ok /\ run[t].unread =>
       \E m \in run[t].actionIndex .. Len(Program) : Program[m] = "wait"
  /\ pc[t] \in {"run", "release", "readback"} /\ Valid(t) /\ run[t].ok /\ ~run[t].unread =>
       job # torq[t].networkId

ThreadInv(t) == FileInv(t) /\ AfterInv(t) /\ XramInv(t) /\ NetworkInv(t) /\ RunInv(t)

SessionInv == TypeInv /\ KernelInv /\ \A t \in Thread : ThreadInv(t)
-----------------------------------------------------------------------------
(***************************************************************************)
(* What the system calls of other threads leave alone, as long as they do   *)
(* not close the file of u: its networks, its being active, and that a job  *)
(* of one of its networks has ended.                                        *)
(***************************************************************************)
Undisturbed(u) ==
  /\ u \in files' => u \in files
  /\ u \in files' =>
       \A n \in DOMAIN owner : owner[n] = u =>
         /\ n \in DOMAIN owner' /\ owner'[n] = u
         /\ active = n => active' = n /\ job' \in {job, None}
         /\ job # n => job' # n

LEMMA UndisturbedThread ==
  ASSUME NEW u \in Thread, ThreadInv(u), Undisturbed(u),
         pc'[u] = pc[u], after'[u] = after[u], torq'[u] = torq[u], run'[u] = run[u]
  PROVE  ThreadInv(u)'
PROOF
<1> USE SessionAssumption
<1>1. FileInv(u)' /\ AfterInv(u)' /\ XramInv(u)'
  BY DEF ThreadInv, FileInv, AfterInv, XramInv, Undisturbed
<1>2. Valid(u)' => Valid(u) /\ u \in files'
  BY DEF Valid, Undisturbed
<1>3. NetworkInv(u)'
  BY <1>2 DEF ThreadInv, NetworkInv, Undisturbed
<1>4. RunInv(u)'
  <2>1. /\ pc[u] \in {"run", "release", "readback"} /\ Valid(u)'
            => /\ torq[u].networkId \in DOMAIN owner /\ owner[torq[u].networkId] = u
               /\ job # torq[u].networkId => job' # torq[u].networkId
    BY <1>2 DEF ThreadInv, NetworkInv, Undisturbed
  <2> QED BY <1>2, <2>1 DEF ThreadInv, RunInv
<1> QED BY <1>1, <1>3, <1>4 DEF ThreadInv

(* The networks that are left. *)
LEMMA WithoutNetworks ==
  ASSUME NEW ns
  PROVE  /\ DOMAIN Npu!Without(ns) = DOMAIN owner \ ns
         /\ \A n \in DOMAIN owner \ ns : Npu!Without(ns)[n] = owner[n]
PROOF
  BY DEF Npu!Without

(* The system calls of a thread, one by one. *)
LEMMA KernelStep ==
  ASSUME KernelInv, NEW t \in Thread,
         \/ UNCHANGED kernel \/ Npu!Open(t) \/ Npu!JobEnds
         \/ \E n \in Net : \/ Npu!CreateNetwork(t, n) \/ Npu!StartNetwork(t, n)
                           \/ Npu!RunNetwork(t, n) \/ Npu!StopNetwork(t, n)
                           \/ Npu!DestroyNetwork(t, n)
         \/ Npu!ReleaseNetworks(t) \/ Npu!ReleaseFile(t) \/ CloseUnset(t)
  PROVE  KernelInv' /\ \A u \in Thread \ {t} : Undisturbed(u)
PROOF
<1> USE SessionAssumption DEF KernelInv, Undisturbed
<1>1. CASE UNCHANGED kernel
  BY <1>1 DEF kernel
<1>2. CASE Npu!Open(t)
  BY <1>2 DEF Npu!Open
<1>3. CASE Npu!JobEnds
  BY <1>3 DEF Npu!JobEnds
<1>4. ASSUME NEW n \in Net, Npu!CreateNetwork(t, n)
      PROVE  KernelInv' /\ \A u \in Thread \ {t} : Undisturbed(u)
  BY <1>4 DEF Npu!CreateNetwork
<1>5. ASSUME NEW n \in Net, Npu!StartNetwork(t, n)
      PROVE  KernelInv' /\ \A u \in Thread \ {t} : Undisturbed(u)
  BY <1>5 DEF Npu!StartNetwork
<1>6. ASSUME NEW n \in Net, Npu!RunNetwork(t, n) \/ Npu!StopNetwork(t, n)
      PROVE  KernelInv' /\ \A u \in Thread \ {t} : Undisturbed(u)
  BY <1>6 DEF Npu!RunNetwork, Npu!StopNetwork, Npu!Owns
<1>7. ASSUME NEW n \in Net, Npu!DestroyNetwork(t, n)
      PROVE  KernelInv' /\ \A u \in Thread \ {t} : Undisturbed(u)
  <2>1. /\ DOMAIN owner' = DOMAIN owner \ {n} /\ \A m \in DOMAIN owner' : owner'[m] = owner[m]
        /\ owner[n] = t /\ UNCHANGED <<files, active, job>>
    BY <1>7, WithoutNetworks DEF Npu!DestroyNetwork, Npu!Owns
  <2> QED BY <2>1
<1>8. CASE Npu!ReleaseNetworks(t)
  <2> DEFINE mine == {n \in DOMAIN owner : owner[n] = t}
  <2>1. /\ owner' = Npu!Without(mine) /\ UNCHANGED <<files, job>>
        /\ active' = IF active \in mine THEN None ELSE active
    BY <1>8 DEF Npu!ReleaseNetworks
  <2>2. /\ DOMAIN owner' = DOMAIN owner \ mine
        /\ \A m \in DOMAIN owner' : owner'[m] = owner[m]
    BY <2>1, WithoutNetworks
  <2> QED BY <2>1, <2>2
<1>9. CASE Npu!ReleaseFile(t)
  BY <1>9 DEF Npu!ReleaseFile
<1>10. CASE CloseUnset(t)
  <2>1. CASE UNCHANGED kernel
    BY <1>1, <2>1
  <2>2. CASE \E v \in Thread \ {t} :
               /\ owner' = Npu!Without({n \in DOMAIN owner : owner[n] = v})
               /\ active' = IF active \in DOMAIN owner' THEN active ELSE None
               /\ files' = files \ {v}
               /\ UNCHANGED job
    <3>1. PICK v \in Thread \ {t} :
               /\ owner' = Npu!Without({n \in DOMAIN owner : owner[n] = v})
               /\ active' = IF active \in DOMAIN owner' THEN active ELSE None
               /\ files' = files \ {v}
               /\ UNCHANGED job
      BY <2>2
    <3> DEFINE its == {n \in DOMAIN owner : owner[n] = v}
    <3>2. /\ DOMAIN owner' = DOMAIN owner \ its
          /\ \A m \in DOMAIN owner' : owner'[m] = owner[m]
      BY <3>1, WithoutNetworks
    <3> QED BY <3>1, <3>2
  <2> QED BY <1>10, <2>1, <2>2 DEF CloseUnset
<1> QED BY <1>1, <1>2, <1>3, <1>4, <1>5, <1>6, <1>7, <1>8, <1>9, <1>10

LEMMA SelfUndisturbed ==
  ASSUME KernelInv, NEW t \in Thread, Npu!JobEnds \/ CloseUnset(t) \/ UNCHANGED kernel
  PROVE  Undisturbed(t)
PROOF
<1> USE SessionAssumption DEF KernelInv, Undisturbed
<1>1. CASE Npu!JobEnds
  BY <1>1 DEF Npu!JobEnds
<1>2. CASE UNCHANGED kernel
  BY <1>2 DEF kernel
<1>3. CASE CloseUnset(t) /\ ~UNCHANGED kernel
  <2>1. PICK v \in Thread \ {t} :
               /\ owner' = Npu!Without({n \in DOMAIN owner : owner[n] = v})
               /\ active' = IF active \in DOMAIN owner' THEN active ELSE None
               /\ files' = files \ {v}
               /\ UNCHANGED job
    BY <1>3 DEF CloseUnset
  <2> DEFINE its == {n \in DOMAIN owner : owner[n] = v}
  <2>2. /\ DOMAIN owner' = DOMAIN owner \ its
        /\ \A m \in DOMAIN owner' : owner'[m] = owner[m]
    BY <2>1, WithoutNetworks
  <2> QED BY <2>1, <2>2
<1> QED BY <1>1, <1>2, <1>3

(* The locals of the other threads do not change.                           *)
OnlyMoves(t) ==
  /\ TypeInv'
  /\ \A u \in Thread \ {t} :
       pc'[u] = pc[u] /\ after'[u] = after[u] /\ torq'[u] = torq[u] /\ run'[u] = run[u]

(* The aligned size takes the pages that the size takes, or one more.       *)
LEMMA AlignedPages ==
  ASSUME NEW h, h.xramStartAddr \in Nat
  PROVE  /\ PagesMapped(h) \in Nat /\ PagesUnmapped \in Nat
         /\ \/ PagesMapped(h) = PagesUnmapped
            \/ PagesMapped(h) = PagesUnmapped + 1 /\ AlignOffset(h) # 0
PROOF
<1>1. PICK a \in Nat : a = AlignOffset(h) /\ a < 4096
  BY DEF AlignOffset, Page
<1>2. PICK n \in Nat : n = XramSize
  BY SessionAssumption
<1>3. /\ PagesMapped(h) = (n + a + 4095) \div 4096 /\ PagesUnmapped = (n + 4095) \div 4096
  BY <1>1, <1>2 DEF PagesMapped, PagesUnmapped, Pages, Page
<1>4. /\ (n + a + 4095) \div 4096 \in Nat /\ (n + 4095) \div 4096 \in Nat
      /\ \/ (n + a + 4095) \div 4096 = (n + 4095) \div 4096
         \/ (n + a + 4095) \div 4096 = (n + 4095) \div 4096 + 1 /\ a # 0
  BY <1>1, <1>2
<1> QED BY <1>1, <1>3, <1>4

LEMMA MappingKept ==
  ASSUME NEW h, NEW g, MappingInv(h), g.xramStartAddr = h.xramStartAddr,
         g.xramVBase = h.xramVBase, g.mapped = h.mapped
  PROVE  MappingInv(g)
PROOF
  BY DEF MappingInv, PagesMapped, AlignOffset

(* How a thread moves, with or without calling close(). *)
LEMMA Moves ==
  ASSUME TypeInv, NEW t \in Thread, NEW l \in Place,
         \/ Goto(t, l)
         \/ CallClose(t, "destroy") /\ l = "stop"
         \/ CallClose(t, "idle") /\ l = "stop"
  PROVE  /\ pc' \in [Thread -> Place] /\ after' \in [Thread -> {None, "destroy", "idle"}]
         /\ pc'[t] = l
         /\ l = "stop" /\ ~Goto(t, l) => after'[t] \in {"destroy", "idle"}
         /\ Goto(t, l) => after' = after
         /\ \A u \in Thread \ {t} : pc'[u] = pc[u] /\ after'[u] = after[u]
PROOF
  BY DEF TypeInv, Goto, CallClose, Place, Closing

(* newTorqHw and open() *)
LEMMA BeginStep ==
  ASSUME SessionInv, NEW t \in Thread, Begin(t), UNCHANGED processOf
  PROVE  OnlyMoves(t) /\ ThreadInv(t)'
PROOF
<1>1. /\ pc[t] = "idle" /\ Goto(t, "lock") /\ UNCHANGED <<kernel, run>>
      /\ \E x \in XramStarts :
           torq' = [torq EXCEPT ![t] = [Constructed EXCEPT !.xramStartAddr = x]]
  BY DEF Begin
<1> PICK x \in XramStarts :
           torq' = [torq EXCEPT ![t] = [Constructed EXCEPT !.xramStartAddr = x]]
  BY <1>1
<1> DEFINE h == [Constructed EXCEPT !.xramStartAddr = x]
<1>2. /\ h \in Torq /\ h.networkId = None /\ ~h.networkActive
      /\ ~h.dmabufHandle /\ h.dmabufDevNode # "open"
      /\ h.xramVBase # "mapped" /\ h.mapped = 0 /\ MappingInv(h)
  BY SessionAssumption DEF Constructed, Torq, Node, MappingInv
<1> HIDE DEF h
<1>3. /\ torq' \in [Thread -> Torq] /\ torq'[t] = h
      /\ \A u \in Thread \ {t} : torq'[u] = torq[u]
  BY <1>2 DEF SessionInv, TypeInv, h
<1>4. pc'[t] = "lock" /\ OnlyMoves(t)
  <2>1. "lock" \in Place /\ TypeInv
    BY DEF SessionInv, Place
  <2>2. /\ pc' \in [Thread -> Place] /\ after' \in [Thread -> {None, "destroy", "idle"}]
        /\ pc'[t] = "lock"
        /\ \A u \in Thread \ {t} : pc'[u] = pc[u] /\ after'[u] = after[u]
    BY <1>1, <2>1, Moves
  <2> QED BY <1>1, <1>3, <2>1, <2>2 DEF TypeInv, OnlyMoves
<1>5. t \notin files /\ files' = files
  BY <1>1 DEF SessionInv, ThreadInv, FileInv, kernel
<1>6. ThreadInv(t)'
  <2>1. FileInv(t)' /\ AfterInv(t)' /\ XramInv(t)'
    BY <1>2, <1>3, <1>4, <1>5 DEF FileInv, AfterInv, XramInv, Closing
  <2>2. NetworkInv(t)'
    BY <1>2, <1>3, <1>4, <1>5 DEF NetworkInv, Valid
  <2>3. RunInv(t)'
    BY <1>1, <1>4 DEF SessionInv, ThreadInv, RunInv
  <2> QED BY <2>1, <2>2, <2>3 DEF ThreadInv
<1> QED BY <1>4, <1>6

LEMMA OpenStep ==
  ASSUME SessionInv, NEW t \in Thread, Lock(t) \/ OpenNode(t) \/ SetupXramSpace(t),
         UNCHANGED processOf
  PROVE  OnlyMoves(t) /\ ThreadInv(t)'
PROOF
<1> USE SessionAssumption
<1>1. TypeInv /\ ThreadInv(t) /\ torq[t] \in Torq /\ KernelInv
  BY DEF SessionInv, TypeInv
<1>2. CASE Lock(t)
  <2>1. pc[t] = "lock" /\ Goto(t, "open") /\ UNCHANGED <<kernel, torq, run>>
    BY <1>2 DEF Lock
  <2>2. pc'[t] = "open" /\ after'[t] = after[t] /\ OnlyMoves(t)
    BY <1>1, <2>1, Moves DEF TypeInv, OnlyMoves, Place
  <2> QED BY <1>1, <2>1, <2>2
          DEF ThreadInv, FileInv, AfterInv, XramInv, NetworkInv, RunInv, Valid, Closing, kernel
<1>3. CASE OpenNode(t)
  <2>1. /\ pc[t] = "open" /\ run' = run
        /\ \/ /\ Npu!Open(t) /\ Goto(t, "xram")
              /\ torq' = [torq EXCEPT ![t]["torqDevNode"] = "open"]
           \/ /\ CallClose(t, "destroy") /\ UNCHANGED kernel
              /\ torq' = [torq EXCEPT ![t]["torqDevNode"] = "failed"]
    BY <1>3 DEF OpenNode, Set
  <2>2. /\ torq' \in [Thread -> Torq]
        /\ \A u \in Thread \ {t} : torq'[u] = torq[u]
        /\ torq'[t].networkId = torq[t].networkId
        /\ torq'[t].networkActive = torq[t].networkActive
        /\ torq'[t].dmabufHandle = torq[t].dmabufHandle
        /\ torq'[t].dmabufDevNode = torq[t].dmabufDevNode
        /\ torq'[t].xramVBase = torq[t].xramVBase /\ MappingInv(torq'[t])
    <3>1. PICK x \in {"open", "failed"} : torq' = [torq EXCEPT ![t]["torqDevNode"] = x]
      BY <2>1
    <3>2. torq'[t] = [torq[t] EXCEPT !["torqDevNode"] = x]
      BY <1>1, <3>1 DEF TypeInv
    <3>3. /\ torq'[t] \in Torq
          /\ torq'[t].networkId = torq[t].networkId
          /\ torq'[t].networkActive = torq[t].networkActive
          /\ torq'[t].dmabufHandle = torq[t].dmabufHandle
          /\ torq'[t].dmabufDevNode = torq[t].dmabufDevNode
          /\ torq'[t].xramVBase = torq[t].xramVBase /\ torq'[t].mapped = torq[t].mapped
          /\ torq'[t].xramStartAddr = torq[t].xramStartAddr
      BY <1>1, <3>2 DEF Torq, Node
    <3>4. MappingInv(torq'[t])
      BY <1>1, <3>3, MappingKept DEF ThreadInv, XramInv
    <3> QED BY <1>1, <3>1, <3>3, <3>4 DEF TypeInv
  <2>3. OnlyMoves(t)
    BY <1>1, <2>1, <2>2, Moves DEF TypeInv, OnlyMoves, Place, Closing
  <2>4. \/ /\ pc'[t] = "xram" /\ torq'[t].torqDevNode = "open"
        \/ /\ pc'[t] = "stop" /\ after'[t] \in {"destroy", "idle"} /\ t \notin files'
    <3>1. t \notin files
      BY <1>1, <2>1 DEF ThreadInv, FileInv
    <3>2. CASE /\ Npu!Open(t) /\ Goto(t, "xram")
               /\ torq' = [torq EXCEPT ![t]["torqDevNode"] = "open"]
      BY <1>1, <3>2, Moves DEF TypeInv, Torq, Place
    <3>3. CASE CallClose(t, "destroy") /\ UNCHANGED kernel
      BY <1>1, <3>1, <3>3 DEF CallClose, TypeInv, kernel
    <3> QED BY <2>1, <3>2, <3>3
  <2>5. FileInv(t)' /\ AfterInv(t)' /\ XramInv(t)'
    BY <1>1, <2>1, <2>2, <2>4 DEF ThreadInv, FileInv, AfterInv, XramInv, Closing
  <2>6. NetworkInv(t)'
    BY <1>1, <2>1, <2>2, <2>4 DEF ThreadInv, NetworkInv
  <2>7. RunInv(t)'
    BY <1>1, <2>1, <2>4 DEF ThreadInv, RunInv
  <2> QED BY <2>3, <2>5, <2>6, <2>7 DEF ThreadInv
<1>4. CASE SetupXramSpace(t)
  <2>1. /\ pc[t] = "xram" /\ UNCHANGED <<kernel, run>>
        /\ CallClose(t, "destroy") \/ Goto(t, "create")
    BY <1>4 DEF SetupXramSpace
  <2>2. /\ torq' \in [Thread -> Torq]
        /\ \A u \in Thread \ {t} : torq'[u] = torq[u]
        /\ torq'[t].networkId = torq[t].networkId
        /\ torq'[t].networkActive = torq[t].networkActive
        /\ torq'[t].torqDevNode = torq[t].torqDevNode
        /\ MappingInv(torq'[t])
    <3>1. /\ \A u \in Thread \ {t} : torq'[u] = torq[u]
          /\ torq' = [torq EXCEPT ![t] = torq'[t]]
          /\ \/ torq'[t] = [torq[t] EXCEPT !.dmabufDevNode = "failed"]
             \/ torq'[t] = [torq[t] EXCEPT !.dmabufDevNode = "open"]
             \/ torq'[t] = [torq[t] EXCEPT !.dmabufDevNode = "open", !.dmabufHandle = TRUE,
                                           !.xramVBase = "failed"]
             \/ torq'[t] = [torq[t] EXCEPT !.dmabufDevNode = "open", !.dmabufHandle = TRUE,
                                           !.xramVBase = "mapped",
                                           !.mapped = PagesMapped(torq[t])]
      BY <1>1, <1>4 DEF SetupXramSpace, TypeInv
    <3>5. PICK n \in Nat : n = PagesMapped(torq[t])
      BY <1>1, AlignedPages DEF Torq
    <3>2. /\ torq'[t] \in Torq
          /\ torq'[t].networkId = torq[t].networkId
          /\ torq'[t].networkActive = torq[t].networkActive
          /\ torq'[t].torqDevNode = torq[t].torqDevNode
      <4>1. CASE \/ torq'[t] = [torq[t] EXCEPT !.dmabufDevNode = "failed"]
                 \/ torq'[t] = [torq[t] EXCEPT !.dmabufDevNode = "open"]
                 \/ torq'[t] = [torq[t] EXCEPT !.dmabufDevNode = "open", !.dmabufHandle = TRUE,
                                               !.xramVBase = "failed"]
        BY <1>1, <4>1 DEF Torq, Node
      <4>2. CASE torq'[t] = [torq[t] EXCEPT !.dmabufDevNode = "open", !.dmabufHandle = TRUE,
                                            !.xramVBase = "mapped", !.mapped = n]
        BY <1>1, <4>2 DEF Torq, Node
      <4> QED BY <3>1, <3>5, <4>1, <4>2
    <3>3. /\ torq'[t].xramStartAddr = torq[t].xramStartAddr
          /\ \/ torq'[t].mapped = torq[t].mapped /\ torq'[t].xramVBase # "mapped"
             \/ torq'[t].mapped = PagesMapped(torq[t]) /\ torq'[t].xramVBase = "mapped"
      BY <1>1, <2>1, <3>1 DEF Torq, ThreadInv, XramInv
    <3>4. MappingInv(torq'[t])
      BY <1>1, <2>1, <3>3 DEF ThreadInv, XramInv, MappingInv, PagesMapped, AlignOffset
    <3> QED BY <1>1, <3>1, <3>2, <3>4 DEF TypeInv
  <2>3. OnlyMoves(t)
    BY <1>1, <2>1, <2>2, Moves DEF TypeInv, OnlyMoves, Place, Closing
  <2>4. \/ pc'[t] = "create"
        \/ pc'[t] = "stop" /\ after'[t] \in {"destroy", "idle"}
    BY <1>1, <2>1 DEF CallClose, Goto, TypeInv
  <2>5. FileInv(t)' /\ AfterInv(t)' /\ XramInv(t)'
    BY <1>1, <2>1, <2>2, <2>4 DEF ThreadInv, FileInv, AfterInv, XramInv, Closing, kernel
  <2>6. NetworkInv(t)'
    BY <1>1, <2>1, <2>2, <2>4 DEF ThreadInv, NetworkInv
  <2>7. RunInv(t)'
    BY <1>1, <2>1, <2>4 DEF ThreadInv, RunInv
  <2> QED BY <2>3, <2>5, <2>6, <2>7 DEF ThreadInv
<1> QED BY <1>2, <1>3, <1>4

(* A thread that goes to close(), or out of run without calling it. *)
LEMMA Leaving ==
  ASSUME NEW t \in Thread, ThreadInv(t),
         pc[t] \notin {"idle", "lock", "open", "drop", "unmap", "node", "file", "unlock",
                       "killed", "killed file"},
         pc'[t] \in {"stop", "destroy"}, pc'[t] = "stop" => after'[t] \in {"destroy", "idle"},
         UNCHANGED kernel, torq'[t] = torq[t]
  PROVE  ThreadInv(t)'
PROOF
<1>1. FileInv(t)' /\ AfterInv(t)' /\ XramInv(t)'
  BY DEF ThreadInv, FileInv, AfterInv, XramInv, Closing, kernel
<1>2. NetworkInv(t)'
  BY DEF ThreadInv, NetworkInv, Valid, kernel
<1>3. RunInv(t)'
  BY DEF RunInv
<1> QED BY <1>1, <1>2, <1>3 DEF ThreadInv

LEMMA CreateStep ==
  ASSUME SessionInv, NEW t \in Thread, CreateNetwork(t) \/ Prepare(t) \/ ReadBack(t),
         UNCHANGED processOf
  PROVE  OnlyMoves(t) /\ ThreadInv(t)'
PROOF
<1> USE SessionAssumption
<1>1. TypeInv /\ ThreadInv(t) /\ torq[t] \in Torq /\ KernelInv
  BY DEF SessionInv, TypeInv
<1>2. CASE /\ pc[t] \in {"create", "prepare", "readback"} /\ UNCHANGED <<kernel, torq, run>>
           /\ CallClose(t, "destroy") \/ Goto(t, "destroy")
  <2>1. /\ pc'[t] \in {"stop", "destroy"}
        /\ pc'[t] = "stop" => after'[t] \in {"destroy", "idle"}
    BY <1>1, <1>2 DEF CallClose, Goto, TypeInv
  <2>2. OnlyMoves(t)
    BY <1>1, <1>2, Moves DEF TypeInv, OnlyMoves, Place, Closing
  <2> QED BY <1>1, <1>2, <2>1, <2>2, Leaving
<1>3. CASE pc[t] = "prepare" /\ Goto(t, "load") /\ UNCHANGED <<kernel, torq, run>>
  <2>1. pc'[t] = "load" /\ OnlyMoves(t)
    BY <1>1, <1>3, Moves DEF TypeInv, OnlyMoves, Place
  <2>2. FileInv(t)' /\ AfterInv(t)' /\ XramInv(t)'
    BY <1>1, <1>3, <2>1 DEF ThreadInv, FileInv, AfterInv, XramInv, Closing, kernel
  <2>3. NetworkInv(t)'
    BY <1>1, <1>3, <2>1 DEF ThreadInv, NetworkInv, Valid, kernel
  <2>4. RunInv(t)'
    BY <1>1, <1>3, <2>1 DEF ThreadInv, RunInv
  <2> QED BY <2>1, <2>2, <2>3, <2>4 DEF ThreadInv
<1>4. ASSUME pc[t] = "create", Valid(t), UNCHANGED run, Goto(t, "prepare"),
             NEW n \in Net, Npu!CreateNetwork(t, n), Set(t, "networkId", n)
      PROVE  OnlyMoves(t) /\ ThreadInv(t)'
  <2>1. /\ torq' = [torq EXCEPT ![t] = torq'[t]]
        /\ torq'[t] = [torq[t] EXCEPT !["networkId"] = n]
        /\ \A u \in Thread \ {t} : torq'[u] = torq[u]
    BY <1>1, <1>4 DEF Set, TypeInv
  <2>2. /\ torq'[t] \in Torq /\ torq'[t].networkId = n
        /\ torq'[t].networkActive = torq[t].networkActive
        /\ torq'[t].torqDevNode = torq[t].torqDevNode
    BY <1>1, <2>1 DEF Torq
  <2>3. torq' \in [Thread -> Torq]
    BY <1>1, <2>1, <2>2 DEF TypeInv
  <2>4. pc'[t] = "prepare" /\ OnlyMoves(t)
    <3>1. "prepare" \in Place
      BY DEF Place
    <3> QED BY <1>1, <1>4, <2>1, <2>3, <3>1, Moves DEF TypeInv, OnlyMoves
  <2>5. files' = files /\ n \in DOMAIN owner' /\ owner'[n] = t
    BY <1>4 DEF Npu!CreateNetwork
  <2>9. MappingInv(torq'[t])
    <3>1. /\ torq'[t].xramVBase = torq[t].xramVBase /\ torq'[t].mapped = torq[t].mapped
         /\ torq'[t].xramStartAddr = torq[t].xramStartAddr
      BY <1>1, <2>1 DEF Torq
    <3> QED BY <1>1, <3>1, MappingKept DEF ThreadInv, XramInv
  <2>6. FileInv(t)' /\ AfterInv(t)' /\ XramInv(t)'
    BY <1>1, <1>4, <2>2, <2>4, <2>5, <2>9 DEF ThreadInv, FileInv, AfterInv, XramInv, Closing
  <2>7. NetworkInv(t)'
    BY <1>1, <1>4, <2>2, <2>4, <2>5 DEF ThreadInv, NetworkInv
  <2>8. RunInv(t)'
    BY <1>1, <1>4, <2>4 DEF ThreadInv, RunInv
  <2> QED BY <2>4, <2>6, <2>7, <2>8 DEF ThreadInv
<1> QED BY <1>2, <1>3, <1>4 DEF CreateNetwork, Prepare, ReadBack

(* load() *)
LEMMA LoadStep ==
  ASSUME SessionInv, NEW t \in Thread, Load(t), UNCHANGED processOf
  PROVE  OnlyMoves(t) /\ ThreadInv(t)'
PROOF
<1> USE SessionAssumption
<1>1. TypeInv /\ ThreadInv(t) /\ torq[t] \in Torq /\ run[t] \in Run /\ KernelInv
  BY DEF SessionInv, TypeInv
<1>2. pc[t] = "load"
  BY DEF Load
<1>3. CASE Goto(t, "destroy") /\ UNCHANGED <<kernel, torq, run>>
  <2>1. pc'[t] = "destroy" /\ OnlyMoves(t)
    BY <1>1, <1>3, Moves DEF TypeInv, OnlyMoves, Place
  <2> QED BY <1>1, <1>2, <1>3, <2>1, Leaving
<1>4. CASE /\ run' = [run EXCEPT ![t].retries = @ + 1]
           /\ Goto(t, "destroy") \/ Goto(t, "load")
           /\ UNCHANGED <<kernel, torq>>
  <2>0. PICK k \in Nat : k = run[t].retries + 1
    BY <1>1 DEF Run
  <2>1. /\ run' = [run EXCEPT ![t] = run'[t]]
        /\ run'[t] = [run[t] EXCEPT !.retries = run[t].retries + 1]
        /\ \A u \in Thread \ {t} : run'[u] = run[u]
    BY <1>1, <1>4 DEF TypeInv
  <2>2. /\ run'[t] \in Run /\ run'[t].ok = run[t].ok /\ run'[t].unread = run[t].unread
        /\ run'[t].actionIndex = run[t].actionIndex
    <3>1. run'[t] = [run[t] EXCEPT !.retries = k]
      BY <2>1, <2>0
    <3> QED BY <1>1, <3>1 DEF Run
  <2>3. run' \in [Thread -> Run]
    BY <1>1, <2>1, <2>2 DEF TypeInv
  <2>4. pc'[t] \in {"destroy", "load"} /\ OnlyMoves(t)
    <3>1. PICK l \in {"destroy", "load"} : Goto(t, l)
      BY <1>4
    <3>2. l \in Place
      BY DEF Place
    <3> QED BY <1>1, <1>4, <2>1, <2>3, <3>1, <3>2, Moves DEF TypeInv, OnlyMoves
  <2>5. CASE pc'[t] = "destroy"
    BY <1>1, <1>2, <1>4, <2>4, <2>5, Leaving
  <2>6. CASE pc'[t] = "load"
    <3>1. FileInv(t)' /\ AfterInv(t)' /\ XramInv(t)'
      BY <1>1, <1>2, <1>4, <2>6 DEF ThreadInv, FileInv, AfterInv, XramInv, Closing, kernel
    <3>2. NetworkInv(t)'
      BY <1>1, <1>2, <1>4, <2>6 DEF ThreadInv, NetworkInv, Valid, kernel
    <3>3. RunInv(t)'
      BY <1>1, <1>2, <2>2, <2>6 DEF ThreadInv, RunInv
    <3> QED BY <2>4, <3>1, <3>2, <3>3 DEF ThreadInv
  <2> QED BY <2>4, <2>5, <2>6
<1>5. CASE /\ Valid(t) /\ Npu!StartNetwork(t, torq[t].networkId)
           /\ Set(t, "networkActive", TRUE) /\ Goto(t, "run") /\ UNCHANGED run
  <2>1. /\ torq' = [torq EXCEPT ![t] = torq'[t]]
        /\ torq'[t] = [torq[t] EXCEPT !["networkActive"] = TRUE]
        /\ \A u \in Thread \ {t} : torq'[u] = torq[u]
    BY <1>1, <1>5 DEF Set, TypeInv
  <2>2. /\ torq'[t] \in Torq /\ torq'[t].networkId = torq[t].networkId
        /\ torq'[t].torqDevNode = torq[t].torqDevNode
    BY <1>1, <2>1 DEF Torq
  <2>3. torq' \in [Thread -> Torq]
    BY <1>1, <2>1, <2>2 DEF TypeInv
  <2>4. pc'[t] = "run" /\ OnlyMoves(t)
    <3>1. "run" \in Place
      BY DEF Place
    <3> QED BY <1>1, <1>5, <2>1, <2>3, <3>1, Moves DEF TypeInv, OnlyMoves
  <2>5. /\ active' = torq[t].networkId /\ job' = None /\ UNCHANGED <<files, owner>>
    BY <1>5 DEF Npu!StartNetwork
  <2>9. MappingInv(torq'[t])
    <3>1. /\ torq'[t].xramVBase = torq[t].xramVBase /\ torq'[t].mapped = torq[t].mapped
         /\ torq'[t].xramStartAddr = torq[t].xramStartAddr
      BY <1>1, <2>1 DEF Torq
    <3> QED BY <1>1, <3>1, MappingKept DEF ThreadInv, XramInv
  <2>6. FileInv(t)' /\ AfterInv(t)' /\ XramInv(t)'
    BY <1>1, <1>2, <2>2, <2>4, <2>5, <2>9 DEF ThreadInv, FileInv, AfterInv, XramInv, Closing
  <2>7. NetworkInv(t)'
    BY <1>1, <1>2, <1>5, <2>2, <2>4, <2>5 DEF ThreadInv, NetworkInv, Valid
  <2>8. RunInv(t)'
    BY <1>1, <1>2, <1>5, <2>2, <2>4, <2>5 DEF ThreadInv, RunInv, NetworkInv
  <2> QED BY <2>4, <2>6, <2>7, <2>8 DEF ThreadInv
<1> QED BY <1>3, <1>4, <1>5 DEF Load

(* An action of the executable that succeeds: the wait of a job that is not *)
(* yet waited for is still to come.                                         *)
LEMMA NextActionStep ==
  ASSUME NEW t \in Thread, TypeInv, ThreadInv(t), pc[t] = "run",
         NEW b \in BOOLEAN, NextAction(t, b), UNCHANGED <<processOf, files, owner, active, torq>>,
         b => \E m \in run[t].actionIndex + 1 .. Len(Program) : Program[m] = "wait",
         Valid(t) /\ ~b => job' # torq[t].networkId,
         Valid(t) /\ torq[t].networkActive => job' \in {None, active}
  PROVE  OnlyMoves(t) /\ ThreadInv(t)'
PROOF
<1> USE SessionAssumption
<1>1. torq[t] \in Torq /\ run[t] \in Run
  BY DEF TypeInv
<1>2. /\ run' = [run EXCEPT ![t] = run'[t]]
      /\ run'[t] = [run[t] EXCEPT !.actionIndex = run[t].actionIndex + 1, !.unread = b]
      /\ \A u \in Thread \ {t} : run'[u] = run[u]
  BY DEF NextAction, TypeInv
<1>3. /\ run'[t] \in Run /\ run'[t].ok = run[t].ok /\ run'[t].unread = b
      /\ run'[t].actionIndex = run[t].actionIndex + 1
  <2>1. run[t].actionIndex + 1 \in Nat
    BY <1>1 DEF Run
  <2>2. run'[t] = [retries |-> run[t].retries, actionIndex |-> run[t].actionIndex + 1,
                   ok |-> run[t].ok, unread |-> b]
    BY <1>1, <1>2 DEF Run
  <2> QED BY <1>1, <2>1, <2>2 DEF Run
<1>4. run' \in [Thread -> Run]
  BY <1>2, <1>3 DEF TypeInv
<1>5. /\ pc'[t] = (IF run[t].actionIndex = Len(Program) THEN "release" ELSE "run")
      /\ OnlyMoves(t)
  <2>1. PICK l \in {"release", "run"} :
          Goto(t, l) /\ l = IF run[t].actionIndex = Len(Program) THEN "release" ELSE "run"
    BY DEF NextAction
  <2>2. l \in Place
    BY DEF Place
  <2> QED BY <1>2, <1>4, <2>1, <2>2, Moves DEF TypeInv, OnlyMoves
<1>6. FileInv(t)' /\ AfterInv(t)' /\ XramInv(t)'
  BY <1>5 DEF ThreadInv, FileInv, AfterInv, XramInv, Closing
<1>7. NetworkInv(t)'
  BY <1>5 DEF ThreadInv, NetworkInv, Valid
<1>8. RunInv(t)'
  <2>1. /\ run[t].ok /\ run[t].actionIndex \in 1 .. Len(Program) /\ Len(Program) \in Nat
    BY DEF ThreadInv, RunInv
  <2>2. run'[t].actionIndex \in Nat
    BY <1>3 DEF Run
  <2> QED BY <1>3, <1>5, <2>1, <2>2 DEF RunInv, Valid
<1> QED BY <1>5, <1>6, <1>7, <1>8 DEF ThreadInv

LEMMA ActionFailsStep ==
  ASSUME NEW t \in Thread, TypeInv, ThreadInv(t), pc[t] = "run",
         ActionFails(t), UNCHANGED <<processOf, torq>>
  PROVE  OnlyMoves(t) /\ ThreadInv(t)'
PROOF
<1>1. torq[t] \in Torq /\ run[t] \in Run
  BY DEF TypeInv
<1>2. /\ run' = [run EXCEPT ![t] = run'[t]]
      /\ run'[t] = [run[t] EXCEPT !.ok = FALSE]
      /\ \A u \in Thread \ {t} : run'[u] = run[u]
  BY DEF ActionFails, TypeInv
<1>3. run'[t] \in Run /\ run'[t].ok = FALSE
  BY <1>1, <1>2 DEF Run
<1>4. run' \in [Thread -> Run]
  BY <1>2, <1>3 DEF TypeInv
<1>5. pc'[t] = "release" /\ OnlyMoves(t) /\ UNCHANGED kernel
  <2>1. "release" \in Place /\ Goto(t, "release") /\ UNCHANGED kernel
    BY DEF Place, ActionFails
  <2> QED BY <1>2, <1>4, <2>1, Moves DEF TypeInv, OnlyMoves
<1>6. FileInv(t)' /\ AfterInv(t)' /\ XramInv(t)'
  BY <1>5 DEF ThreadInv, FileInv, AfterInv, XramInv, Closing, kernel
<1>7. NetworkInv(t)'
  BY <1>5 DEF ThreadInv, NetworkInv, Valid, kernel
<1>8. RunInv(t)'
  BY <1>3, <1>5 DEF RunInv
<1> QED BY <1>5, <1>6, <1>7, <1>8 DEF ThreadInv

(* The loop over the actions of the executable. *)
LEMMA ActionStep ==
  ASSUME SessionInv, NEW t \in Thread,
         StartNSS(t) \/ WaitNSS(t) \/ HostCopy(t) \/ StartHost(t), UNCHANGED processOf
  PROVE  OnlyMoves(t) /\ ThreadInv(t)'
PROOF
<1> USE SessionAssumption
<1>1. TypeInv /\ ThreadInv(t) /\ torq[t] \in Torq /\ run[t] \in Run /\ KernelInv
  BY DEF SessionInv, TypeInv
<1>2. pc[t] = "run" /\ UNCHANGED torq
  BY DEF StartNSS, WaitNSS, HostCopy, StartHost, Action
<1> DEFINE k == run[t].actionIndex
<1>3. run[t].ok /\ k \in DOMAIN Program /\ torq[t].networkId # None
  BY <1>1, <1>2 DEF ThreadInv, RunInv, NetworkInv
<1>4. Valid(t) /\ torq[t].networkActive => active = torq[t].networkId /\ job \in {None, active}
  BY <1>1, <1>2 DEF ThreadInv, NetworkInv
<1>5. CASE ActionFails(t)
  BY <1>1, <1>2, <1>5, ActionFailsStep
<1>6. CASE /\ Program[k] = "start" /\ Npu!RunNetwork(t, torq[t].networkId)
           /\ NextAction(t, TRUE)
  <2>1. job' = torq[t].networkId /\ active = torq[t].networkId /\ UNCHANGED <<files, owner, active>>
    BY <1>6 DEF Npu!RunNetwork
  <2>2. \E m \in k + 1 .. Len(Program) : Program[m] = "wait"
    BY <1>3, <1>6
  <2> QED BY <1>1, <1>2, <1>6, <2>1, <2>2, NextActionStep
<1>7. CASE /\ Program[k] = "wait" /\ job # torq[t].networkId /\ NextAction(t, FALSE)
           /\ UNCHANGED kernel
  BY <1>1, <1>2, <1>4, <1>7, NextActionStep DEF kernel
<1>8. CASE /\ Program[k] \in {"copy", "host"} /\ NextAction(t, run[t].unread)
           /\ UNCHANGED kernel
  <2>1. run[t].unread \in BOOLEAN
    BY <1>1 DEF Run
  <2>2. ASSUME run[t].unread
        PROVE  \E m \in k + 1 .. Len(Program) : Program[m] = "wait"
    <3>1. PICK m \in k .. Len(Program) : Program[m] = "wait"
      BY <1>1, <1>2, <1>3, <2>2 DEF ThreadInv, RunInv
    <3>2. m # k
      BY <1>8, <3>1
    <3> QED BY <1>3, <3>1, <3>2
  <2>3. Valid(t) /\ ~run[t].unread => job # torq[t].networkId
    BY <1>1, <1>2, <1>3 DEF ThreadInv, RunInv
  <2>4. PICK b \in BOOLEAN : b = run[t].unread
    BY <2>1
  <2>5. NextAction(t, b)
    BY <1>8, <2>4 DEF NextAction
  <2> QED BY <1>1, <1>2, <1>4, <1>8, <2>2, <2>3, <2>4, <2>5, NextActionStep DEF kernel
<1> QED BY <1>5, <1>6, <1>7, <1>8 DEF StartNSS, WaitNSS, HostCopy, StartHost, Action

(* release() *)
LEMMA ReleaseStep ==
  ASSUME SessionInv, NEW t \in Thread, Release(t), UNCHANGED processOf
  PROVE  OnlyMoves(t) /\ ThreadInv(t)'
PROOF
<1> USE SessionAssumption
<1>1. TypeInv /\ ThreadInv(t) /\ torq[t] \in Torq /\ run[t] \in Run /\ KernelInv
  BY DEF SessionInv, TypeInv
<1>2. /\ pc[t] = "release" /\ UNCHANGED run /\ Set(t, "networkActive", FALSE)
      /\ IF run[t].ok THEN Goto(t, "readback") ELSE CallClose(t, "destroy")
  BY DEF Release
<1>3. UNCHANGED <<files, owner, job>>
  BY DEF Release, Npu!StopNetwork, kernel
<1>4. /\ torq' = [torq EXCEPT ![t] = torq'[t]]
      /\ torq'[t] = [torq[t] EXCEPT !["networkActive"] = FALSE]
      /\ \A u \in Thread \ {t} : torq'[u] = torq[u]
  BY <1>1, <1>2 DEF Set, TypeInv
<1>5. /\ torq'[t] \in Torq /\ torq'[t].networkId = torq[t].networkId
      /\ torq'[t].torqDevNode = torq[t].torqDevNode /\ torq'[t].networkActive = FALSE
  BY <1>1, <1>4 DEF Torq
<1>6. torq' \in [Thread -> Torq]
  BY <1>1, <1>4, <1>5 DEF TypeInv
<1>7. OnlyMoves(t)
  <2>1. {"readback", "stop"} \subseteq Place
    BY DEF Place, Closing
  <2> QED BY <1>1, <1>2, <1>4, <1>6, <2>1, Moves DEF TypeInv, OnlyMoves
<1>8. \/ pc'[t] = "readback" /\ run[t].ok
      \/ pc'[t] = "stop" /\ after'[t] = "destroy"
  BY <1>1, <1>2 DEF Goto, CallClose, TypeInv
<1>12. MappingInv(torq'[t])
  <2>1. /\ torq'[t].xramVBase = torq[t].xramVBase /\ torq'[t].mapped = torq[t].mapped
       /\ torq'[t].xramStartAddr = torq[t].xramStartAddr
    BY <1>1, <1>4 DEF Torq
  <2> QED BY <1>1, <2>1, MappingKept DEF ThreadInv, XramInv
<1>9. FileInv(t)' /\ AfterInv(t)' /\ XramInv(t)'
  BY <1>1, <1>2, <1>3, <1>5, <1>8, <1>12 DEF ThreadInv, FileInv, AfterInv, XramInv, Closing
<1>10. NetworkInv(t)'
  BY <1>1, <1>2, <1>3, <1>5, <1>8 DEF ThreadInv, NetworkInv, Valid
<1>11. RunInv(t)'
  BY <1>1, <1>2, <1>3, <1>5, <1>8 DEF ThreadInv, RunInv, Valid
<1> QED BY <1>7, <1>9, <1>10, <1>11 DEF ThreadInv

(* close(): the network is stopped, then destroyed, before the file is      *)
(* closed.                                                                  *)
LEMMA CloseNetworkStep ==
  ASSUME SessionInv, NEW t \in Thread, CloseStops(t) \/ CloseDestroys(t), UNCHANGED processOf
  PROVE  OnlyMoves(t) /\ ThreadInv(t)'
PROOF
<1> USE SessionAssumption
<1>1. TypeInv /\ ThreadInv(t) /\ torq[t] \in Torq /\ KernelInv
  BY DEF SessionInv, TypeInv
<1>2. CASE CloseStops(t)
  <2>1. /\ pc[t] = "stop" /\ Goto(t, "drop") /\ UNCHANGED <<files, owner, torq, run>>
    BY <1>2 DEF CloseStops, Npu!StopNetwork, kernel
  <2>2. pc'[t] = "drop" /\ after'[t] = after[t] /\ OnlyMoves(t)
    <3>1. "drop" \in Place
      BY DEF Place, Closing
    <3> QED BY <1>1, <2>1, <3>1, Moves DEF TypeInv, OnlyMoves
  <2>3. FileInv(t)' /\ AfterInv(t)' /\ XramInv(t)'
    BY <1>1, <2>1, <2>2 DEF ThreadInv, FileInv, AfterInv, XramInv, Closing
  <2>4. NetworkInv(t)' /\ RunInv(t)'
    BY <1>1, <2>1, <2>2 DEF ThreadInv, NetworkInv, Valid, RunInv
  <2> QED BY <2>2, <2>3, <2>4 DEF ThreadInv
<1>3. CASE CloseDestroys(t)
  <2>1. /\ pc[t] = "drop" /\ Goto(t, "unmap") /\ UNCHANGED run
    BY <1>3 DEF CloseDestroys
  <2>2. "unmap" \in Place /\ "unmap" \in Closing /\ "drop" \in Closing
    BY DEF Place, Closing
  <2>3. CASE /\ Npu!DestroyNetwork(t, torq[t].networkId)
             /\ torq' = [torq EXCEPT ![t].networkId = None, ![t].networkActive = FALSE]
    <3>1. /\ torq' = [torq EXCEPT ![t] = torq'[t]]
          /\ torq'[t] = [torq[t] EXCEPT !.networkId = None, !.networkActive = FALSE]
          /\ \A u \in Thread \ {t} : torq'[u] = torq[u]
      BY <1>1, <2>3 DEF TypeInv
    <3>2. /\ torq'[t] \in Torq /\ torq'[t].networkId = None
          /\ torq'[t].networkActive = FALSE /\ torq'[t].torqDevNode = torq[t].torqDevNode
      BY <1>1, <3>1 DEF Torq
    <3>3. torq' \in [Thread -> Torq]
      BY <1>1, <3>1, <3>2 DEF TypeInv
    <3>4. pc'[t] = "unmap" /\ after'[t] = after[t] /\ OnlyMoves(t)
      BY <1>1, <2>1, <2>2, <3>1, <3>3, Moves DEF TypeInv, OnlyMoves
    <3>5. files' = files
      BY <2>3 DEF Npu!DestroyNetwork
    <3>8. MappingInv(torq'[t])
      <4>1. /\ torq'[t].xramVBase = torq[t].xramVBase /\ torq'[t].mapped = torq[t].mapped
           /\ torq'[t].xramStartAddr = torq[t].xramStartAddr
        BY <1>1, <3>1 DEF Torq
      <4> QED BY <1>1, <4>1, MappingKept DEF ThreadInv, XramInv
    <3>6. FileInv(t)' /\ AfterInv(t)' /\ XramInv(t)'
      BY <1>1, <2>1, <2>2, <3>2, <3>4, <3>5, <3>8 DEF ThreadInv, FileInv, AfterInv, XramInv
    <3>7. NetworkInv(t)' /\ RunInv(t)'
      BY <3>2, <3>4 DEF NetworkInv, RunInv
    <3> QED BY <3>4, <3>6, <3>7 DEF ThreadInv
  <2>4. CASE /\ ~(torq[t].networkId # None /\ Valid(t)) /\ UNCHANGED <<kernel, torq>>
    <3>1. pc'[t] = "unmap" /\ after'[t] = after[t] /\ OnlyMoves(t)
      BY <1>1, <2>1, <2>2, <2>4, Moves DEF TypeInv, OnlyMoves
    <3>2. FileInv(t)' /\ AfterInv(t)' /\ XramInv(t)'
      BY <1>1, <2>1, <2>2, <2>4, <3>1 DEF ThreadInv, FileInv, AfterInv, XramInv, kernel
    <3>3. NetworkInv(t)' /\ RunInv(t)'
      BY <1>1, <2>1, <2>4, <3>1 DEF ThreadInv, NetworkInv, RunInv, Valid, kernel
    <3> QED BY <3>1, <3>2, <3>3 DEF ThreadInv
  <2> QED BY <1>3, <2>3, <2>4 DEF CloseDestroys
<1> QED BY <1>2, <1>3

(* close(): the memory, even if that closes the file of another session.    *)
LEMMA CloseXramStep ==
  ASSUME SessionInv, NEW t \in Thread, CloseXram(t), UNCHANGED processOf
  PROVE  OnlyMoves(t) /\ ThreadInv(t)'
PROOF
<1> USE SessionAssumption
<1>1. TypeInv /\ ThreadInv(t) /\ torq[t] \in Torq /\ KernelInv
  BY DEF SessionInv, TypeInv
<1>2. /\ pc[t] = "unmap" /\ Goto(t, "node") /\ UNCHANGED run
      /\ CloseUnset(t) \/ UNCHANGED kernel
      /\ torq' = [torq EXCEPT ![t].dmabufHandle = FALSE, ![t].dmabufDevNode = "zero",
                              ![t].xramVBase = IF @ = "mapped" THEN "null" ELSE @,
                              ![t].mapped = IF torq[t].xramVBase = "mapped"
                                            THEN @ - PagesUnmapped ELSE @]
  BY DEF CloseXram
<1>3. Undisturbed(t)
  BY <1>1, <1>2, SelfUndisturbed
<1>4. /\ torq' = [torq EXCEPT ![t] = torq'[t]]
      /\ torq'[t] = [torq[t] EXCEPT !.dmabufHandle = FALSE, !.dmabufDevNode = "zero",
                       !.xramVBase = IF torq[t].xramVBase = "mapped" THEN "null"
                                                                     ELSE torq[t].xramVBase,
                       !.mapped = IF torq[t].xramVBase = "mapped"
                                  THEN torq[t].mapped - PagesUnmapped ELSE torq[t].mapped]
      /\ \A u \in Thread \ {t} : torq'[u] = torq[u]
  BY <1>1, <1>2 DEF TypeInv
<1>5. /\ torq'[t] \in Torq /\ torq'[t].networkId = torq[t].networkId
      /\ torq'[t].networkActive = torq[t].networkActive
      /\ torq'[t].torqDevNode = torq[t].torqDevNode
      /\ ~torq'[t].dmabufHandle /\ torq'[t].dmabufDevNode # "open"
      /\ torq'[t].xramVBase # "mapped" /\ MappingInv(torq'[t])
  <2> DEFINE m == IF torq[t].xramVBase = "mapped" THEN torq[t].mapped - PagesUnmapped
                                                  ELSE torq[t].mapped
  <2>1. m = 0 \/ (m = 1 /\ AlignOffset(torq[t]) # 0)
    <3>1. MappingInv(torq[t]) /\ torq[t].xramStartAddr \in Nat
      BY <1>1 DEF ThreadInv, XramInv, Torq
    <3> QED BY <3>1, AlignedPages DEF MappingInv
  <2>2. torq'[t] = [torq[t] EXCEPT !.dmabufHandle = FALSE, !.dmabufDevNode = "zero",
                       !.xramVBase = IF torq[t].xramVBase = "mapped" THEN "null"
                                                                     ELSE torq[t].xramVBase,
                       !.mapped = m]
    BY <1>4
  <2>3. m \in Nat
    BY <2>1
  <2> HIDE DEF m
  <2>4. /\ torq'[t] \in Torq /\ torq'[t].networkId = torq[t].networkId
        /\ torq'[t].networkActive = torq[t].networkActive
        /\ torq'[t].torqDevNode = torq[t].torqDevNode
        /\ ~torq'[t].dmabufHandle /\ torq'[t].dmabufDevNode # "open"
        /\ torq'[t].xramVBase # "mapped" /\ torq'[t].mapped = m
        /\ torq'[t].xramStartAddr = torq[t].xramStartAddr
    BY <1>1, <2>2, <2>3 DEF Torq, Node
  <2> QED BY <2>1, <2>4 DEF MappingInv, AlignOffset
<1>6. torq' \in [Thread -> Torq]
  BY <1>1, <1>4, <1>5 DEF TypeInv
<1>7. pc'[t] = "node" /\ after'[t] = after[t] /\ OnlyMoves(t)
  <2>1. "node" \in Place
    BY DEF Place, Closing
  <2> QED BY <1>1, <1>2, <1>4, <1>6, <2>1, Moves DEF TypeInv, OnlyMoves
<1>8. FileInv(t)' /\ AfterInv(t)' /\ XramInv(t)'
  BY <1>1, <1>2, <1>3, <1>5, <1>7
  DEF ThreadInv, FileInv, AfterInv, XramInv, Closing, Undisturbed
<1>9. NetworkInv(t)'
  <2>1. Valid(t)' => Valid(t) /\ t \in files'
    BY <1>3, <1>5 DEF Valid, Undisturbed
  <2> QED BY <1>1, <1>2, <1>3, <1>5, <1>7, <2>1 DEF ThreadInv, NetworkInv, Undisturbed
<1>10. RunInv(t)'
  BY <1>7 DEF RunInv
<1> QED BY <1>7, <1>8, <1>9, <1>10 DEF ThreadInv

(* close(): the file, the lock, and the return.  The destructor calls       *)
(* close() again.                                                           *)
LEMMA CloseFileStep ==
  ASSUME SessionInv, NEW t \in Thread,
         CloseNode(t) \/ CloseFile(t) \/ Unlock(t) \/ Destructor(t), UNCHANGED processOf
  PROVE  OnlyMoves(t) /\ ThreadInv(t)'
PROOF
<1> USE SessionAssumption
<1>1. TypeInv /\ ThreadInv(t) /\ torq[t] \in Torq /\ KernelInv
  BY DEF SessionInv, TypeInv
<1>2. CASE CloseNode(t)
  <2>1. /\ pc[t] = "node" /\ UNCHANGED <<run, files>> /\ Set(t, "torqDevNode", "zero")
        /\ IF Valid(t) THEN Goto(t, "file") ELSE Goto(t, "unlock")
    BY <1>2 DEF CloseNode, Npu!ReleaseNetworks, kernel
  <2>2. /\ torq' = [torq EXCEPT ![t] = torq'[t]]
        /\ torq'[t] = [torq[t] EXCEPT !["torqDevNode"] = "zero"]
        /\ \A u \in Thread \ {t} : torq'[u] = torq[u]
    BY <1>1, <2>1 DEF Set, TypeInv
  <2>3. /\ torq'[t] \in Torq /\ torq'[t].networkId = torq[t].networkId
        /\ torq'[t].networkActive = torq[t].networkActive
        /\ torq'[t].dmabufHandle = torq[t].dmabufHandle
        /\ torq'[t].dmabufDevNode = torq[t].dmabufDevNode
        /\ torq'[t].xramVBase = torq[t].xramVBase /\ torq'[t].torqDevNode = "zero"
    BY <1>1, <2>2 DEF Torq, Node
  <2>4. torq' \in [Thread -> Torq]
    BY <1>1, <2>2, <2>3 DEF TypeInv
  <2>5. /\ OnlyMoves(t) /\ after'[t] = after[t]
        /\ pc'[t] = IF Valid(t) THEN "file" ELSE "unlock"
    <3>1. "file" \in Place /\ "unlock" \in Place
      BY DEF Place, Closing
    <3> QED BY <1>1, <2>1, <2>2, <2>4, <3>1, Moves DEF TypeInv, OnlyMoves
  <2>8. MappingInv(torq'[t])
    <3>1. /\ torq'[t].xramVBase = torq[t].xramVBase /\ torq'[t].mapped = torq[t].mapped
         /\ torq'[t].xramStartAddr = torq[t].xramStartAddr
      BY <1>1, <2>2 DEF Torq
    <3> QED BY <1>1, <3>1, MappingKept DEF ThreadInv, XramInv
  <2>6. FileInv(t)' /\ AfterInv(t)' /\ XramInv(t)'
    BY <1>1, <2>1, <2>3, <2>5, <2>8 DEF ThreadInv, FileInv, AfterInv, XramInv, Closing, Valid
  <2>7. NetworkInv(t)' /\ RunInv(t)'
    BY <1>1, <2>1, <2>3, <2>5 DEF ThreadInv, NetworkInv, RunInv, Valid
  <2> QED BY <2>5, <2>6, <2>7 DEF ThreadInv
<1>3. CASE CloseFile(t)
  <2>1. /\ pc[t] = "file" /\ Goto(t, "unlock") /\ UNCHANGED <<torq, run>>
        /\ files' = files \ {t}
    BY <1>3 DEF CloseFile, Npu!ReleaseFile
  <2>2. pc'[t] = "unlock" /\ after'[t] = after[t] /\ OnlyMoves(t)
    <3>1. "unlock" \in Place
      BY DEF Place, Closing
    <3> QED BY <1>1, <2>1, <3>1, Moves DEF TypeInv, OnlyMoves
  <2>3. FileInv(t)' /\ AfterInv(t)' /\ XramInv(t)'
    BY <1>1, <2>1, <2>2 DEF ThreadInv, FileInv, AfterInv, XramInv, Closing
  <2>4. NetworkInv(t)' /\ RunInv(t)'
    BY <1>1, <2>1, <2>2 DEF ThreadInv, NetworkInv, RunInv, Valid
  <2> QED BY <2>2, <2>3, <2>4 DEF ThreadInv
<1>4. CASE Unlock(t)
  <2>1. /\ pc[t] = "unlock" /\ UNCHANGED <<kernel, torq>>
        /\ pc' = [pc EXCEPT ![t] = after[t]] /\ after' = [after EXCEPT ![t] = None]
        /\ run' = IF after[t] = "idle" THEN [run EXCEPT ![t] = NewRun] ELSE run
    BY <1>4 DEF Unlock, ReturnFromClose
  <2>2. after[t] \in {"destroy", "idle"} /\ {"destroy", "idle"} \subseteq Place
    BY <1>1, <2>1 DEF ThreadInv, AfterInv, Closing, Place
  <2>3. NewRun \in Run /\ NewRun.actionIndex = 1 /\ NewRun.ok = TRUE /\ NewRun.unread = FALSE
    BY DEF NewRun, Run
  <2>4. pc'[t] = after[t] /\ OnlyMoves(t) /\ (after[t] = "idle" => run'[t] = NewRun)
    BY <1>1, <2>1, <2>2, <2>3 DEF TypeInv, OnlyMoves
  <2>5. t \notin files'
    BY <1>1, <2>1 DEF ThreadInv, FileInv, kernel
  <2>6. FileInv(t)' /\ AfterInv(t)' /\ XramInv(t)'
    BY <1>1, <2>1, <2>2, <2>4, <2>5 DEF ThreadInv, FileInv, AfterInv, XramInv, Closing
  <2>7. NetworkInv(t)' /\ RunInv(t)'
    BY <1>1, <2>1, <2>2, <2>3, <2>4, <2>5 DEF ThreadInv, NetworkInv, RunInv, Valid
  <2> QED BY <2>4, <2>6, <2>7 DEF ThreadInv
<1>5. CASE Destructor(t)
  <2>1. pc[t] = "destroy" /\ CallClose(t, "idle") /\ UNCHANGED <<kernel, torq, run>>
    BY <1>5 DEF Destructor
  <2>2. pc'[t] = "stop" /\ after'[t] = "idle"
    BY <1>1, <2>1 DEF CallClose, TypeInv
  <2>3. OnlyMoves(t)
    <3>1. "stop" \in Place
      BY DEF Place, Closing
    <3> QED BY <1>1, <2>1, <3>1, Moves DEF TypeInv, OnlyMoves
  <2> QED BY <1>1, <2>1, <2>2, <2>3, Leaving
<1> QED BY <1>2, <1>3, <1>4, <1>5

(* The kernel closes the file of a thread that was killed. *)
LEMMA KilledStep ==
  ASSUME SessionInv, NEW t \in Thread, KernelCleansUp(t) \/ KernelClosesFile(t),
         UNCHANGED processOf
  PROVE  OnlyMoves(t) /\ ThreadInv(t)'
PROOF
<1> USE SessionAssumption
<1>1. TypeInv /\ ThreadInv(t) /\ KernelInv
  BY DEF SessionInv
<1>2. /\ pc[t] \in {"killed", "killed file"} /\ UNCHANGED <<torq, run>>
      /\ \/ Goto(t, "killed file") /\ files' = files
         \/ Goto(t, "idle") /\ files' = files /\ t \notin files
         \/ Goto(t, "idle") /\ files' = files \ {t}
  BY DEF KernelCleansUp, KernelClosesFile, Npu!ReleaseNetworks, Npu!ReleaseFile, kernel
<1>3. OnlyMoves(t)
  <2>1. {"killed file", "idle"} \subseteq Place
    BY DEF Place
  <2> QED BY <1>1, <1>2, <2>1, Moves DEF TypeInv, OnlyMoves
<1>4. \/ pc'[t] = "killed file" /\ files' = files
      \/ pc'[t] = "idle" /\ t \notin files'
  BY <1>1, <1>2 DEF Goto, TypeInv
<1>5. FileInv(t)' /\ AfterInv(t)' /\ XramInv(t)'
  BY <1>1, <1>2, <1>4 DEF ThreadInv, FileInv, AfterInv, XramInv, Closing
<1>6. NetworkInv(t)' /\ RunInv(t)'
  BY <1>1, <1>2, <1>4 DEF ThreadInv, FileInv, NetworkInv, RunInv, Valid
<1> QED BY <1>3, <1>5, <1>6 DEF ThreadInv

(***************************************************************************)
(* A step of the session is a system call, if it touches the kernel at all. *)
(***************************************************************************)
LEMMA OthersUndisturbed ==
  ASSUME SessionInv, NEW t \in Thread, Step(t) \/ Begin(t)
  PROVE  KernelInv' /\ \A u \in Thread \ {t} : Undisturbed(u)
PROOF
<1> USE SessionAssumption
<1>1. TypeInv /\ ThreadInv(t) /\ KernelInv /\ torq[t] \in Torq
  BY DEF SessionInv, TypeInv
<1>2. CASE UNCHANGED kernel
  BY <1>1, <1>2, KernelStep
<1>3. CASE OpenNode(t)
  BY <1>1, <1>3, KernelStep DEF OpenNode
<1>4. CASE CreateNetwork(t)
  BY <1>1, <1>4, KernelStep DEF CreateNetwork
<1>5. PICK n \in Net \cup {None} : n = torq[t].networkId
  BY <1>1 DEF Torq
<1>6. CASE Load(t) \/ StartNSS(t)
  <2>1. \/ UNCHANGED kernel
        \/ Npu!StartNetwork(t, torq[t].networkId) \/ Npu!RunNetwork(t, torq[t].networkId)
    BY <1>6 DEF Load, StartNSS, ActionFails
  <2>2. UNCHANGED kernel \/ Npu!StartNetwork(t, n) \/ Npu!RunNetwork(t, n)
    BY <1>5, <2>1
  <2>3. n \in Net \/ UNCHANGED kernel
    BY <1>1, <2>2 DEF Npu!StartNetwork, Npu!RunNetwork, Npu!Owns, KernelInv
  <2> QED BY <1>1, <2>2, <2>3, KernelStep
<1>7. CASE Release(t) \/ CloseStops(t) \/ CloseDestroys(t)
  <2>1. \/ UNCHANGED kernel
        \/ Npu!StopNetwork(t, torq[t].networkId) \/ Npu!DestroyNetwork(t, torq[t].networkId)
    BY <1>7 DEF Release, CloseStops, CloseDestroys
  <2>2. UNCHANGED kernel \/ Npu!StopNetwork(t, n) \/ Npu!DestroyNetwork(t, n)
    BY <1>5, <2>1
  <2>3. n \in Net \/ UNCHANGED kernel
    BY <1>1, <2>2 DEF Npu!StopNetwork, Npu!DestroyNetwork, Npu!Owns, KernelInv
  <2> QED BY <1>1, <2>2, <2>3, KernelStep
<1>8. CASE CloseXram(t)
  BY <1>1, <1>8, KernelStep DEF CloseXram
<1>9. CASE CloseNode(t) \/ CloseFile(t) \/ KernelCleansUp(t) \/ KernelClosesFile(t)
  BY <1>1, <1>9, KernelStep DEF CloseNode, CloseFile, KernelCleansUp, KernelClosesFile
<1>10. CASE \/ Begin(t) \/ Lock(t) \/ SetupXramSpace(t) \/ Prepare(t) \/ WaitNSS(t)
            \/ HostCopy(t) \/ StartHost(t) \/ ReadBack(t) \/ Unlock(t) \/ Destructor(t)
  BY <1>2, <1>10 DEF Begin, Lock, SetupXramSpace, Prepare, WaitNSS, HostCopy, StartHost,
                     ReadBack, Unlock, Destructor, ActionFails
<1> QED BY <1>3, <1>4, <1>6, <1>7, <1>8, <1>9, <1>10 DEF Step

(* What a thread does keeps its own invariant. *)
LEMMA OwnStep ==
  ASSUME SessionInv, NEW t \in Thread, Step(t) \/ (Begin(t) /\ UNCHANGED processOf)
  PROVE  OnlyMoves(t) /\ ThreadInv(t)'
PROOF
<1>1. CASE Begin(t) /\ UNCHANGED processOf
  BY <1>1, BeginStep
<1>2. CASE Step(t)
  <2>1. UNCHANGED processOf
    BY <1>2 DEF Step
  <2> QED BY <1>2, <2>1, OpenStep, CreateStep, LoadStep, ActionStep, ReleaseStep,
             CloseNetworkStep, CloseXramStep, CloseFileStep, KilledStep, Leaving DEF Step
<1> QED BY <1>1, <1>2

(* A process is killed between any two steps of its threads. *)
LEMMA KillStep ==
  ASSUME SessionInv, NEW p, Kill(p), UNCHANGED processOf
  PROVE  SessionInv'
PROOF
<1> USE SessionAssumption
<1> DEFINE mine == {t \in Thread : processOf[t] = p}
<1>1. TypeInv /\ KernelInv /\ \A t \in Thread : ThreadInv(t)
  BY DEF SessionInv
<1>2. /\ pc' = [t \in Thread |-> IF t \in mine THEN "killed" ELSE pc[t]]
      /\ torq' = [t \in Thread |-> IF t \in mine THEN Closed ELSE torq[t]]
      /\ run' = [t \in Thread |-> IF t \in mine THEN NewRun ELSE run[t]]
      /\ after' = [t \in Thread |-> IF t \in mine THEN None ELSE after[t]]
      /\ UNCHANGED <<files, owner, active, job>>
  BY DEF Kill, kernel
<1>3. /\ Closed \in Torq /\ Closed.torqDevNode = "zero" /\ Closed.dmabufDevNode = "zero"
      /\ Closed.dmabufHandle = FALSE /\ Closed.xramVBase = "null"
      /\ Closed.networkId = None /\ Closed.networkActive = FALSE /\ MappingInv(Closed)
  BY DEF Closed, Constructed, Torq, Node, MappingInv
<1>4. NewRun \in Run /\ NewRun.actionIndex = 1 /\ NewRun.ok = TRUE /\ NewRun.unread = FALSE
  BY DEF NewRun, Run
<1>5. TypeInv'
  BY <1>1, <1>2, <1>3, <1>4 DEF TypeInv, Place
<1>6. KernelInv'
  BY <1>1, <1>2 DEF KernelInv
<1>7. ASSUME NEW t \in Thread
      PROVE  ThreadInv(t)'
  <2>1. CASE t \in mine
    <3>1. pc'[t] = "killed" /\ torq'[t] = Closed /\ run'[t] = NewRun
      BY <1>2, <2>1
    <3>2. FileInv(t)' /\ AfterInv(t)' /\ XramInv(t)'
      BY <1>3, <3>1 DEF FileInv, AfterInv, XramInv, Closing
    <3>3. NetworkInv(t)' /\ RunInv(t)'
      BY <1>3, <1>4, <3>1 DEF NetworkInv, RunInv
    <3> QED BY <3>2, <3>3 DEF ThreadInv
  <2>2. CASE t \notin mine
    <3>1. pc'[t] = pc[t] /\ torq'[t] = torq[t] /\ run'[t] = run[t] /\ after'[t] = after[t]
      BY <1>2, <2>2
    <3>2. Undisturbed(t)
      BY <1>1, <1>2, SelfUndisturbed DEF kernel
    <3> QED BY <1>1, <3>1, <3>2, UndisturbedThread
  <2> QED BY <2>1, <2>2
<1> QED BY <1>5, <1>6, <1>7 DEF SessionInv

(* The job ends by itself, or nothing happens. *)
LEMMA OutsideStep ==
  ASSUME SessionInv, (JobEnds /\ UNCHANGED processOf) \/ UNCHANGED vars
  PROVE  SessionInv'
PROOF
<1> USE SessionAssumption
<1>1. TypeInv /\ KernelInv /\ \A t \in Thread : ThreadInv(t)
  BY DEF SessionInv
<1>2. /\ Npu!JobEnds \/ UNCHANGED kernel
      /\ UNCHANGED <<processOf, files, owner, pc, after, torq, run>>
  BY DEF JobEnds, Npu!JobEnds, vars, kernel
<1>3. TypeInv' /\ KernelInv'
  BY <1>1, <1>2 DEF TypeInv, KernelInv
<1>4. ASSUME NEW t \in Thread
      PROVE  ThreadInv(t)'
  <2>1. Undisturbed(t)
    BY <1>1, <1>2, SelfUndisturbed
  <2> QED BY <1>1, <1>2, <2>1, UndisturbedThread
<1> QED BY <1>3, <1>4 DEF SessionInv
-----------------------------------------------------------------------------
LEMMA SessionInvInit == Init => SessionInv
PROOF
<1> SUFFICES ASSUME Init PROVE SessionInv
  OBVIOUS
<1> USE SessionAssumption
<1>1. /\ Closed \in Torq /\ Closed.torqDevNode = "zero" /\ Closed.dmabufDevNode = "zero"
      /\ Closed.dmabufHandle = FALSE /\ Closed.xramVBase = "null"
      /\ Closed.networkId = None /\ Closed.networkActive = FALSE /\ MappingInv(Closed)
  BY DEF Closed, Constructed, Torq, Node, MappingInv
<1>2. NewRun \in Run /\ NewRun.actionIndex = 1 /\ NewRun.ok = TRUE /\ NewRun.unread = FALSE
  BY DEF NewRun, Run
<1>3. /\ DOMAIN processOf = Thread /\ files = {} /\ DOMAIN owner = {}
      /\ pc = [t \in Thread |-> "idle"] /\ after = [t \in Thread |-> None]
      /\ torq = [t \in Thread |-> Closed] /\ run = [t \in Thread |-> NewRun]
  BY DEF Init, Npu!Init
<1>4. TypeInv /\ KernelInv
  BY <1>1, <1>2, <1>3 DEF TypeInv, KernelInv, Place
<1>5. ASSUME NEW t \in Thread
      PROVE  ThreadInv(t)
  <2>1. FileInv(t) /\ AfterInv(t) /\ XramInv(t)
    BY <1>1, <1>3 DEF FileInv, AfterInv, XramInv, Closing
  <2>2. NetworkInv(t) /\ RunInv(t)
    BY <1>1, <1>2, <1>3 DEF NetworkInv, RunInv
  <2> QED BY <2>1, <2>2 DEF ThreadInv
<1> QED BY <1>4, <1>5 DEF SessionInv

LEMMA SessionInvStep == SessionInv /\ [Next]_vars => SessionInv'
PROOF
<1> SUFFICES ASSUME SessionInv, [Next]_vars PROVE SessionInv'
  OBVIOUS
<1>1. TypeInv /\ KernelInv /\ \A t \in Thread : ThreadInv(t)
  BY DEF SessionInv
<1>2. ASSUME NEW t \in Thread, Step(t) \/ (Begin(t) /\ UNCHANGED processOf)
      PROVE  SessionInv'
  <2>1. OnlyMoves(t) /\ ThreadInv(t)'
    BY <1>2, OwnStep
  <2>2. KernelInv' /\ \A u \in Thread \ {t} : Undisturbed(u)
    BY <1>2, OthersUndisturbed
  <2>3. ASSUME NEW u \in Thread \ {t}
        PROVE  ThreadInv(u)'
    BY <1>1, <2>1, <2>2, UndisturbedThread DEF OnlyMoves
  <2> QED BY <2>1, <2>2, <2>3 DEF SessionInv, OnlyMoves
<1>3. ASSUME NEW p \in Process, Kill(p), UNCHANGED processOf
      PROVE  SessionInv'
  BY <1>3, KillStep
<1>4. CASE (JobEnds /\ UNCHANGED processOf) \/ UNCHANGED vars
  BY <1>4, OutsideStep
<1>5. CASE Terminated
  BY <1>4, <1>5 DEF Terminated
<1> QED BY <1>2, <1>3, <1>4, <1>5 DEF Next

(* The members of every session, the kernel's tables and the places of all  *)
(* threads fit together in every state of the sessions, with any number of  *)
(* processes, threads, networks and retries.                                *)
THEOREM SessionInvariant == Spec => []SessionInv
PROOF
<1> QED BY SessionInvInit, SessionInvStep, PTL DEF Spec

(* A session that has loaded its network has the device (startNetwork and   *)
(* release of TorqAstraMachina): its network is active, and no other        *)
(* network's job runs.                                                      *)
THEOREM SessionDeviceIsTheSessions == Spec => []DeviceIsTheSessions
PROOF
<1>1. SessionInv => DeviceIsTheSessions
  BY DEF SessionInv, ThreadInv, NetworkInv, DeviceIsTheSessions
<1> QED BY <1>1, SessionInvariant, PTL

(* Run reads the results back only when every job it started has ended: the *)
(* wait behind every start has returned success.                            *)
THEOREM SessionResultsAreFinished == Spec => []ResultsAreFinished
PROOF
<1>1. ASSUME SessionInv, NEW t \in Thread, pc[t] = "readback"
      PROVE  ~run[t].unread /\ (t \in files => job # torq[t].networkId)
  <2>1. RunInv(t) /\ FileInv(t) /\ run[t] \in Run
    BY <1>1 DEF SessionInv, ThreadInv, TypeInv
  <2>2. run[t].ok /\ run[t].actionIndex = Len(Program) + 1
    BY <1>1, <2>1 DEF RunInv
  <2>3. Len(Program) \in Nat
    BY SessionAssumption
  <2>4. run[t].actionIndex .. Len(Program) = {}
    BY <2>2, <2>3
  <2>5. ~run[t].unread
    BY <1>1, <2>1, <2>2, <2>4 DEF RunInv
  <2>6. t \in files => Valid(t)
    BY <1>1, <2>1 DEF FileInv, Valid
  <2> QED BY <1>1, <2>1, <2>2, <2>5, <2>6 DEF RunInv
<1>2. SessionInv => ResultsAreFinished
  BY <1>1 DEF ResultsAreFinished
<1> QED BY <1>2, SessionInvariant, PTL

(* When run has returned, or the process was killed and the kernel has      *)
(* closed its files, the session has no file, no network, no buffer and no  *)
(* mapping, whatever failed; but of an XRAM that does not begin on a page,  *)
(* which the driver refuses, the last page may stay mapped.                 *)
THEOREM SessionNothingIsLeft == Spec => []NothingIsLeft
PROOF
<1>1. SessionInv => NothingIsLeft
  BY DEF SessionInv, KernelInv, ThreadInv, FileInv, XramInv, MappingInv, NothingIsLeft
<1> QED BY <1>1, SessionInvariant, PTL
=============================================================================
