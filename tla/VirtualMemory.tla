--------------------------- MODULE VirtualMemory ---------------------------
(***************************************************************************)
(* convertVirtualToPhysicalMemRefs (compiler/torq/Codegen/VirtualMemory.cpp)*)
(* walks a function whose memrefs pretend that LRAM is unlimited and        *)
(* rewrites it for an LRAM of fixed size: operands that were swapped out to *)
(* XRAM are swapped in before an operation, other buffers are swapped out   *)
(* to make room, and LRAM is defragmented when an address cannot be found.  *)
(* Buffers of a program that was started stay pinned until it is waited     *)
(* for.                                                                     *)
(*                                                                         *)
(* A buffer is a member of Value, the addresses come from Pool.  Derived    *)
(* memrefs (subviews, casts) are members of Alias.  The function being      *)
(* compiled is any sequence of at most MaxOps operations that uses values   *)
(* between their definition and their deallocation; DenseSet and DenseMap   *)
(* are iterated in any order.  An assertion that fails stops the pass in a  *)
(* state of its own.                                                        *)
(***************************************************************************)
EXTENDS Pool, Sequences, SequencesExt

CONSTANTS
  Alias,         \* derived memrefs
  Parent,        \* Parent[a]: the memref that a is derived from
  AliasBytes,    \* AliasBytes[a]: size of a's type, which may be a part
  Invocation,    \* program invocations
  MaxOps,        \* operations of the function
  MaxOperands    \* memref operands of one operation

Object == Value \cup Alias

(* A memref is derived from one that was defined before it, so that no      *)
(* chain of views goes round in a circle.                                   *)
ASSUME VMAssumption ==
  /\ Alias \cap Value = {}
  /\ Parent \in [Alias -> Object]
  /\ \A S \in SUBSET Alias : S # {} => \E a \in S : Parent[a] \notin S
  /\ AliasBytes \in [Alias -> Nat]
  /\ MaxOps \in Nat
  /\ MaxOperands \in Nat

(* o and the objects it is derived from: the smallest set with o and with   *)
(* the parent of every view in it.                                          *)
HasParents(S) == \A a \in S \cap Alias : Parent[a] \in S

Lineage == [o \in Object |->
              {x \in Object : \A S \in SUBSET Object : o \in S /\ HasParents(S) => x \in S}]

(* VirtualObject::root(). *)
Root == [o \in Object |-> CHOOSE b \in Value : b \in Lineage[o]]

(* The size of an object's own type. *)
Bytes(o) == IF o \in Value THEN ValueBytes[o] ELSE AliasBytes[o]

SumBytes(S) == FoldSet(LAMBDA o, n : Bytes(o) + n, 0, S)

VARIABLES
  virtualObjects,       \* objects defined so far
  deallocated,          \* buffers whose dealloc was processed
  swappedIn,            \* objects with a physical buffer or physical alias
  swapCopy,             \* buffers with a swappedOutValue_
  moves,                \* moves[b]: how often b was swapped out, which tells
                        \*   its physical values apart (0: the virtual value)
  derivedFrom,          \* derivedFrom[a]: the physical value of the root that
                        \*   the physical alias of a points into
  lastUsed,             \* lastUsedPhysicalBuffer_, next to be evicted first
  pinCount,             \* VirtualObject::pinCount_
  pinnedBuffers,        \* pinnedBuffers_ of PhysicalMemory
  invocationToVirtual,  \* operands of the invocations in flight
  pc,                   \* step of the current operation
  op,                   \* the current operation
  toSwapIn,             \* its operands that are still to be swapped in
  adding,               \* the object for which add() is looking for room
  toMove, idx,          \* buffers to defragment; index of the current loop
  ops,                  \* operations processed (bounded by MaxOps)
  ir, calls             \* LRAM allocs and deallocs of the current operation,
                        \*   in the order of the IR and of the pool's calls

objVars == <<virtualObjects, deallocated, swappedIn, swapCopy, moves, derivedFrom>>
pinVars == <<pinCount, pinnedBuffers, invocationToVirtual>>
opVars == <<op, toSwapIn, adding, toMove, ops>>
traceVars == <<ir, calls>>
vars == <<poolVars, objVars, lastUsed, pinVars, pc, opVars, idx, traceVars>>

NoOp == [kind |-> "none", operands |-> << >>, results |-> << >>, invocation |-> {}]

Init ==
  /\ PoolInit
  /\ virtualObjects = {}
  /\ deallocated = {}
  /\ swappedIn = {}
  /\ swapCopy = {}
  /\ moves = [b \in Value |-> 0]
  /\ derivedFrom = [a \in Alias |-> 0]
  /\ lastUsed = << >>
  /\ pinCount = [o \in Object |-> 0]
  /\ pinnedBuffers = {}
  /\ invocationToVirtual = << >>
  /\ pc = "fetch"
  /\ op = NoOp
  /\ toSwapIn = {}
  /\ adding = {}
  /\ toMove = << >>
  /\ idx = 1
  /\ ops = 0
  /\ ir = << >>
  /\ calls = << >>

(* usedSize() and usableSize() of the pool, in bytes. *)
UsedBytes == usedSizeWords * WordSizeBytes
UsableBytes == NumWords * WordSizeBytes - ReservedBytes

(***************************************************************************)
(* Pins.  An alias pins its parents too; a buffer pins its physical buffer  *)
(* with the first of its pins and unpins it with the last.  The values are  *)
(* those at the indices "which".                                            *)
(***************************************************************************)
PinsOf(values, which, o) == Cardinality({k \in which : o \in Lineage[values[k]]})

Pin(values, which) ==
  /\ pinCount' = [o \in Object |-> pinCount[o] + PinsOf(values, which, o)]
  /\ pinnedBuffers' = pinnedBuffers \cup
       {b \in Value : pinCount[b] = 0 /\ PinsOf(values, which, b) > 0}

Unpin(values, which) ==
  /\ pinCount' = [o \in Object |-> pinCount[o] - PinsOf(values, which, o)]
  /\ pinnedBuffers' = pinnedBuffers \
       {b \in Value : PinsOf(values, which, b) > 0 /\ pinCount[b] = PinsOf(values, which, b)}

(* Mutant: defragment inserts before the operation being processed. *)
BeforeOperation(e) == ir \o e

(* Operations created by the current rewriter: before the operation that is *)
(* processed, or, while defragmenting for a swap-in, before its alloc.      *)
BeforePending(e) ==
  IF adding \in toSwapIn THEN Front(ir) \o e \o <<Last(ir)>> ELSE ir \o e

(* SetVector::remove *)
Removed(s, b) == IF \E n \in DOMAIN s : s[n] = b
                   THEN RemoveAt(s, CHOOSE n \in DOMAIN s : s[n] = b) ELSE s

(* Mutant: the aliases of aliases are forgotten. *)
InvalidatedDirectly(b) == {a \in Alias : Parent[a] = b}

(* VirtualAlias::invalidate from every alias of b down. *)
Invalidated(b) == {a \in Alias : Root[a] = b}

(***************************************************************************)
(* VirtualBuffer::swapOut: alloc in XRAM and store, invalidate the aliases, *)
(* dealloc the physical buffer and remove it.                               *)
(***************************************************************************)
SwapOut(b, emitted) ==
  /\ Free(b)
  /\ lastUsed' = Removed(lastUsed, b)
  /\ swappedIn' = (swappedIn \ {b}) \ Invalidated(b)
  /\ swapCopy' = swapCopy \cup {b}
  /\ moves' = [moves EXCEPT ![b] = @ + 1]
  /\ ir' = emitted
  /\ calls' = Append(calls, <<"dealloc", b>>)
  /\ UNCHANGED <<virtualObjects, deallocated, derivedFrom>>

(* PhysicalMemory::add that found an address for b: b is swapped in, as the *)
(* last in the order of eviction.                                           *)
Added(b) ==
  /\ Allocate(b)
  /\ lastUsed' = Append(lastUsed, b)
  /\ calls' = Append(calls, <<"alloc", b>>)
-----------------------------------------------------------------------------
(***************************************************************************)
(* The special cases: dealloc and operations that create an alias.          *)
(***************************************************************************)
InFlight == {Root[o] : o \in UNION {Range(invocationToVirtual[n]) :
                                      n \in DOMAIN invocationToVirtual}}

Live == virtualObjects \cap {o \in Object : Root[o] \notin deallocated}

(* Mutant: remove() leaves the buffer in the order of eviction. *)
DeallocateKeepsLastUsed(b) ==
  /\ pc = "fetch" /\ ops < MaxOps
  /\ b \in Live \cap Value
  /\ b \notin InFlight
  /\ deallocated' = deallocated \cup {b}
  /\ IF b \in swappedIn THEN Free(b) ELSE UNCHANGED poolVars
  /\ ir' = << >> /\ calls' = << >>
  /\ ops' = ops + 1
  /\ UNCHANGED <<virtualObjects, swappedIn, swapCopy, moves, derivedFrom, lastUsed,
                 pinVars, pc, op, toSwapIn, adding, toMove, idx>>

(* VirtualMemory::deallocate.  AddDeallocationPass puts the dealloc after   *)
(* the last use, and counts the wait of an invocation as a use.  The        *)
(* physical buffer is removed; the virtual buffer keeps pointing to it.     *)
Deallocate(b) ==
  /\ pc = "fetch" /\ ops < MaxOps
  /\ b \in Live \cap Value
  /\ b \notin InFlight
  /\ deallocated' = deallocated \cup {b}
  /\ IF b \in swappedIn
       THEN /\ Free(b)
            /\ lastUsed' = Removed(lastUsed, b)
            /\ ir' = << <<"dealloc", b>> >>
            /\ calls' = << <<"dealloc", b>> >>
            /\ UNCHANGED swapCopy
       ELSE /\ swapCopy' = swapCopy \ {b}
            /\ ir' = << >>
            /\ calls' = << >>
            /\ UNCHANGED <<poolVars, lastUsed>>
  /\ ops' = ops + 1
  /\ UNCHANGED <<virtualObjects, swappedIn, moves, derivedFrom, pinVars, pc,
                 op, toSwapIn, adding, toMove, idx>>

(* VirtualMemory::addAlias: the alias is swapped in from the start only if  *)
(* its parent is, and is still where it was first allocated.                *)
AddAlias(a) ==
  /\ pc = "fetch" /\ ops < MaxOps
  /\ a \notin virtualObjects
  /\ Parent[a] \in Live
  /\ virtualObjects' = virtualObjects \cup {a}
  /\ swappedIn' = IF Parent[a] \in swappedIn /\ moves[Root[a]] = 0
                    THEN swappedIn \cup {a} ELSE swappedIn
  /\ derivedFrom' = [derivedFrom EXCEPT ![a] = 0]
  /\ ops' = ops + 1
  /\ UNCHANGED <<poolVars, deallocated, swapCopy, moves, lastUsed, pinVars, pc,
                 op, toSwapIn, adding, toMove, idx, traceVars>>
-----------------------------------------------------------------------------
(***************************************************************************)
(* Every other operation.  First its operands are looked at: those that are *)
(* swapped out are collected, the others are pinned while space is freed.   *)
(***************************************************************************)
Operands == UNION {[1 .. n -> Live] : n \in 1 .. MaxOperands}

Operation ==
  [kind : {"alloc"}, operands : {<< >>}, invocation : {{}},
   results : {<<b>> : b \in Value \ virtualObjects}]
  \cup
  [kind : {"use"}, operands : Operands, results : {<< >>}, invocation : {{}}]
  \cup
  [kind : {"start"}, operands : Operands, results : {<< >>},
   invocation : Invocation \ DOMAIN invocationToVirtual]
  \cup
  [kind : {"wait"}, operands : {<< >>}, results : {<< >>},
   invocation : DOMAIN invocationToVirtual]

Fetch(o) ==
  /\ pc = "fetch" /\ ops < MaxOps
  /\ op' = o
  /\ toSwapIn' = Range(o.operands) \ swappedIn
  /\ Pin(o.operands, {n \in DOMAIN o.operands : o.operands[n] \in swappedIn})
  /\ pc' = "freeSpace"
  /\ idx' = 1
  /\ ops' = ops + 1
  /\ ir' = << >>
  /\ calls' = << >>
  /\ UNCHANGED <<poolVars, objVars, lastUsed, invocationToVirtual, adding, toMove>>

(***************************************************************************)
(* PhysicalMemory::freeSpace, one iteration of its loop a step.             *)
(***************************************************************************)
Space == SumBytes(toSwapIn) + SumBytes(Range(op.results))

EnoughSpace == UsedBytes + Space <= UsableBytes

\* Mutant: the index does not move on past a pinned buffer.
FreeSpaceSkipStays ==
  /\ pc = "freeSpace" /\ ~EnoughSpace
  /\ idx <= Len(lastUsed)
  /\ lastUsed[idx] \in pinnedBuffers
  /\ UNCHANGED vars

FreeSpaceSkip ==
  /\ pc = "freeSpace" /\ ~EnoughSpace
  /\ idx <= Len(lastUsed)
  /\ lastUsed[idx] \in pinnedBuffers
  /\ idx' = idx + 1
  /\ UNCHANGED <<poolVars, objVars, lastUsed, pinVars, pc, opVars, traceVars>>

FreeSpaceEvict ==
  /\ pc = "freeSpace" /\ ~EnoughSpace
  /\ idx <= Len(lastUsed)
  /\ lastUsed[idx] \notin pinnedBuffers
  /\ SwapOut(lastUsed[idx], Append(ir, <<"dealloc", lastUsed[idx]>>))
  /\ UNCHANGED <<pinVars, pc, opVars, idx>>

FreeSpaceFails ==
  /\ pc = "freeSpace" /\ ~EnoughSpace
  /\ idx > Len(lastUsed)
  /\ pc' = "error"
  /\ UNCHANGED <<poolVars, objVars, lastUsed, pinVars, opVars, idx, traceVars>>

\* Mutant: the operands are not unpinned.
FreeSpaceDoneKeepsPins ==
  /\ pc = "freeSpace" /\ EnoughSpace
  /\ pc' = "swapIn"
  /\ UNCHANGED <<poolVars, objVars, lastUsed, pinVars, opVars, idx, traceVars>>

(* There is room: the operands are unpinned again, to allow defragmenting. *)
FreeSpaceDone ==
  /\ pc = "freeSpace" /\ EnoughSpace
  /\ Unpin(op.operands, {n \in DOMAIN op.operands : op.operands[n] \notin toSwapIn})
  /\ pc' = "swapIn"
  /\ UNCHANGED <<poolVars, objVars, lastUsed, invocationToVirtual, opVars, idx, traceVars>>
-----------------------------------------------------------------------------
(***************************************************************************)
(* VirtualMemory::swapIn of the operands, in any order.  An alias swaps its *)
(* parents in if they are out, and is then created anew from them.          *)
(***************************************************************************)
SwapInBuffer(o) ==
  /\ pc = "swapIn"
  /\ o \in toSwapIn
  /\ Root[o] \notin swappedIn
  /\ ir' = Append(ir, <<"alloc", Root[o]>>)
  /\ swapCopy' = swapCopy \ {Root[o]}
  /\ adding' = o
  /\ pc' = "add"
  /\ UNCHANGED <<poolVars, virtualObjects, deallocated, swappedIn, moves,
                 derivedFrom, lastUsed, pinVars, op, toSwapIn, toMove, ops, idx,
                 calls>>

(* The physical aliases of o and of its parents that are still out. *)
Derive(o) == [a \in Alias |-> IF a \in Lineage[o] /\ (a = o \/ a \notin swappedIn)
                                THEN moves[Root[o]] ELSE derivedFrom[a]]

SwapInAlias(o) ==
  /\ pc = "swapIn"
  /\ o \in toSwapIn \cap Alias
  /\ Root[o] \in swappedIn
  /\ swappedIn' = swappedIn \cup Lineage[o]
  /\ derivedFrom' = Derive(o)
  /\ toSwapIn' = toSwapIn \ {o}
  /\ UNCHANGED <<poolVars, virtualObjects, deallocated, swapCopy, moves, lastUsed,
                 pinVars, pc, op, adding, toMove, ops, idx, traceVars>>

(* assert(isSwappedOut() && "Cannot swap in a non-swapped out buffer") *)
SwapInAsserts(o) ==
  /\ pc = "swapIn"
  /\ o \in toSwapIn \cap Value
  /\ o \in swappedIn
  /\ pc' = "assertSwappedOut"
  /\ UNCHANGED <<poolVars, objVars, lastUsed, pinVars, opVars, idx, traceVars>>

(* All operands are in: the results are allocated next. *)
SwapInDone ==
  /\ pc = "swapIn"
  /\ toSwapIn = {}
  /\ IF op.results = << >>
       THEN pc' = "pinAll" /\ UNCHANGED adding
       ELSE pc' = "add" /\ adding' = Head(op.results)
  /\ UNCHANGED <<poolVars, objVars, lastUsed, pinVars, op, toSwapIn, toMove, ops,
                 idx, traceVars>>
-----------------------------------------------------------------------------
(***************************************************************************)
(* PhysicalMemory::add, for an operand that is swapped in or for a result.  *)
(* pc = "addAgain" is the second attempt, after defragmenting.              *)
(***************************************************************************)
Adding == IF pc = "defragIn" THEN toMove[idx] ELSE Root[adding]

HasRoom == ValueBytes[Adding] + UsedBytes <= UsableBytes

(* assert(obj.size() + totalPhysicalBufferSize() <= pool_.usableSize()) *)
AddAsserts ==
  /\ pc = "add" \/ (pc = "defragIn" /\ idx <= Len(toMove))
  /\ ~HasRoom
  /\ pc' = "assertRoom"
  /\ UNCHANGED <<poolVars, objVars, lastUsed, pinVars, opVars, idx, traceVars>>

Add ==
  /\ pc \in {"add", "addAgain"}
  /\ pc = "add" => HasRoom
  /\ Added(Adding)
  /\ swappedIn' = swappedIn \cup Lineage[adding]
  /\ derivedFrom' = Derive(adding)
  /\ IF adding \in toSwapIn
       THEN /\ pc' = "swapIn"
            /\ UNCHANGED ir
       ELSE /\ pc' = "pinAll"
            /\ ir' = Append(ir, <<"alloc", Adding>>)
  /\ toSwapIn' = toSwapIn \ {adding}
  /\ virtualObjects' = virtualObjects \cup {adding}
  /\ UNCHANGED <<deallocated, swapCopy, moves, pinVars, op, adding, toMove, ops, idx>>

(* Mutant: pinned buffers are moved too. *)
DefragmentMovesPinned ==
  /\ pc = "add"
  /\ HasRoom
  /\ AllocateFails(Adding)
  /\ toMove' \in SetToSeqs(DOMAIN allocations)
  /\ idx' = 1
  /\ pc' = "defragOut"
  /\ UNCHANGED <<objVars, lastUsed, pinVars, op, toSwapIn, adding, ops, traceVars>>

(* No address: defragment.  The buffers that are not pinned are moved, in   *)
(* the order of the map physicalBuffers_.                                   *)
Defragment ==
  /\ pc = "add"
  /\ HasRoom
  /\ AllocateFails(Adding)
  /\ toMove' \in SetToSeqs(DOMAIN allocations \ pinnedBuffers)
  /\ idx' = 1
  /\ pc' = "defragOut"
  /\ UNCHANGED <<objVars, lastUsed, pinVars, op, toSwapIn, adding, ops, traceVars>>

DefragmentOut ==
  /\ pc = "defragOut"
  /\ IF idx <= Len(toMove)
       THEN /\ SwapOut(toMove[idx], BeforePending(<< <<"dealloc", toMove[idx]>> >>))
            /\ idx' = idx + 1
            /\ UNCHANGED pc
       ELSE /\ idx' = 1
            /\ pc' = "defragIn"
            /\ UNCHANGED <<poolVars, objVars, lastUsed, traceVars>>
  /\ UNCHANGED <<pinVars, opVars>>

(* swapIn with allowDefragment = false. *)
DefragmentIn ==
  /\ pc = "defragIn"
  /\ idx <= Len(toMove)
  /\ HasRoom
  /\ Added(toMove[idx])
  /\ swappedIn' = swappedIn \cup {toMove[idx]}
  /\ swapCopy' = swapCopy \ {toMove[idx]}
  /\ ir' = BeforePending(<< <<"alloc", toMove[idx]>> >>)
  /\ idx' = idx + 1
  /\ UNCHANGED <<virtualObjects, deallocated, moves, derivedFrom, pinVars, pc,
                 opVars>>

DefragmentDone ==
  /\ pc = "defragIn"
  /\ idx > Len(toMove)
  /\ pc' = "addAgain"
  /\ UNCHANGED <<poolVars, objVars, lastUsed, pinVars, opVars, idx, traceVars>>

(* Defragmenting could not put a buffer back, or did not help. *)
AddFails ==
  /\ \/ pc = "defragIn" /\ idx <= Len(toMove) /\ HasRoom
     \/ pc = "addAgain"
  /\ AllocateFails(Adding)
  /\ pc' = "error"
  /\ UNCHANGED <<objVars, lastUsed, pinVars, opVars, idx, traceVars>>
-----------------------------------------------------------------------------
(***************************************************************************)
(* The operands are pinned and replaced by their physical values.  A start  *)
(* keeps its pins; a wait drops those of its start.                         *)
(***************************************************************************)
Replace ==
  /\ pc = "pinAll"
  /\ Range(op.operands) \subseteq swappedIn
  /\ CASE op.kind = "start" ->
            /\ Pin(op.operands, DOMAIN op.operands)
            /\ invocationToVirtual' =
                 [n \in DOMAIN invocationToVirtual \cup {op.invocation} |->
                    IF n = op.invocation THEN op.operands ELSE invocationToVirtual[n]]
       [] op.kind = "wait" ->
            /\ Unpin(invocationToVirtual[op.invocation],
                     DOMAIN invocationToVirtual[op.invocation])
            /\ invocationToVirtual' =
                 [n \in DOMAIN invocationToVirtual \ {op.invocation} |->
                    invocationToVirtual[n]]
       [] OTHER -> UNCHANGED pinVars
  /\ pc' = "fetch"
  /\ op' = NoOp
  /\ adding' = {}
  /\ toMove' = << >>
  /\ idx' = 1
  /\ UNCHANGED <<poolVars, objVars, lastUsed, toSwapIn, ops, traceVars>>

(* assert(!isSwappedOut() && "Cannot get physical object of a swapped out   *)
(* alias"), or the assertion of physicalBuffer() for a buffer.              *)
ReplaceAsserts ==
  /\ pc = "pinAll"
  /\ ~(Range(op.operands) \subseteq swappedIn)
  /\ pc' = "assertSwappedIn"
  /\ UNCHANGED <<poolVars, objVars, lastUsed, pinVars, opVars, idx, traceVars>>

Process ==
  \/ FreeSpaceSkip \/ FreeSpaceEvict \/ FreeSpaceFails \/ FreeSpaceDone
  \/ \E o \in Object : SwapInBuffer(o) \/ SwapInAlias(o) \/ SwapInAsserts(o)
  \/ SwapInDone
  \/ AddAsserts \/ Add \/ Defragment \/ DefragmentOut \/ DefragmentIn
  \/ DefragmentDone \/ AddFails
  \/ Replace \/ ReplaceAsserts

Stopped == {"error", "assertSwappedOut", "assertRoom", "assertSwappedIn"}

(* The pass is over: the function is at its end, or processing it failed. *)
Finished == pc \in Stopped \/ (pc = "fetch" /\ ops = MaxOps)

Next ==
  \/ \E b \in Value : Deallocate(b)
  \/ \E a \in Alias : AddAlias(a)
  \/ \E o \in Operation : Fetch(o)
  \/ Process
  \/ Finished /\ UNCHANGED vars

(* The pass runs to its end once started. *)
Spec == Init /\ [][Next]_vars /\ WF_vars(Process)
-----------------------------------------------------------------------------
(* Between two operations every defined buffer that is not deallocated has  *)
(* its contents in exactly one place: an LRAM block of the pool, or a swap  *)
(* copy in XRAM; and the eviction order lists exactly the buffers in LRAM.  *)
ContentsInOnePlace ==
  pc = "fetch" =>
    /\ \A b \in Live \cap Value :
         /\ b \in DOMAIN allocations <=> b \notin swapCopy
         /\ b \in DOMAIN allocations <=> b \in swappedIn
    /\ Range(lastUsed) = DOMAIN allocations
    /\ Len(lastUsed) = Cardinality(DOMAIN allocations)

(* A physical alias points into the physical buffer that its root has now:  *)
(* no operation is rewritten to use a view of a buffer that was swapped out *)
(* or moved since.                                                          *)
AliasesFollowTheirRoot ==
  \A a \in Alias \cap swappedIn \cap Live :
    /\ Lineage[a] \subseteq swappedIn
    /\ derivedFrom[a] = moves[Root[a]]

(* The operands of the invocations in flight that are o or derived from it. *)
UsesInFlight(o) ==
  {use \in (DOMAIN invocationToVirtual) \X (1 .. MaxOperands) :
     /\ use[2] \in DOMAIN invocationToVirtual[use[1]]
     /\ o \in Lineage[invocationToVirtual[use[1]][use[2]]]}

(* Between two operations the only pins are those of invocations in flight: *)
(* no path through the pass leaks or drops a pin.                           *)
PinsAreThoseInFlight ==
  pc = "fetch" => \A o \in Object : pinCount[o] = Cardinality(UsesInFlight(o))

(* From the start of an invocation to its wait the buffers it uses stay     *)
(* where they are: the program was given their addresses.                   *)
InFlightBuffersStay ==
  [][\A b \in InFlight \cap InFlight' :
       b \in DOMAIN allocations /\ b \in DOMAIN allocations'
         /\ allocations'[b] = allocations[b]]_vars

(* allocateAddresses assigns the final addresses by replaying the allocs    *)
(* and deallocs of the rewritten IR on the pool: it finds the addresses     *)
(* that were found here because the IR has them in the order in which the   *)
(* pool was called, also when a swap-in or a result needed defragmenting.   *)
IRReplaysPoolCalls == pc = "fetch" => ir = calls

(* Every operation is processed to its end: freeing space and defragmenting *)
(* do not go on for ever.                                                   *)
OperationEnds == pc # "fetch" ~> (pc = "fetch" \/ pc \in Stopped)
-----------------------------------------------------------------------------
(* The assertions of VirtualBuffer::swapIn ("Cannot swap in a non-swapped   *)
(* out buffer"), PhysicalMemory::add ("Not enough memory to add physical    *)
(* buffer") and VirtualAlias::physicalObject ("Cannot get physical object   *)
(* of a swapped out alias") hold for every function.                        *)
AssertionsHold == pc \notin {"assertSwappedOut", "assertRoom", "assertSwappedIn"}
=============================================================================
