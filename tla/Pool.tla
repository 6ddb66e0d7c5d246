-------------------------------- MODULE Pool --------------------------------
(***************************************************************************)
(* The address allocator of the compiler's memory planner                   *)
(* (compiler/torq/Codegen/Pool.{h,cpp}): a bitmap with one entry per word   *)
(* of a memory of fixed size, searched first-fit from the bottom for small  *)
(* buffers and from the top for large ones.                                 *)
(*                                                                         *)
(* Every method is one action here, and the address a search returns is     *)
(* given by what it must satisfy (Fits).  PoolScan.tla has the two search   *)
(* loops of allocate(), one step per iteration, and shows that they find    *)
(* exactly this address.                                                    *)
(***************************************************************************)
EXTENDS Integers, FiniteSets

CONSTANTS
  Value,                \* memrefs that ask for addresses
  ValueBytes,           \* ValueBytes[v] = getEncodedTotalSizeBytes of v's type
  SizeBytes,            \* constructor: size of the memory
  ReservedBytes,        \* constructor: bytes at its start that cannot be used
  WordSizeBytes,        \* constructor: alignment of every address
  LargeAllocSizeBytes   \* constructor: smallest size of a large allocation

(* used_ has SizeBytes / WordSizeBytes entries. *)
NumWords == SizeBytes \div WordSizeBytes

Words == 0 .. NumWords - 1

(* Bytes rounded up to words, as allocate() and clear() round them. *)
InWords(bytes) == (bytes + WordSizeBytes - 1) \div WordSizeBytes

Reserved == InWords(ReservedBytes)

SizeWords(v) == InWords(ValueBytes[v])

IsSmall(v) == ValueBytes[v] < LargeAllocSizeBytes

(***************************************************************************)
(* The reserved bytes lie inside the memory.  An empty buffer is small: the *)
(* pools are built with 1024 and 8192 bytes for the smallest large one.  A  *)
(* small buffer is not larger than the memory: allocate() computes          *)
(* used_.size() - sizeWords unsigned, and every pool the compiler builds is *)
(* far larger than a small buffer.                                          *)
(***************************************************************************)
ASSUME PoolAssumption ==
  /\ WordSizeBytes \in Nat \ {0}
  /\ SizeBytes \in Nat
  /\ ReservedBytes \in Nat
  /\ LargeAllocSizeBytes \in Nat \ {0}
  /\ ValueBytes \in [Value -> Nat]
  /\ Reserved <= NumWords
  /\ \A v \in Value : IsSmall(v) => SizeWords(v) <= NumWords

VARIABLES
  used,            \* the words whose entry in used_ is true
  allocations,     \* allocations_: active value -> [baseAddr, size] in words
  usedSizeWords    \* usedSizeWords_

poolVars == <<used, allocations, usedSizeWords>>

Allocation == [baseAddr : Words, size : Nat]

Block(base, size) == base .. base + size - 1

BlockOf(v) == Block(allocations[v].baseAddr, allocations[v].size)

(* Mutant: the reserved bytes rounded down to words. *)
PoolInitReservedRoundedDown ==
  /\ used = 0 .. (ReservedBytes \div WordSizeBytes) - 1
  /\ allocations = << >>
  /\ usedSizeWords = 0

(* The constructor: no entry set, then clear(). *)
PoolInit ==
  /\ used = 0 .. Reserved - 1
  /\ allocations = << >>
  /\ usedSizeWords = 0

(***************************************************************************)
(* The positions at which the searches of allocate() can stop.              *)
(*                                                                         *)
(* Small buffers: the loop runs while i < used_.size() - sizeWords, so the  *)
(* last position that would fit is never tried.                             *)
(*                                                                         *)
(* Large buffers: the loop runs while i > sizeWords, so word 0 is never     *)
(* tried; and after a conflict at word c it goes on with the blocks ending  *)
(* below c - 1, so a block that ends right under a used word is never tried *)
(* unless it is one word long.                                              *)
(***************************************************************************)
SmallFits(u, w, p) ==
  /\ p \in 0 .. NumWords - w - 1
  /\ p \notin u
  /\ Block(p, w) \cap u = {}

LargeFits(u, w, p) ==
  /\ p \in 1 .. NumWords - w
  /\ p \notin u
  /\ Block(p, w) \cap u = {}
  /\ p + w = NumWords \/ w <= 1 \/ p + w \notin u

Fits(v, p) == IF IsSmall(v) THEN SmallFits(used, SizeWords(v), p)
                            ELSE LargeFits(used, SizeWords(v), p)

(* The first such position in the direction of the search. *)
IsFirstFit(v, p) ==
  /\ Fits(v, p)
  /\ \A q \in Words : Fits(v, q) => IF IsSmall(v) THEN p <= q ELSE q <= p

(* allocate() that finds a position and returns its address. *)
Allocate(v) ==
  /\ v \notin DOMAIN allocations
  /\ \E p \in Words :
       /\ IsFirstFit(v, p)
       /\ used' = used \cup Block(p, SizeWords(v))
       /\ usedSizeWords' = usedSizeWords + SizeWords(v)
       /\ allocations' =
            [u \in DOMAIN allocations \cup {v} |->
               IF u = v THEN [baseAddr |-> p, size |-> SizeWords(v)]
                        ELSE allocations[u]]

(* allocate() that returns failure(): both loops ran out. *)
AllocateFails(v) ==
  /\ v \notin DOMAIN allocations
  /\ \A p \in Words : ~Fits(v, p)
  /\ UNCHANGED poolVars

(* Mutant: erase() is missing, a second free() of the value frees again. *)
FreeKeepsEntry(v) ==
  /\ v \in DOMAIN allocations
  /\ used' = used \ BlockOf(v)
  /\ usedSizeWords' = usedSizeWords - allocations[v].size
  /\ UNCHANGED allocations

(* free().  operator[] of the map makes an empty allocation of a value that *)
(* has none, and erase() drops it again.                                    *)
Free(v) ==
  LET allocation == IF v \in DOMAIN allocations THEN allocations[v]
                    ELSE [baseAddr |-> 0, size |-> 0]
  IN /\ used' = used \ Block(allocation.baseAddr, allocation.size)
     /\ usedSizeWords' = usedSizeWords - allocation.size
     /\ allocations' = [u \in DOMAIN allocations \ {v} |-> allocations[u]]

(* Mutant: the number of used words is not reset. *)
ClearKeepsUsedSize ==
  /\ used' = used \cup (0 .. Reserved - 1)
  /\ allocations' = << >>
  /\ UNCHANGED usedSizeWords

(* clear(): sets the reserved words, forgets the allocations.  The words of *)
(* buffers that were still active stay marked.                              *)
Clear ==
  /\ used' = used \cup (0 .. Reserved - 1)
  /\ allocations' = << >>
  /\ usedSizeWords' = 0

(***************************************************************************)
(* The searches, shared: a value that is already active is never allocated  *)
(* again (an alloc is visited once; PhysicalMemory::add asserts it).        *)
(***************************************************************************)
PoolNext ==
  \/ \E v \in Value : Allocate(v) \/ AllocateFails(v) \/ Free(v)
  \/ Clear

PoolSpec == PoolInit /\ [][PoolNext]_poolVars
-----------------------------------------------------------------------------
(* Every entry of used_ and every allocation lies inside the memory, and    *)
(* usedSizeWords_ never goes below zero.                                    *)
PoolTypeOK ==
  /\ used \subseteq Words
  /\ usedSizeWords \in Nat
  /\ DOMAIN allocations \subseteq Value
  /\ \A v \in DOMAIN allocations : allocations[v] \in Allocation

(* No two active buffers overlap, and none touches the reserved words:      *)
(* the promise of the comment on struct Pool, across any sequence of        *)
(* allocate(), free() and clear().                                          *)
NoOverlap ==
  \A v \in DOMAIN allocations :
    /\ BlockOf(v) \subseteq Reserved .. NumWords - 1
    /\ \A u \in DOMAIN allocations \ {v} : BlockOf(u) \cap BlockOf(v) = {}

(* usedSize(), from which PhysicalMemory decides how much to swap out, is   *)
(* the number of words the active buffers really occupy.                    *)
UsedSizeIsExact ==
  usedSizeWords = Cardinality(UNION {BlockOf(v) : v \in DOMAIN allocations})

(* The pool as its clients see it. *)
Promise == INSTANCE AddressPool
             WITH live <- allocations

(* Pool implements AddressPool. *)
ImplementsAddressPool == Promise!Spec
=============================================================================
