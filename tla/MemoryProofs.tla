---------------------------- MODULE MemoryProofs ----------------------------
(***************************************************************************)
(* Proofs about Pool, for every memory, word size, reserved size and set of *)
(* buffers that satisfy PoolAssumption; about PoolScan: for every bitmap,   *)
(* the two search loops of Pool::allocate stay inside the bitmap and return *)
(* the position that Pool says they return; and about VirtualMemory, for    *)
(* any memory, any buffers and views of them, and functions of any length.  *)
(***************************************************************************)
EXTENDS PoolScan, VirtualMemory, FiniteSetTheorems, SequenceTheorems, TLAPS

(* Rounding bytes to words, as the constructor, allocate() and clear() do, *)
(* gives natural numbers.                                                  *)
LEMMA SizesAreNat ==
  /\ NumWords \in Nat
  /\ Reserved \in Nat
  /\ \A v \in Value : SizeWords(v) \in Nat
PROOF
<1>1. ASSUME NEW x \in Nat, NEW m \in Nat \ {0}
      PROVE  x \div m \in Nat
  BY SMT
<1>2. NumWords \in Nat
  BY <1>1, PoolAssumption DEF NumWords
<1>3. ASSUME NEW x \in Nat PROVE InWords(x) \in Nat
  <2>1. x + WordSizeBytes - 1 \in Nat /\ WordSizeBytes \in Nat \ {0}
    BY PoolAssumption
  <2> QED BY <2>1, <1>1 DEF InWords
<1> QED
  BY <1>2, <1>3, PoolAssumption DEF Reserved, SizeWords

(***************************************************************************)
(* The inductive invariant.  NoOverlap alone is not inductive: it holds    *)
(* because every active block and the reserved words are marked, and a     *)
(* search only stops at words that are not.                                *)
(***************************************************************************)
MarkedWords ==
  /\ 0 .. Reserved - 1 \subseteq used
  /\ \A v \in DOMAIN allocations : BlockOf(v) \subseteq used

PoolInv == PoolTypeOK /\ NoOverlap /\ MarkedWords /\ UsedSizeIsExact

(* A position at which a search stops starts a block of unmarked words that*)
(* lies inside the memory.                                                 *)
LEMMA FitIsFree ==
  ASSUME NEW v \in Value, NEW p \in Words, Fits(v, p)
  PROVE  /\ Block(p, SizeWords(v)) \cap used = {}
         /\ Block(p, SizeWords(v)) \subseteq Words
         /\ p \notin used
PROOF
<1> SizeWords(v) \in Nat /\ NumWords \in Nat
  BY SizesAreNat
<1> QED
  BY DEF Fits, SmallFits, LargeFits, Block, Words

(* The constructor of the pool establishes the invariant.                  *)
LEMMA InitHolds == PoolInit => PoolInv
PROOF
<1> SUFFICES ASSUME PoolInit PROVE PoolInv
  OBVIOUS
<1>1. DOMAIN allocations = {}
  BY DEF PoolInit
<1>2. UNION {BlockOf(v) : v \in DOMAIN allocations} = {}
  BY <1>1
<1>3. UsedSizeIsExact
  BY <1>2, FS_EmptySet DEF PoolInit, UsedSizeIsExact
<1>4. PoolTypeOK /\ NoOverlap /\ MarkedWords
  BY <1>1, SizesAreNat, PoolAssumption
  DEF PoolInit, PoolTypeOK, NoOverlap, MarkedWords, Words
<1> QED BY <1>3, <1>4 DEF PoolInv

(* The words of one block, counted.                                        *)
LEMMA BlockSize ==
  ASSUME NEW base \in Nat, NEW size \in Nat
  PROVE  IsFiniteSet(Block(base, size)) /\ Cardinality(Block(base, size)) = size
PROOF
  BY FS_Interval DEF Block

(* A successful allocate() keeps the invariant: it marks words that no     *)
(* active buffer has, and counts exactly those.                            *)
LEMMA AllocateStep ==
  ASSUME PoolInv, NEW v \in Value, Allocate(v)
  PROVE  PoolInv'
PROOF
<1> DEFINE sz == SizeWords(v)
           taken == UNION {BlockOf(u) : u \in DOMAIN allocations}
<1>1. PICK p \in Words :
        /\ IsFirstFit(v, p)
        /\ used' = used \cup Block(p, sz)
        /\ usedSizeWords' = usedSizeWords + sz
        /\ allocations' =
             [u \in DOMAIN allocations \cup {v} |->
                IF u = v THEN [baseAddr |-> p, size |-> sz] ELSE allocations[u]]
  BY DEF Allocate
<1>2. sz \in Nat /\ NumWords \in Nat /\ Reserved \in Nat /\ p \in Nat
  BY SizesAreNat DEF Words
<1>3. /\ Block(p, sz) \cap used = {}
      /\ Block(p, sz) \subseteq Words
  BY <1>1, FitIsFree DEF IsFirstFit
<1>4. v \notin DOMAIN allocations /\ DOMAIN allocations' = DOMAIN allocations \cup {v}
  BY <1>1 DEF Allocate
<1>5. BlockOf(v)' = Block(p, sz)
  BY <1>1, <1>4 DEF BlockOf
<1>6. \A u \in DOMAIN allocations : BlockOf(u)' = BlockOf(u)
  BY <1>1, <1>4 DEF BlockOf
<1>7. PoolTypeOK'
  <2>1. used' \subseteq Words
    BY <1>1, <1>3 DEF PoolInv, PoolTypeOK
  <2>0. usedSizeWords' \in Nat
    BY <1>1, <1>2 DEF PoolInv, PoolTypeOK
  <2>2. ASSUME NEW u \in DOMAIN allocations' PROVE u \in Value /\ allocations'[u] \in Allocation
    <3>1. CASE u = v
      <4>1. allocations'[u] = [baseAddr |-> p, size |-> sz]
        BY <1>1, <1>4, <3>1
      <4> QED BY <1>2, <3>1, <4>1 DEF Allocation
    <3>2. CASE u # v
      BY <1>1, <1>4, <3>2 DEF PoolInv, PoolTypeOK
    <3> QED BY <3>1, <3>2
  <2> QED BY <2>1, <2>0, <2>2 DEF PoolTypeOK
<1>8. MarkedWords'
  BY <1>1, <1>4, <1>5, <1>6 DEF PoolInv, MarkedWords
<1>9. Block(p, sz) \subseteq Reserved .. NumWords - 1
  BY <1>2, <1>3 DEF PoolInv, MarkedWords, Words
<1>10. NoOverlap'
  BY <1>3, <1>4, <1>5, <1>6, <1>9 DEF PoolInv, NoOverlap, MarkedWords
<1>11. UsedSizeIsExact'
  <2>1. (UNION {BlockOf(u) : u \in DOMAIN allocations})' = taken \cup Block(p, sz)
    BY <1>4, <1>5, <1>6
  <2>2. taken \subseteq Words /\ taken \cap Block(p, sz) = {}
    BY <1>3 DEF PoolInv, MarkedWords, PoolTypeOK
  <2>3. IsFiniteSet(taken)
    <3>1. IsFiniteSet(Words)
      BY <1>2, FS_Interval DEF Words
    <3> QED BY <2>2, <3>1, FS_Subset
  <2>4. Cardinality(taken \cup Block(p, sz)) = Cardinality(taken) + sz
    <3>1. IsFiniteSet(Block(p, sz)) /\ Cardinality(Block(p, sz)) = sz
      BY <1>2, BlockSize
    <3>2. Cardinality(taken \cup Block(p, sz))
            = Cardinality(taken) + Cardinality(Block(p, sz)) - Cardinality({})
      BY <2>2, <2>3, <3>1, FS_Union
    <3> QED BY <1>2, <2>3, <3>1, <3>2, FS_EmptySet, FS_CardinalityType
  <2> QED BY <1>1, <2>1, <2>4 DEF PoolInv, UsedSizeIsExact
<1> QED BY <1>7, <1>8, <1>10, <1>11 DEF PoolInv

(* free() keeps the invariant: it clears the words of one buffer, and no   *)
(* other active buffer has any of them.                                    *)
LEMMA FreeStep ==
  ASSUME PoolInv, NEW v \in Value, Free(v)
  PROVE  PoolInv'
PROOF
<1> DEFINE rest == DOMAIN allocations \ {v}
           kept == UNION {BlockOf(u) : u \in rest}
<1>1. DOMAIN allocations' = rest
  BY DEF Free
<1>2. \A u \in rest : allocations'[u] = allocations[u] /\ BlockOf(u)' = BlockOf(u)
  BY DEF Free, BlockOf
<1>3. NoOverlap'
  BY <1>1, <1>2 DEF PoolInv, NoOverlap
<1>4. (UNION {BlockOf(u) : u \in DOMAIN allocations})' = kept
  BY <1>1, <1>2
<1>5. CASE v \in DOMAIN allocations
  <2> DEFINE base == allocations[v].baseAddr
             size == allocations[v].size
  <2>1. base \in Words /\ base \in Nat /\ size \in Nat
    BY <1>5 DEF PoolInv, PoolTypeOK, Allocation, Words
  <2>2. /\ used' = used \ BlockOf(v)
        /\ usedSizeWords' = usedSizeWords - size
    BY <1>5 DEF Free, BlockOf
  <2>3. kept \cap BlockOf(v) = {}
    BY <1>5 DEF PoolInv, NoOverlap
  <2>4. BlockOf(v) \cap 0 .. Reserved - 1 = {}
    BY <1>5, SizesAreNat DEF PoolInv, NoOverlap
  <2>5. MarkedWords'
    <3>1. 0 .. Reserved - 1 \subseteq used'
      BY <2>2, <2>4 DEF PoolInv, MarkedWords
    <3>2. \A u \in rest : BlockOf(u) \subseteq used'
      BY <2>2, <2>3 DEF PoolInv, MarkedWords
    <3> QED BY <1>1, <1>2, <3>1, <3>2 DEF MarkedWords
  <2>6. usedSizeWords' = Cardinality(kept) /\ Cardinality(kept) \in Nat
    <3>1. UNION {BlockOf(u) : u \in DOMAIN allocations} = kept \cup BlockOf(v)
      BY <1>5
    <3>2. IsFiniteSet(BlockOf(v)) /\ Cardinality(BlockOf(v)) = size
      BY <2>1, BlockSize DEF BlockOf
    <3>3. kept \subseteq Words
      <4>1. \A u \in rest : BlockOf(u) \subseteq Words
        BY DEF PoolInv, MarkedWords, PoolTypeOK
      <4> QED BY <4>1
    <3>4. IsFiniteSet(Words)
      BY SizesAreNat, FS_Interval DEF Words
    <3>5. IsFiniteSet(kept) /\ Cardinality(kept) \in Nat
      BY <3>3, <3>4, FS_Subset, FS_CardinalityType
    <3>6. Cardinality(kept \cup BlockOf(v))
            = Cardinality(kept) + Cardinality(BlockOf(v)) - Cardinality({})
      BY <2>3, <3>2, <3>5, FS_Union
    <3>7. usedSizeWords = Cardinality(kept) + size
      <4>1. usedSizeWords = Cardinality(kept \cup BlockOf(v))
        BY <3>1 DEF PoolInv, UsedSizeIsExact
      <4> HIDE DEF kept, size
      <4> QED BY <2>1, <3>2, <3>5, <3>6, <4>1, FS_EmptySet
    <3> QED BY <2>1, <2>2, <3>5, <3>7
  <2>7. PoolTypeOK'
    BY <1>1, <1>2, <2>2, <2>6 DEF PoolInv, PoolTypeOK
  <2>8. UsedSizeIsExact'
    BY <1>4, <2>6 DEF UsedSizeIsExact
  <2> QED BY <1>3, <2>5, <2>7, <2>8 DEF PoolInv
<1>6. CASE v \notin DOMAIN allocations
  <2>1. rest = DOMAIN allocations
    BY <1>6
  <2>2. used' = used /\ usedSizeWords' = usedSizeWords
    BY <1>6 DEF Free, Block, PoolInv, PoolTypeOK
  <2>3. MarkedWords' /\ PoolTypeOK'
    BY <1>1, <1>2, <2>1, <2>2 DEF PoolInv, PoolTypeOK, MarkedWords
  <2>4. UsedSizeIsExact'
    BY <1>4, <2>1, <2>2 DEF PoolInv, UsedSizeIsExact
  <2> QED BY <1>3, <2>3, <2>4 DEF PoolInv
<1> QED BY <1>5, <1>6

(* clear() keeps the invariant: no buffer is active afterwards, though     *)
(* words may stay marked.                                                  *)
LEMMA ClearStep ==
  ASSUME PoolInv, Clear
  PROVE  PoolInv'
PROOF
<1>1. DOMAIN allocations' = {}
  BY DEF Clear
<1>2. (UNION {BlockOf(v) : v \in DOMAIN allocations})' = {}
  BY <1>1
<1>3. UsedSizeIsExact'
  BY <1>2, FS_EmptySet DEF Clear, UsedSizeIsExact
<1>4. PoolTypeOK' /\ NoOverlap' /\ MarkedWords'
  BY <1>1, SizesAreNat, PoolAssumption
  DEF Clear, PoolInv, PoolTypeOK, NoOverlap, MarkedWords, Words
<1> QED BY <1>3, <1>4 DEF PoolInv

(* Every call keeps the invariant; an allocate() that fails changes nothing.*)
LEMMA PoolInvIsInductive == PoolInv /\ [PoolNext]_poolVars => PoolInv'
PROOF
<1> SUFFICES ASSUME PoolInv, [PoolNext]_poolVars PROVE PoolInv'
  OBVIOUS
<1>1. ASSUME NEW v \in Value, Allocate(v) PROVE PoolInv'
  BY <1>1, AllocateStep
<1>2. ASSUME NEW v \in Value, Free(v) PROVE PoolInv'
  BY <1>2, FreeStep
<1>3. CASE Clear
  BY <1>3, ClearStep
<1>4. CASE UNCHANGED poolVars
  BY <1>4 DEF poolVars, PoolInv, PoolTypeOK, NoOverlap, MarkedWords,
              UsedSizeIsExact, BlockOf
<1> QED
  BY <1>1, <1>2, <1>3, <1>4 DEF PoolNext, AllocateFails

(* The pool's state has its type, whatever sequence of calls made it.      *)
THEOREM PoolTypeCorrect == PoolSpec => []PoolTypeOK
PROOF
<1>1. PoolInv => PoolTypeOK
  BY DEF PoolInv
<1> QED BY <1>1, InitHolds, PoolInvIsInductive, PTL DEF PoolSpec

(* Active buffers of a Pool of any size never overlap and never touch the  *)
(* reserved words.                                                         *)
THEOREM PoolNeverOverlaps == PoolSpec => []NoOverlap
PROOF
<1>1. PoolInv => NoOverlap
  BY DEF PoolInv
<1> QED BY <1>1, InitHolds, PoolInvIsInductive, PTL DEF PoolSpec

(* usedSize() is exact in a Pool of any size, so freeSpace() swaps out     *)
(* against the real occupation.                                            *)
THEOREM PoolUsedSizeExact == PoolSpec => []UsedSizeIsExact
PROOF
<1>1. PoolInv => UsedSizeIsExact
  BY DEF PoolInv
<1> QED BY <1>1, InitHolds, PoolInvIsInductive, PTL DEF PoolSpec

(* A Pool keeps what AddressPool promises: every initial state and every   *)
(* step of the bitmap allocator is one of the abstract allocator.          *)
THEOREM PoolImplementsAddressPool == PoolSpec => ImplementsAddressPool
PROOF
<1>1. PoolInit => Promise!Init
  BY DEF PoolInit, Promise!Init
<1>2. PoolInv /\ [PoolNext]_poolVars => [Promise!Next]_allocations
  <2> SUFFICES ASSUME PoolInv, [PoolNext]_poolVars
               PROVE  [Promise!Next]_allocations
    OBVIOUS
  <2>1. ASSUME NEW v \in Value, Allocate(v) PROVE Promise!Next
    <3>1. PICK p \in Words :
            /\ IsFirstFit(v, p)
            /\ allocations' =
                 [u \in DOMAIN allocations \cup {v} |->
                    IF u = v THEN [baseAddr |-> p, size |-> SizeWords(v)]
                             ELSE allocations[u]]
      BY <2>1 DEF Allocate
    <3>2. /\ Block(p, SizeWords(v)) \cap used = {}
          /\ Block(p, SizeWords(v)) \subseteq Words
          /\ p \notin used
      BY <3>1, FitIsFree DEF IsFirstFit
    <3>3. p \in Reserved .. NumWords - SizeWords(v)
      <4>1. SizeWords(v) \in Nat /\ NumWords \in Nat /\ Reserved \in Nat /\ p \in Nat
        BY SizesAreNat DEF Words
      <4>2. Reserved <= p
        BY <3>2, <4>1 DEF PoolInv, MarkedWords
      <4>3. p <= NumWords - SizeWords(v)
        BY <3>1, <4>1 DEF IsFirstFit, Fits, SmallFits, LargeFits
      <4> QED BY <4>1, <4>2, <4>3
    <3>4. \A u \in DOMAIN allocations :
            Promise!BlockOf(u) \cap Promise!Block(p, SizeWords(v)) = {}
      BY <3>2 DEF PoolInv, MarkedWords, BlockOf, Block, Promise!BlockOf, Promise!Block
    <3>5. v \notin DOMAIN allocations
      BY <2>1 DEF Allocate
    <3>6. Promise!Allocate(v)
      BY <3>1, <3>3, <3>4, <3>5 DEF Promise!Allocate
    <3> QED BY <3>6 DEF Promise!Next
  <2>2. ASSUME NEW v \in Value, Free(v) PROVE Promise!Next
    BY <2>2 DEF Free, Promise!Free, Promise!Next
  <2>3. CASE Clear
    BY <2>3 DEF Clear, Promise!Clear, Promise!Next
  <2>4. CASE UNCHANGED poolVars
    BY <2>4 DEF poolVars
  <2> QED
    BY <2>1, <2>2, <2>3, <2>4 DEF PoolNext, AllocateFails
<1> QED
  BY <1>1, <1>2, InitHolds, PoolInvIsInductive, PTL
  DEF PoolSpec, ImplementsAddressPool, Promise!Spec

(***************************************************************************)
(* What the outer loop has behind it.  Small buffers: no position below index*)
(* fits.  Large ones: no block that ends above index fits; and when a block*)
(* that ends at index would not be tried after a conflict, because word index is in*)
(* use, then the loop came here by a single step and the block has the     *)
(* word at which it took the step.                                         *)
(***************************************************************************)
SmallBehind == \A q \in Words : q < index => ~Fits(value, q)

LargeBehind ==
  /\ \A q \in Words : q + sizeWords > index => ~Fits(value, q)
  /\ index = NumWords \/ sizeWords <= 1 \/ index \notin used \/ \E x \in index - sizeWords .. index - 1 : x \in used

OuterInv ==
  /\ value \in Value \ DOMAIN allocations
  /\ index \in 0 .. NumWords
  /\ IF IsSmall(value) THEN SmallBehind ELSE LargeBehind

(* What the inner loop has behind it: the words up to offset are free.     *)
InnerInv ==
  /\ MoreToScan
  /\ Start \notin used
  /\ offset \in 0 .. sizeWords
  /\ \A k \in 0 .. offset - 1 : Start + k \notin used

ScanInv ==
  /\ loop \in {"idle", "outer", "inner"}
  /\ loop # "idle" => OuterInv
  /\ loop = "inner" => InnerInv
-----------------------------------------------------------------------------
(* A block has words unless its buffer is empty, and then it is small; so  *)
(* the large search never looks at the word after the last.                *)
LEMMA WordsOfBuffers ==
  ASSUME NEW v \in Value
  PROVE  /\ SizeWords(v) \in Nat
         /\ IsSmall(v) => SizeWords(v) <= NumWords
         /\ ~IsSmall(v) => SizeWords(v) >= 1
PROOF
<1>1. ASSUME NEW x \in Nat, NEW d \in Nat \ {0}, x >= d PROVE x \div d >= 1
  BY <1>1, SMT
<1>2. ValueBytes[v] \in Nat /\ WordSizeBytes \in Nat \ {0} /\ LargeAllocSizeBytes \in Nat \ {0}
  BY PoolAssumption
<1>3. ASSUME ~IsSmall(v) PROVE SizeWords(v) >= 1
  <2>1. ValueBytes[v] + WordSizeBytes - 1 \in Nat
        /\ ValueBytes[v] + WordSizeBytes - 1 >= WordSizeBytes
    BY <1>2, <1>3 DEF IsSmall
  <2> QED BY <1>1, <1>2, <2>1 DEF SizeWords, InWords
<1> QED BY <1>3, SizesAreNat, PoolAssumption

(* Where the block is that the outer loop looks at.                        *)
LEMMA StartInside ==
  ASSUME OuterInv, MoreToScan
  PROVE  /\ sizeWords \in Nat /\ NumWords \in Nat /\ index \in Nat
         /\ Start \in Words
         /\ Start + sizeWords <= NumWords
         /\ IsSmall(value) => Start = index /\ Start + sizeWords < NumWords
         /\ ~IsSmall(value) => Start = index - sizeWords /\ Start >= 1 /\ sizeWords >= 1
PROOF
<1>1. /\ sizeWords \in Nat /\ NumWords \in Nat /\ index \in 0 .. NumWords
      /\ ~IsSmall(value) => sizeWords >= 1
  BY WordsOfBuffers, SizesAreNat DEF OuterInv, sizeWords
<1> QED BY <1>1 DEF MoreToScan, Start, Words

(* The searches begin with everything before them.                         *)
LEMMA BeginStep ==
  ASSUME NEW v \in Value, Begin(v)
  PROVE  ScanInv'
PROOF
<1>1. /\ loop' = "outer" /\ value' = v /\ index' = (IF IsSmall(v) THEN 0 ELSE NumWords)
      /\ v \notin DOMAIN allocations /\ UNCHANGED <<used, allocations>>
  BY DEF Begin, poolVars
<1>2. SizeWords(v) \in Nat /\ NumWords \in Nat
  BY SizesAreNat
<1>3. OuterInv'
  <2>1. CASE IsSmall(v)
    BY <1>1, <1>2, <2>1 DEF OuterInv, SmallBehind, Words
  <2>2. CASE ~IsSmall(v)
    <3>1. \A q \in Words : q + SizeWords(v) > NumWords => ~LargeFits(used, SizeWords(v), q)
      BY <1>2 DEF LargeFits, Words
    <3> QED BY <1>1, <1>2, <2>2, <3>1 DEF OuterInv, LargeBehind, sizeWords, Fits
  <2> QED BY <2>1, <2>2
<1> QED BY <1>1, <1>3 DEF ScanInv

(* The outer loop leaves a position behind only if its first word is used. *)
LEMMA OuterStep ==
  ASSUME ScanInv, Outer
  PROVE  ScanInv'
PROOF
<1>1. /\ loop = "outer" /\ MoreToScan /\ OuterInv
      /\ UNCHANGED <<used, allocations, value>>
  BY DEF Outer, poolVars, ScanInv
<1>2. /\ sizeWords \in Nat /\ NumWords \in Nat /\ index \in Nat
      /\ Start \in Words
      /\ Start + sizeWords <= NumWords
      /\ IsSmall(value) => Start = index /\ Start + sizeWords < NumWords
      /\ ~IsSmall(value) => Start = index - sizeWords /\ Start >= 1 /\ sizeWords >= 1
  BY <1>1, StartInside
<1>3. CASE Start \notin used /\ loop' = "inner" /\ offset' = 0 /\ index' = index
  <2>1. OuterInv'
    BY <1>1, <1>3 DEF OuterInv, SmallBehind, LargeBehind, sizeWords, Fits
  <2>2. InnerInv'
    BY <1>1, <1>2, <1>3 DEF InnerInv, MoreToScan, Start, sizeWords
  <2> QED BY <1>3, <2>1, <2>2 DEF ScanInv
<1>4. CASE Start \in used /\ Advance(index) /\ loop' = loop
  <2>1. CASE IsSmall(value)
    <3>1. index' = index + 1
      BY <1>4, <2>1 DEF Advance
    <3>2. ~Fits(value, index)
      BY <1>2, <1>4, <2>1 DEF Fits, SmallFits
    <3>3. \A q \in Words : q < index + 1 => ~Fits(value, q)
      <4>1. SmallBehind
        BY <1>1, <2>1 DEF OuterInv
      <4> QED BY <1>2, <3>2, <4>1 DEF SmallBehind, Words
    <3>4. SmallBehind'
      BY <1>1, <3>1, <3>3 DEF SmallBehind, Fits
    <3>5. index' \in 0 .. NumWords
      BY <1>2, <2>1, <3>1
    <3> QED BY <1>1, <1>4, <2>1, <3>4, <3>5 DEF ScanInv, OuterInv
  <2>2. CASE ~IsSmall(value)
    <3>1. index' = index - 1 /\ index' \in 0 .. NumWords
      BY <1>1, <1>2, <1>4, <2>2 DEF Advance, OuterInv
    <3>2. ~Fits(value, Start)
      BY <1>4, <2>2 DEF Fits, LargeFits
    <3>3. \A q \in Words : q + sizeWords > index - 1 => ~Fits(value, q)
      <4>1. \A q \in Words : q + sizeWords > index => ~Fits(value, q)
        BY <1>1, <2>2 DEF OuterInv, LargeBehind
      <4>2. \A q \in Words : q + sizeWords > index - 1 /\ q # Start => q + sizeWords > index
        BY <1>2, <2>2 DEF Words
      <4> QED BY <3>2, <4>1, <4>2
    <3>4. sizeWords <= 1 \/ \E x \in (index - 1) - sizeWords .. (index - 1) - 1 : x \in used
      <4>1. sizeWords > 1 => Start \in (index - 1) - sizeWords .. (index - 1) - 1
        BY <1>2, <2>2
      <4> QED BY <1>2, <1>4, <4>1
    <3>5. LargeBehind'
      BY <1>1, <3>1, <3>3, <3>4 DEF LargeBehind, Fits, sizeWords
    <3> QED BY <1>1, <1>4, <2>2, <3>1, <3>5 DEF ScanInv, OuterInv
  <2> QED BY <2>1, <2>2
<1> QED BY <1>3, <1>4 DEF Outer

(* The inner loop: a conflict takes the outer loop past all positions whose*)
(* block has the used word and, for large buffers, past the one whose block*)
(* ends right under it.                                                    *)
LEMMA InnerStep ==
  ASSUME ScanInv, Inner
  PROVE  ScanInv'
PROOF
<1>1. /\ loop = "inner" /\ offset < sizeWords /\ MoreToScan /\ OuterInv /\ InnerInv
      /\ UNCHANGED <<used, allocations, value>>
  BY DEF Inner, poolVars, ScanInv, InnerInv
<1>2. /\ sizeWords \in Nat /\ NumWords \in Nat /\ index \in Nat
      /\ Start \in Words
      /\ Start + sizeWords <= NumWords
      /\ IsSmall(value) => Start = index /\ Start + sizeWords < NumWords
      /\ ~IsSmall(value) => Start = index - sizeWords /\ Start >= 1 /\ sizeWords >= 1
  BY <1>1, StartInside
<1>3. /\ offset \in 0 .. sizeWords /\ Start \notin used
      /\ \A k \in 0 .. offset - 1 : Start + k \notin used
  BY <1>1 DEF InnerInv
<1>4. CASE Start + offset \notin used /\ offset' = offset + 1 /\ UNCHANGED <<loop, index>>
  <2>1. OuterInv'
    BY <1>1, <1>4 DEF OuterInv, SmallBehind, LargeBehind, sizeWords, Fits
  <2>2. Start' = Start /\ sizeWords' = sizeWords /\ (MoreToScan' <=> MoreToScan)
    BY <1>1, <1>4 DEF Start, sizeWords, MoreToScan
  <2>3. \A k \in 0 .. offset : Start + k \notin used
    BY <1>1, <1>2, <1>3, <1>4
  <2>4. InnerInv'
    BY <1>1, <1>2, <1>3, <1>4, <2>2, <2>3 DEF InnerInv
  <2> QED BY <1>1, <1>4, <2>1, <2>4 DEF ScanInv
<1>5. CASE Start + offset \in used /\ loop' = "outer" /\ Advance(Start + offset)
  <2>1. offset >= 1
    BY <1>2, <1>3, <1>5 DEF Words
  <2> DEFINE c == Start + offset
  <2>2. c \in used /\ c \in Nat /\ Start < c /\ c < Start + sizeWords
    BY <1>1, <1>2, <1>3, <1>5, <2>1 DEF Words
  <2> HIDE DEF c
  <2>3. CASE IsSmall(value)
    <3>1. index' = c + 1
      BY <1>5, <2>3 DEF Advance, c
    <3>2. SmallBehind
      BY <1>1, <2>3 DEF OuterInv
    <3>3. ASSUME NEW q \in Words, q < c + 1 PROVE ~Fits(value, q)
      <4>1. CASE q < index
        BY <3>2, <4>1 DEF SmallBehind
      <4>2. CASE ~(q < index)
        <5>1. c \in Block(q, sizeWords)
          BY <1>2, <2>2, <2>3, <3>3, <4>2 DEF Block, Words
        <5> QED BY <2>2, <2>3, <5>1 DEF Fits, SmallFits, sizeWords
      <4> QED BY <4>1, <4>2
    <3>4. SmallBehind'
      BY <1>1, <3>1, <3>3 DEF SmallBehind, Fits
    <3>5. index' \in 0 .. NumWords
      BY <1>2, <2>2, <2>3, <3>1
    <3> QED BY <1>1, <1>5, <2>3, <3>4, <3>5 DEF ScanInv, OuterInv
  <2>4. CASE ~IsSmall(value)
    <3>1. index' = c - 1
      BY <1>5, <2>4 DEF Advance, c
    <3>2. \A q \in Words : q + sizeWords > index => ~Fits(value, q)
      BY <1>1, <2>4 DEF OuterInv, LargeBehind
    <3>3. ASSUME NEW q \in Words, q + sizeWords > c - 1 PROVE ~Fits(value, q)
      <4>1. CASE q + sizeWords > index
        BY <3>2, <4>1
      <4>2. CASE q + sizeWords = c
        <5>1. q + sizeWords # NumWords /\ ~(sizeWords <= 1)
          BY <1>2, <2>2, <4>2
        <5>2. ~LargeFits(used, sizeWords, q)
          BY <2>2, <4>2, <5>1 DEF LargeFits
        <5> QED BY <2>4, <5>2 DEF Fits, sizeWords
      <4>3. CASE q + sizeWords <= index /\ q + sizeWords > c
        <5>1. c \in Block(q, sizeWords)
          BY <1>2, <2>2, <2>4, <4>3 DEF Block, Words
        <5>2. ~LargeFits(used, sizeWords, q)
          BY <2>2, <5>1 DEF LargeFits
        <5> QED BY <2>4, <5>2 DEF Fits, sizeWords
      <4> QED BY <1>2, <2>2, <3>3, <4>1, <4>2, <4>3 DEF Words
    <3>4. c - 1 \notin used
      <4>1. offset - 1 \in 0 .. offset - 1 /\ Start + (offset - 1) = c - 1
        BY <1>2, <1>3, <2>1 DEF c, Words
      <4> QED BY <1>3, <4>1
    <3>5. LargeBehind'
      BY <1>1, <3>1, <3>3, <3>4 DEF LargeBehind, Fits, sizeWords
    <3>6. index' \in 0 .. NumWords
      BY <1>2, <2>2, <3>1
    <3> QED BY <1>1, <1>5, <2>4, <3>5, <3>6 DEF ScanInv, OuterInv
  <2> QED BY <2>3, <2>4
<1> QED BY <1>4, <1>5 DEF Inner

(* What is marked when the inner loop finds no conflict is the first       *)
(* position that fits, in the order of the search.                         *)
LEMMA FoundIsFirstFit ==
  ASSUME ScanInv, Found
  PROVE  Allocate(value)
PROOF
<1>1. /\ loop = "inner" /\ offset >= sizeWords /\ MoreToScan /\ OuterInv /\ InnerInv
  BY DEF Found, ScanInv, InnerInv
<1>2. /\ sizeWords \in Nat /\ NumWords \in Nat /\ index \in Nat
      /\ Start \in Words
      /\ Start + sizeWords <= NumWords
      /\ IsSmall(value) => Start = index /\ Start + sizeWords < NumWords
      /\ ~IsSmall(value) => Start = index - sizeWords /\ Start >= 1 /\ sizeWords >= 1
  BY <1>1, StartInside
<1>3. /\ Start \notin used
      /\ \A k \in 0 .. sizeWords - 1 : Start + k \notin used
  BY <1>1, <1>2 DEF InnerInv
<1>4. Block(Start, sizeWords) \cap used = {}
  <2> SUFFICES ASSUME NEW x \in Block(Start, sizeWords) PROVE x \notin used
    OBVIOUS
  <2>1. x - Start \in 0 .. sizeWords - 1 /\ Start + (x - Start) = x
    BY <1>2 DEF Block, Words
  <2> QED BY <1>3, <2>1
<1>5. IsFirstFit(value, Start)
  <2>1. CASE IsSmall(value)
    <3>1. SmallFits(used, sizeWords, Start)
      BY <1>2, <1>3, <1>4, <2>1 DEF SmallFits, Words
    <3>2. \A q \in Words : Fits(value, q) => Start <= q
      <4>1. \A q \in Words : q < index => ~Fits(value, q)
        BY <1>1, <2>1 DEF OuterInv, SmallBehind
      <4> QED BY <1>2, <2>1, <4>1 DEF Words
    <3> QED BY <2>1, <3>1, <3>2 DEF IsFirstFit, Fits, sizeWords
  <2>2. CASE ~IsSmall(value)
    <3>1. index = NumWords \/ sizeWords <= 1 \/ index \notin used
      <4>1. index - sizeWords .. index - 1 = Block(Start, sizeWords)
        BY <1>2, <2>2 DEF Block, Words
      <4> QED BY <1>1, <1>4, <2>2, <4>1 DEF OuterInv, LargeBehind
    <3>2. LargeFits(used, sizeWords, Start)
      BY <1>2, <1>3, <1>4, <2>2, <3>1 DEF LargeFits, Words
    <3>3. \A q \in Words : Fits(value, q) => q <= Start
      <4>1. \A q \in Words : q + sizeWords > index => ~Fits(value, q)
        BY <1>1, <2>2 DEF OuterInv, LargeBehind
      <4> QED BY <1>2, <2>2, <4>1 DEF Words
    <3> QED BY <2>2, <3>2, <3>3 DEF IsFirstFit, Fits, sizeWords
  <2> QED BY <2>1, <2>2
<1> QED BY <1>1, <1>2, <1>5 DEF Found, Allocate, OuterInv, sizeWords

(* failure() is returned only if no position fits.                         *)
LEMMA NotFoundMeansNoFit ==
  ASSUME ScanInv, NotFound
  PROVE  AllocateFails(value)
PROOF
<1>1. loop = "outer" /\ ~MoreToScan /\ OuterInv /\ UNCHANGED poolVars
  BY DEF NotFound, ScanInv, poolVars
<1>2. sizeWords \in Nat /\ NumWords \in Nat /\ index \in 0 .. NumWords
  BY <1>1, WordsOfBuffers, SizesAreNat DEF OuterInv, sizeWords
<1>3. \A q \in Words : ~Fits(value, q)
  <2>1. CASE IsSmall(value)
    <3>1. \A q \in Words : q < index => ~Fits(value, q)
      BY <1>1, <2>1 DEF OuterInv, SmallBehind
    <3>2. \A q \in Words : SmallFits(used, sizeWords, q) => q < index
      BY <1>1, <1>2, <2>1 DEF SmallFits, MoreToScan, Words
    <3> QED BY <2>1, <3>1, <3>2 DEF Fits, sizeWords
  <2>2. CASE ~IsSmall(value)
    <3>1. \A q \in Words : q + sizeWords > index => ~Fits(value, q)
      BY <1>1, <2>2 DEF OuterInv, LargeBehind
    <3>2. \A q \in Words : LargeFits(used, sizeWords, q) => q + sizeWords > index
      BY <1>1, <1>2, <2>2 DEF LargeFits, MoreToScan, Words
    <3> QED BY <2>2, <3>1, <3>2 DEF Fits, sizeWords
  <2> QED BY <2>1, <2>2
<1> QED BY <1>1, <1>3 DEF AllocateFails, OuterInv

LEMMA ScanInvInit == ScanInit => ScanInv
PROOF
  BY DEF ScanInit, ScanInv

LEMMA ScanInvStep == ScanInv /\ [ScanNext]_allScanVars => ScanInv'
PROOF
<1> SUFFICES ASSUME ScanInv, [ScanNext]_allScanVars PROVE ScanInv'
  OBVIOUS
<1>1. ASSUME NEW v \in Value, Begin(v) PROVE ScanInv'
  BY <1>1, BeginStep
<1>2. CASE Outer
  BY <1>2, OuterStep
<1>3. CASE Inner
  BY <1>3, InnerStep
<1>4. CASE \/ Found \/ NotFound
           \/ loop = "idle" /\ ((\E v \in Value : Free(v)) \/ Clear) /\ UNCHANGED scanVars
  <2>1. loop' = "idle"
    BY <1>4 DEF Found, NotFound, scanVars
  <2> QED BY <2>1 DEF ScanInv
<1>5. CASE UNCHANGED allScanVars
  BY <1>5 DEF allScanVars, poolVars, scanVars, ScanInv, OuterInv, InnerInv, SmallBehind,
              LargeBehind, Fits, sizeWords, Start, MoreToScan
<1> QED BY <1>1, <1>2, <1>3, <1>4, <1>5 DEF ScanNext, Search

LEMMA ScanInvHolds == ScanSpec => []ScanInv
PROOF
  BY ScanInvInit, ScanInvStep, PTL DEF ScanSpec
-----------------------------------------------------------------------------
(* Pool::allocate never reads used_ outside its entries, from whatever     *)
(* index a conflict makes the loops go on: the unsigned bound of the small *)
(* search and the position that the large one ends at suffice.             *)
THEOREM ScanReadsInBounds == ScanSpec => []ReadsInBounds
PROOF
<1>1. ScanInv => ReadsInBounds
  <2> SUFFICES ASSUME ScanInv PROVE ReadsInBounds
    OBVIOUS
  <2>1. ASSUME loop = "outer", MoreToScan PROVE Start \in Words
    BY <2>1, StartInside DEF ScanInv
  <2>2. ASSUME loop = "inner", offset < sizeWords PROVE Start + offset \in Words
    <3>1. offset \in 0 .. sizeWords /\ sizeWords \in Nat /\ NumWords \in Nat /\ Start \in Words
          /\ Start + sizeWords <= NumWords
      BY <2>2, StartInside DEF ScanInv, InnerInv
    <3> QED BY <2>2, <3>1 DEF Words
  <2> QED BY <2>1, <2>2 DEF ReadsInBounds
<1> QED BY <1>1, ScanInvHolds, PTL

LEMMA ScanStepRefines == ScanInv /\ [ScanNext]_allScanVars => [PoolNext]_poolVars
PROOF
<1> SUFFICES ASSUME ScanInv, [ScanNext]_allScanVars PROVE [PoolNext]_poolVars
  OBVIOUS
<1>1. CASE Found
  <2>1. value \in Value /\ Allocate(value)
    BY <1>1, FoundIsFirstFit DEF Found, ScanInv, OuterInv
  <2>2. PICK v \in Value : v = value
    BY <2>1
  <2>3. Allocate(v)
    BY <2>1, <2>2 DEF Allocate
  <2> QED BY <2>3 DEF PoolNext
<1>2. CASE (\E v \in Value : Free(v)) \/ Clear
  BY <1>2 DEF PoolNext
<1>3. CASE (\E v \in Value : Begin(v)) \/ Outer \/ Inner \/ NotFound \/ UNCHANGED allScanVars
  BY <1>3 DEF Begin, Outer, Inner, NotFound, allScanVars
<1> QED BY <1>1, <1>2, <1>3 DEF ScanNext, Search

LEMMA ScanIsPool == ScanSpec => PoolSpec
PROOF
<1>1. ScanInit => PoolInit
  BY DEF ScanInit
<1> QED BY <1>1, ScanStepRefines, ScanInvHolds, PTL DEF ScanSpec, PoolSpec

(* The loops of allocate(), for every memory and set of buffers, mark the  *)
(* first position of the search that Pool describes, and return failure()  *)
(* only when there is none: the jumps after a conflict miss no other.      *)
THEOREM ScanImplementsPool == ScanSpec => ImplementsPool
PROOF
<1>1. ScanInv /\ [ScanNext]_allScanVars => [NotFound => AllocateFails(value)]_allScanVars
  BY NotFoundMeansNoFit
<1> QED BY <1>1, ScanInvHolds, ScanIsPool, PTL DEF ScanSpec, ImplementsPool

(* So what holds of a Pool holds with its search loops: no two buffers     *)
(* overlap while a search runs or after it, ...                            *)
THEOREM ScanNeverOverlaps == ScanSpec => []NoOverlap
PROOF
  BY ScanIsPool, PoolNeverOverlaps, PTL

(* ... usedSize() is exact, ...                                            *)
THEOREM ScanUsedSizeExact == ScanSpec => []UsedSizeIsExact
PROOF
  BY ScanIsPool, PoolUsedSizeExact, PTL

(* ... and clients get what AddressPool promises.                          *)
THEOREM ScanImplementsAddressPool == ScanSpec => ImplementsAddressPool
PROOF
  BY ScanIsPool, PoolImplementsAddressPool, PTL

-----------------------------------------------------------------------------

(***************************************************************************)
(* Views.  The lineage of a view ends at one buffer, its root, and the      *)
(* lineage of anything in it is a part of it.                               *)
(***************************************************************************)
LEMMA LineageHasParents ==
  ASSUME NEW o \in Object
  PROVE  Lineage[o] \subseteq Object /\ o \in Lineage[o] /\ HasParents(Lineage[o])
PROOF
<1>1. Lineage[o] = {x \in Object : \A S \in SUBSET Object : o \in S /\ HasParents(S) => x \in S}
  BY DEF Lineage
<1>2. ASSUME NEW a \in Lineage[o] \cap Alias
      PROVE  Parent[a] \in Lineage[o]
  <2>1. Parent[a] \in Object
    BY VMAssumption
  <2>2. ASSUME NEW S \in SUBSET Object, o \in S, HasParents(S)
        PROVE  Parent[a] \in S
    BY <1>1, <2>2 DEF HasParents
  <2> QED BY <1>1, <2>1, <2>2
<1> QED BY <1>1, <1>2 DEF HasParents

LEMMA LineageIsSmallest ==
  ASSUME NEW o \in Object, NEW S \in SUBSET Object, o \in S, HasParents(S)
  PROVE  Lineage[o] \subseteq S
PROOF
  BY DEF Lineage

LEMMA LineageOfBuffer ==
  ASSUME NEW b \in Value
  PROVE  Lineage[b] = {b} /\ Root[b] = b
PROOF
<1>1. b \in Object /\ {b} \in SUBSET Object /\ HasParents({b})
  BY VMAssumption DEF Object, HasParents
<1>2. Lineage[b] \subseteq {b} /\ b \in Lineage[b]
  BY <1>1, LineageIsSmallest, LineageHasParents
<1> QED BY <1>1, <1>2 DEF Root

LEMMA LineageOfView ==
  ASSUME NEW a \in Alias
  PROVE  Parent[a] \in Object /\ Lineage[a] = {a} \cup Lineage[Parent[a]]
PROOF
<1>1. a \in Object /\ Parent[a] \in Object
  BY VMAssumption DEF Object
<1>2. Lineage[a] \subseteq {a} \cup Lineage[Parent[a]]
  <2> DEFINE S == {a} \cup Lineage[Parent[a]]
  <2>1. S \in SUBSET Object /\ a \in S /\ HasParents(S)
    BY <1>1, LineageHasParents DEF HasParents
  <2> QED BY <1>1, <2>1, LineageIsSmallest
<1>3. a \in Lineage[a] /\ Parent[a] \in Lineage[a]
  BY <1>1, LineageHasParents DEF HasParents
<1>4. Lineage[Parent[a]] \subseteq Lineage[a]
  BY <1>1, <1>3, LineageHasParents, LineageIsSmallest
<1> QED BY <1>1, <1>2, <1>3, <1>4

LEMMA RootInLineage ==
  ASSUME NEW o \in Object
  PROVE  Root[o] \in Value /\ Lineage[o] \cap Value = {Root[o]}
PROOF
<1> DEFINE ends(x) == Lineage[x] \cap Value
<1>1. ASSUME NEW a \in Alias
      PROVE  ends(a) = ends(Parent[a])
  BY VMAssumption, LineageOfView
<1>2. \A x \in Object : ends(x) # {}
  <2> DEFINE endless == {a \in Alias : ends(a) = {}}
  <2>1. ASSUME endless # {}
        PROVE  FALSE
    <3>1. PICK a \in endless : Parent[a] \notin endless
      BY <2>1, VMAssumption
    <3>2. Parent[a] \in Value
      BY <1>1, <3>1, LineageOfView DEF Object
    <3> QED BY <1>1, <3>1, <3>2, LineageOfBuffer
  <2>2. \A b \in Value : ends(b) # {}
    BY LineageOfBuffer
  <2> QED BY <2>1, <2>2 DEF Object
<1>3. \A x \in Lineage[o] : ends(x) = ends(o)
  <2> DEFINE S == {x \in Lineage[o] : ends(x) = ends(o)}
  <2>1. S \in SUBSET Object /\ o \in S
    BY LineageHasParents
  <2>2. HasParents(S)
    BY <1>1, LineageHasParents DEF HasParents
  <2> HIDE DEF S
  <2>3. Lineage[o] \subseteq S
    BY <2>1, <2>2, LineageIsSmallest
  <2> QED BY <2>3 DEF S
<1>4. \A b \in ends(o) : ends(o) = {b}
  BY <1>3, LineageOfBuffer
<1>5. PICK b \in Value : b \in Lineage[o]
  BY <1>2
<1>6. Root[o] = CHOOSE x \in Value : x \in Lineage[o]
  BY DEF Root
<1>7. Root[o] \in Value /\ Root[o] \in Lineage[o]
  BY <1>5, <1>6
<1> QED BY <1>4, <1>7

(* The parents of a view have its root. *)
LEMMA RootOfLineage ==
  ASSUME NEW o \in Object, NEW x \in Lineage[o]
  PROVE  x \in Object /\ Root[x] = Root[o] /\ Lineage[x] \subseteq Lineage[o]
PROOF
<1>1. x \in Object /\ Lineage[x] \subseteq Lineage[o]
  BY LineageHasParents, LineageIsSmallest
<1> QED BY <1>1, RootInLineage
-----------------------------------------------------------------------------
(***************************************************************************)
(* The inductive invariant.                                                 *)
(***************************************************************************)
Adds == {"add", "addAgain", "defragOut", "defragIn"}

Step == {"fetch", "freeSpace", "swapIn", "pinAll"} \cup Adds \cup Stopped

Traced == {"alloc", "dealloc"} \X Value

Values == UNION {[1 .. n -> Object] : n \in 0 .. MaxOperands}

TypeInv ==
  /\ virtualObjects \subseteq Object /\ deallocated \subseteq Value
  /\ swappedIn \subseteq Object /\ swapCopy \subseteq Value
  /\ moves \in [Value -> Nat] /\ derivedFrom \in [Alias -> Nat]
  /\ DOMAIN allocations \subseteq Value /\ IsFiniteSet(DOMAIN allocations)
  /\ lastUsed \in Seq(Value)
  /\ pinCount \in [Object -> Nat]
  /\ IsFiniteSet(DOMAIN invocationToVirtual)
  /\ \A n \in DOMAIN invocationToVirtual : invocationToVirtual[n] \in Values
  /\ pc \in Step
  /\ op.operands \in Values /\ toSwapIn \subseteq Range(op.operands)
  /\ toMove \in Seq(Value) /\ idx \in Nat \ {0}
  /\ ir \in Seq(Traced) /\ calls \in Seq(Traced)

(* What the current operation uses is live, what it defines is not yet      *)
(* there.                                                                   *)
OperationInv ==
  /\ pc # "fetch" => Range(op.operands) \subseteq Live
  /\ op.results = << >> \/ \E b \in Value : op.results = <<b>>
  /\ pc \in {"freeSpace", "swapIn"} \cup Adds /\ op.results # << >> =>
       Head(op.results) \notin virtualObjects
  /\ pc # "fetch" /\ op.kind = "start" => op.invocation \notin DOMAIN invocationToVirtual
  /\ pc # "fetch" /\ op.kind = "wait" => op.invocation \in DOMAIN invocationToVirtual
  /\ pc = "pinAll" => toSwapIn = {}
  /\ pc \in Adds => \/ adding \in toSwapIn
                    \/ adding \in Value \ virtualObjects /\ toSwapIn = {}

(* A view is live only if its parents are; only what was defined is         *)
(* deallocated or swapped in.                                               *)
ViewInv ==
  /\ \A o \in virtualObjects : Lineage[o] \subseteq virtualObjects
  /\ swappedIn \cup deallocated \subseteq virtualObjects

(* A buffer is swapped in exactly if the pool has it, and otherwise has its *)
(* contents in XRAM; the buffer for which room is being made is nowhere.    *)
HomeInv ==
  /\ \A b \in Value : b \in DOMAIN allocations <=> b \in swappedIn \cap Live
  /\ swapCopy \subseteq Live
  /\ \A b \in Live \cap Value :
       \/ pc \in Stopped \/ (pc \in Adds /\ b = Root[adding])
       \/ b \in DOMAIN allocations <=> b \notin swapCopy
  /\ pc \in Adds => Root[adding] \notin DOMAIN allocations \cup swapCopy
  /\ pc \in {"defragOut", "defragIn"} =>
       Range(toMove) \subseteq Live \ (pinnedBuffers \cup {Root[adding]})

(* The order of eviction has every buffer of the pool once.                 *)
EvictionInv ==
  /\ Range(lastUsed) = DOMAIN allocations
  /\ \A m, n \in DOMAIN lastUsed : lastUsed[m] = lastUsed[n] => m = n

(* Every pin belongs to an invocation in flight, or is held while space is  *)
(* freed.                                                                   *)
PinInv ==
  /\ pc \notin Stopped => \A o \in Object :
       pinCount[o] = Cardinality(UsesInFlight(o)) +
         (IF pc = "freeSpace"
            THEN PinsOf(op.operands, {n \in DOMAIN op.operands : op.operands[n] \notin toSwapIn}, o)
            ELSE 0)
  /\ pinnedBuffers = {b \in Value : pinCount[b] > 0}

(* Buffers of invocations in flight are in LRAM.                            *)
InFlightInv ==
  /\ InFlight \subseteq DOMAIN allocations
  /\ \A n \in DOMAIN invocationToVirtual : Range(invocationToVirtual[n]) \subseteq Live

(* The IR lags behind the pool only by the alloc that is already in the IR  *)
(* when room is made for a swap-in.                                         *)
TraceInv ==
  pc \notin Stopped =>
    ir = IF pc \in Adds /\ adding \in toSwapIn THEN Append(calls, <<"alloc", Root[adding]>>)
                                               ELSE calls

VMInv ==
  /\ TypeInv /\ OperationInv /\ ViewInv /\ HomeInv /\ EvictionInv
  /\ AliasesFollowTheirRoot /\ PinInv /\ InFlightInv /\ TraceInv
-----------------------------------------------------------------------------
(* The values of an operation, and its liveness.                            *)
LEMMA Operands1 ==
  ASSUME NEW s \in Values
  PROVE  /\ DOMAIN s \subseteq 1 .. MaxOperands /\ IsFiniteSet(DOMAIN s)
         /\ \A n \in DOMAIN s : s[n] \in Object /\ s[n] \in Range(s)
         /\ Range(s) \subseteq Object
PROOF
<1>1. PICK n \in 0 .. MaxOperands : s \in [1 .. n -> Object]
  BY DEF Values
<1>2. n \in Nat /\ DOMAIN s = 1 .. n /\ MaxOperands \in Nat
  BY <1>1, VMAssumption
<1>3. IsFiniteSet(1 .. n)
  BY <1>2, FS_Interval
<1> QED BY <1>1, <1>2, <1>3 DEF Range

LEMMA RootIsLive ==
  ASSUME TypeInv, ViewInv, NEW o \in Live
  PROVE  o \in Object /\ Root[o] \in Live \cap Value /\ Root[Root[o]] = Root[o]
PROOF
<1>1. o \in Object /\ o \in virtualObjects /\ Root[o] \notin deallocated
  BY DEF Live, TypeInv
<1>2. Root[o] \in Value /\ Root[o] \in Lineage[o]
  BY <1>1, RootInLineage
<1>3. Root[o] \in virtualObjects /\ Root[Root[o]] = Root[o] /\ Root[o] \in Object
  BY <1>1, <1>2, LineageOfBuffer DEF ViewInv, Object
<1> QED BY <1>1, <1>2, <1>3 DEF Live

LEMMA LiveBuffers ==
  ASSUME TypeInv
  PROVE  /\ \A b \in Value : b \in Live <=> b \in virtualObjects /\ b \notin deallocated
         /\ Live \subseteq Object
PROOF
  BY LineageOfBuffer DEF Live, Object

(* What does not depend on where the pass is. *)
LEMMA SameBuffers ==
  ASSUME VMInv, UNCHANGED <<poolVars, objVars, lastUsed, pinVars>>
  PROVE  /\ Live' = Live /\ ViewInv' /\ EvictionInv' /\ AliasesFollowTheirRoot'
         /\ InFlightInv' /\ InFlight' = InFlight
         /\ \A o : UsesInFlight(o)' = UsesInFlight(o)
PROOF
<1>1. UNCHANGED <<used, allocations, usedSizeWords, virtualObjects, deallocated, swappedIn,
                  swapCopy, moves, derivedFrom, lastUsed, pinCount, pinnedBuffers,
                  invocationToVirtual>>
  BY DEF poolVars, objVars, pinVars
<1>2. Live' = Live /\ InFlight' = InFlight /\ \A o : UsesInFlight(o)' = UsesInFlight(o)
  BY <1>1 DEF Live, InFlight, UsesInFlight
<1>3. ViewInv' /\ EvictionInv' /\ AliasesFollowTheirRoot' /\ InFlightInv'
  BY <1>1, <1>2 DEF VMInv, ViewInv, EvictionInv, AliasesFollowTheirRoot, InFlightInv
<1> QED BY <1>2, <1>3

(* Steps that look at the memory, and choose what happens next.             *)
LEMMA ControlStep ==
  ASSUME VMInv,
         \/ FreeSpaceSkip \/ FreeSpaceFails \/ (\E o \in Object : SwapInAsserts(o))
         \/ SwapInDone \/ AddAsserts \/ Defragment \/ DefragmentDone \/ AddFails
         \/ ReplaceAsserts \/ (DefragmentOut /\ idx > Len(toMove))
  PROVE  VMInv'
PROOF
<1>1. /\ TypeInv /\ OperationInv /\ ViewInv /\ HomeInv /\ PinInv /\ TraceInv
      /\ Len(toMove) \in Nat
  BY DEF VMInv, TypeInv
<1>2. /\ UNCHANGED <<poolVars, objVars, lastUsed, pinVars, op, toSwapIn, traceVars>>
      /\ idx' \in {1, idx, idx + 1} /\ pc # "fetch"
      /\ \/ pc' \in Stopped /\ UNCHANGED <<adding, toMove>>
         \/ pc = "freeSpace" /\ UNCHANGED <<pc, adding, toMove>>
         \/ pc = "swapIn" /\ pc' = "pinAll" /\ toSwapIn = {} /\ UNCHANGED <<adding, toMove>>
         \/ /\ pc = "swapIn" /\ pc' = "add" /\ toSwapIn = {}
            /\ op.results # << >> /\ adding' = Head(op.results) /\ UNCHANGED toMove
         \/ /\ pc = "add" /\ pc' = "defragOut" /\ UNCHANGED adding
            /\ toMove' \in SetToSeqs(DOMAIN allocations \ pinnedBuffers)
         \/ /\ <<pc, pc'>> \in {<<"defragOut", "defragIn">>, <<"defragIn", "addAgain">>}
            /\ UNCHANGED <<adding, toMove>>
  <2>1. CASE Defragment
    BY <2>1 DEF Defragment, AllocateFails, opVars
  <2>2. CASE AddFails
    BY <2>2 DEF AddFails, AllocateFails, opVars, Stopped
  <2>3. CASE DefragmentOut /\ idx > Len(toMove)
    BY <1>1, <2>3 DEF DefragmentOut, opVars, TypeInv
  <2>4. CASE SwapInDone
    BY <2>4 DEF SwapInDone, opVars
  <2>5. CASE \/ FreeSpaceSkip \/ FreeSpaceFails \/ (\E o \in Object : SwapInAsserts(o))
             \/ AddAsserts \/ DefragmentDone \/ ReplaceAsserts
    BY <2>5 DEF FreeSpaceSkip, FreeSpaceFails, SwapInAsserts, AddAsserts, DefragmentDone,
                ReplaceAsserts, opVars, Stopped
  <2> QED BY <2>1, <2>2, <2>3, <2>4, <2>5
<1>3. /\ UNCHANGED <<used, allocations, usedSizeWords, virtualObjects, deallocated, swappedIn,
                     swapCopy, moves, derivedFrom, lastUsed, pinCount, pinnedBuffers,
                     invocationToVirtual, op, toSwapIn, ir, calls>>
      /\ Live' = Live /\ ViewInv' /\ EvictionInv' /\ AliasesFollowTheirRoot' /\ InFlightInv'
      /\ \A o : UsesInFlight(o)' = UsesInFlight(o)
  BY <1>2, SameBuffers DEF poolVars, objVars, pinVars, traceVars
<1>4. pc = "add" /\ pc' = "defragOut" =>
        toMove' \in Seq(Value) /\ Range(toMove') \subseteq DOMAIN allocations \ pinnedBuffers
  <2> DEFINE S == DOMAIN allocations \ pinnedBuffers
  <2>1. ASSUME NEW s \in SetToSeqs(S)
        PROVE  s \in Seq(Value) /\ Range(s) \subseteq S
    <3>1. Cardinality(S) \in Nat /\ S \subseteq Value
      BY <1>1, FS_Subset, FS_CardinalityType DEF TypeInv
    <3>2. s \in [1 .. Cardinality(S) -> S]
      BY DEF SetToSeqs
    <3>3. s \in [1 .. Cardinality(S) -> Value]
      BY <3>1, <3>2
    <3>4. s \in Seq(Value)
      BY <3>1, <3>3, SeqDef
    <3>5. Range(s) \subseteq S
      BY <3>2 DEF Range
    <3> QED BY <3>4, <3>5
  <2> QED BY <1>2, <2>1 DEF Stopped
<1>5. TypeInv'
  <2>1. toMove' \in Seq(Value)
    BY <1>1, <1>2, <1>4 DEF TypeInv, Stopped
  <2>2. idx' \in Nat \ {0} /\ pc' \in Step
    BY <1>1, <1>2 DEF TypeInv, Step, Adds
  <2> QED BY <1>1, <1>3, <2>1, <2>2 DEF TypeInv
<1>6. OperationInv'
  BY <1>1, <1>2, <1>3 DEF OperationInv, Stopped, Adds
<1>7. HomeInv'
  <2>1. pc' \in Adds =>
          \/ pc \in Adds /\ UNCHANGED adding
          \/ adding' \in Value \ virtualObjects /\ Root[adding'] = adding'
    BY <1>1, <1>2, LineageOfBuffer DEF OperationInv, Stopped, Adds
  <2>2. pc' \in Adds => Root[adding'] \notin DOMAIN allocations \cup swapCopy
    BY <1>1, <2>1, LiveBuffers DEF HomeInv, TypeInv
  <2>3. pc' \in {"defragOut", "defragIn"} =>
          Range(toMove') \subseteq Live \ (pinnedBuffers \cup {Root[adding']})
    BY <1>1, <1>2, <1>4, <2>2 DEF HomeInv, TypeInv, Stopped, Adds
  <2>4. \A b \in Live \cap Value :
          \/ pc' \in Stopped \/ (pc' \in Adds /\ b = Root[adding'])
          \/ b \in DOMAIN allocations <=> b \notin swapCopy
    BY <1>1, <1>2 DEF HomeInv, Stopped, Adds
  <2> QED BY <1>1, <1>3, <2>2, <2>3, <2>4 DEF HomeInv
<1>8. PinInv'
  BY <1>1, <1>2, <1>3 DEF PinInv, PinsOf, Stopped
<1>9. TraceInv'
  BY <1>1, <1>2, <1>3 DEF TraceInv, OperationInv, Stopped, Adds
<1> QED BY <1>3, <1>5, <1>6, <1>7, <1>8, <1>9 DEF VMInv
-----------------------------------------------------------------------------
(* Sequences: the allocs and deallocs in the IR, and the order of eviction. *)
LEMMA FrontOfAppend ==
  ASSUME NEW S, NEW s \in Seq(S), NEW x \in S
  PROVE  Front(Append(s, x)) = s /\ Last(Append(s, x)) = x
PROOF
<1>1. /\ Append(s, x) \in Seq(S) /\ Len(Append(s, x)) = Len(s) + 1
      /\ \A i \in 1 .. Len(s) : Append(s, x)[i] = s[i]
  BY AppendProperties
<1> DEFINE f == SubSeq(Append(s, x), 1, Len(s))
<1>2. f \in Seq(S) /\ Len(f) = Len(s) /\ \A i \in 1 .. Len(s) : f[i] = s[i]
  BY <1>1
<1>3. f = s
  BY <1>2, SeqEqual
<1> QED BY <1>1, <1>3, AppendProperties DEF Front, Last

LEMMA RemoveAtProperties ==
  ASSUME NEW S, NEW s \in Seq(S), NEW i \in 1 .. Len(s)
  PROVE  /\ RemoveAt(s, i) \in Seq(S) /\ Len(RemoveAt(s, i)) = Len(s) - 1
         /\ \A j \in 1 .. i - 1 : RemoveAt(s, i)[j] = s[j]
         /\ \A j \in i .. Len(s) - 1 : RemoveAt(s, i)[j] = s[j + 1]
PROOF
<1> DEFINE a == SubSeq(s, 1, i - 1)
           b == SubSeq(s, i + 1, Len(s))
<1>1. a \in Seq(S) /\ Len(a) = i - 1 /\ \A j \in 1 .. i - 1 : a[j] = s[j]
  OBVIOUS
<1>2. b \in Seq(S) /\ Len(b) = Len(s) - i /\ \A j \in 1 .. Len(s) - i : b[j] = s[i + j]
  OBVIOUS
<1>3. RemoveAt(s, i) = a \o b
  BY DEF RemoveAt
<1> HIDE DEF a, b
<1>4. /\ a \o b \in Seq(S) /\ Len(a \o b) = Len(a) + Len(b)
      /\ \A j \in 1 .. Len(a) + Len(b) :
           (a \o b)[j] = IF j <= Len(a) THEN a[j] ELSE b[j - Len(a)]
  BY <1>1, <1>2, ConcatProperties
<1>5. ASSUME NEW j \in 1 .. i - 1
      PROVE  (a \o b)[j] = s[j]
  BY <1>1, <1>2, <1>4
<1>6. ASSUME NEW j \in i .. Len(s) - 1
      PROVE  (a \o b)[j] = s[j + 1]
  BY <1>1, <1>2, <1>4
<1> QED BY <1>1, <1>2, <1>3, <1>4, <1>5, <1>6

(* SetVector::remove and insert. *)
LEMMA RemovedProperties ==
  ASSUME NEW s \in Seq(Value), NEW b \in Value,
         \A m, n \in DOMAIN s : s[m] = s[n] => m = n
  PROVE  /\ Removed(s, b) \in Seq(Value)
         /\ Range(Removed(s, b)) = Range(s) \ {b}
         /\ \A m, n \in DOMAIN Removed(s, b) : Removed(s, b)[m] = Removed(s, b)[n] => m = n
PROOF
<1>1. CASE ~ \E n \in DOMAIN s : s[n] = b
  BY <1>1 DEF Removed, Range
<1>2. CASE \E n \in DOMAIN s : s[n] = b
  <2> DEFINE i == CHOOSE n \in DOMAIN s : s[n] = b
             r == RemoveAt(s, i)
  <2>1. i \in 1 .. Len(s) /\ s[i] = b /\ Len(s) \in Nat /\ DOMAIN s = 1 .. Len(s)
    BY <1>2
  <2>2. Removed(s, b) = r
    BY <1>2 DEF Removed
  <2> HIDE DEF i
  <2>3. /\ r \in Seq(Value) /\ Len(r) = Len(s) - 1
        /\ \A j \in 1 .. i - 1 : r[j] = s[j]
        /\ \A j \in i .. Len(s) - 1 : r[j] = s[j + 1]
    BY <2>1, RemoveAtProperties
  <2> HIDE DEF r
  <2>4. DOMAIN r = 1 .. Len(s) - 1
    BY <2>3
  <2> DEFINE at(j) == IF j < i THEN j ELSE j + 1
  <2>0. ASSUME NEW j \in DOMAIN r
        PROVE  j \in Int /\ at(j) \in DOMAIN s /\ r[j] = s[at(j)] /\ at(j) # i
    <3>1. CASE j < i
      BY <2>1, <2>3, <2>4, <3>1
    <3>2. CASE j >= i
      <4>1. j + 1 \in DOMAIN s /\ r[j] = s[j + 1] /\ j + 1 # i /\ at(j) = j + 1
        BY <2>1, <2>3, <2>4, <3>2
      <4> QED BY <2>4, <4>1
    <3> QED BY <2>1, <2>4, <3>1, <3>2
  <2>5. ASSUME NEW m \in DOMAIN r, NEW n \in DOMAIN r, r[m] = r[n]
        PROVE  m = n
    <3>1. m \in Int /\ at(m) \in DOMAIN s /\ r[m] = s[at(m)]
      BY <2>0
    <3>2. n \in Int /\ at(n) \in DOMAIN s /\ r[n] = s[at(n)]
      BY <2>0
    <3>3. at(m) = at(n)
      BY <2>5, <3>1, <3>2
    <3> QED BY <2>1, <3>1, <3>2, <3>3
  <2>6. ASSUME NEW j \in DOMAIN r
        PROVE  r[j] \in Range(s) \ {b}
    <3>1. at(j) \in DOMAIN s /\ r[j] = s[at(j)] /\ at(j) # i
      BY <2>0
    <3> QED BY <2>1, <3>1 DEF Range
  <2>7. ASSUME NEW m \in DOMAIN s, s[m] # b
        PROVE  s[m] \in Range(r)
    <3>1. CASE m < i
      <4>1. m \in DOMAIN r /\ r[m] = s[m]
        BY <2>1, <2>3, <2>4, <3>1
      <4> QED BY <4>1 DEF Range
    <3>2. CASE m > i
      <4>1. m - 1 \in DOMAIN r /\ r[m - 1] = s[m]
        BY <2>1, <2>3, <2>4, <3>2
      <4> QED BY <4>1 DEF Range
    <3> QED BY <2>1, <2>7, <3>1, <3>2
  <2>8. Range(r) = Range(s) \ {b}
    BY <2>6, <2>7 DEF Range
  <2> QED BY <2>2, <2>3, <2>5, <2>8
<1> QED BY <1>1, <1>2

LEMMA AppendedProperties ==
  ASSUME NEW s \in Seq(Value), NEW b \in Value, b \notin Range(s),
         \A m, n \in DOMAIN s : s[m] = s[n] => m = n
  PROVE  /\ Append(s, b) \in Seq(Value)
         /\ Range(Append(s, b)) = Range(s) \cup {b}
         /\ \A m, n \in DOMAIN Append(s, b) : Append(s, b)[m] = Append(s, b)[n] => m = n
PROOF
<1>1. /\ Append(s, b) \in Seq(Value) /\ DOMAIN Append(s, b) = 1 .. Len(s) + 1
      /\ DOMAIN s = 1 .. Len(s) /\ Len(s) \in Nat
      /\ \A i \in 1 .. Len(s) : Append(s, b)[i] = s[i] /\ s[i] # b
      /\ Append(s, b)[Len(s) + 1] = b
  BY AppendProperties DEF Range
<1>2. \A m, n \in DOMAIN Append(s, b) : Append(s, b)[m] = Append(s, b)[n] => m = n
  BY <1>1
<1>3. Range(Append(s, b)) = Range(s) \cup {b}
  BY <1>1 DEF Range
<1> QED BY <1>1, <1>2, <1>3
-----------------------------------------------------------------------------
(* The pool. *)
LEMMA FreedBuffer ==
  ASSUME NEW b \in Value, Free(b)
  PROVE  /\ DOMAIN allocations' = DOMAIN allocations \ {b}
         /\ \A v \in DOMAIN allocations \ {b} : allocations'[v] = allocations[v]
PROOF
  BY DEF Free

LEMMA AllocatedBuffer ==
  ASSUME NEW b \in Value, Allocate(b)
  PROVE  /\ b \notin DOMAIN allocations /\ DOMAIN allocations' = DOMAIN allocations \cup {b}
         /\ \A v \in DOMAIN allocations : allocations'[v] = allocations[v]
PROOF
  BY DEF Allocate

(* The pins are finitely many. *)
LEMMA PinsAreFinite ==
  ASSUME TypeInv, NEW o \in Object
  PROVE  /\ IsFiniteSet(UsesInFlight(o)) /\ Cardinality(UsesInFlight(o)) \in Nat
         /\ \A s \in Values : \A which \in SUBSET (DOMAIN s) :
              PinsOf(s, which, o) \in Nat
PROOF
<1>1. IsFiniteSet(1 .. MaxOperands)
  BY VMAssumption, FS_Interval
<1>2. IsFiniteSet((DOMAIN invocationToVirtual) \X (1 .. MaxOperands))
  BY <1>1, FS_Product DEF TypeInv
<1>3. IsFiniteSet(UsesInFlight(o)) /\ Cardinality(UsesInFlight(o)) \in Nat
  BY <1>2, FS_Subset, FS_CardinalityType DEF UsesInFlight
<1>4. ASSUME NEW s \in Values, NEW which \in SUBSET (DOMAIN s)
      PROVE  PinsOf(s, which, o) \in Nat
  <2> DEFINE pins == {k \in which : o \in Lineage[s[k]]}
  <2>1. IsFiniteSet(DOMAIN s)
    BY Operands1
  <2>2. IsFiniteSet(pins)
    BY <2>1, FS_Subset
  <2>3. Cardinality(pins) \in Nat
    BY <2>2, FS_CardinalityType
  <2> QED BY <2>3 DEF PinsOf
<1> QED BY <1>3, <1>4

(* A buffer that an invocation in flight uses is pinned. *)
LEMMA InFlightIsPinned ==
  ASSUME VMInv, pc \notin Stopped
  PROVE  InFlight \subseteq pinnedBuffers
PROOF
<1>1. TypeInv /\ PinInv
  BY DEF VMInv
<1> SUFFICES ASSUME NEW b \in InFlight
             PROVE  b \in pinnedBuffers
  OBVIOUS
<1>2. PICK n \in DOMAIN invocationToVirtual :
        \E o \in Range(invocationToVirtual[n]) : b = Root[o]
  BY DEF InFlight
<1> DEFINE s == invocationToVirtual[n]
<1>3. s \in Values
  BY <1>1 DEF TypeInv
<1>4. PICK k \in DOMAIN s : b = Root[s[k]]
  BY <1>2 DEF Range
<1>5. s[k] \in Object /\ k \in 1 .. MaxOperands
  BY <1>3, <1>4, Operands1
<1>6. b \in Value /\ b \in Lineage[s[k]]
  BY <1>4, <1>5, RootInLineage
<1>7. <<n, k>> \in UsesInFlight(b)
  BY <1>4, <1>5, <1>6 DEF UsesInFlight
<1>8. b \in Object
  BY <1>6 DEF Object
<1>9. Cardinality(UsesInFlight(b)) # 0
  BY <1>1, <1>7, <1>8, PinsAreFinite, FS_EmptySet
<1> DEFINE held == IF pc = "freeSpace"
              THEN PinsOf(op.operands, {i \in DOMAIN op.operands : op.operands[i] \notin toSwapIn}, b)
              ELSE 0
<1>10. held \in Nat
  <2>1. op.operands \in Values
    BY <1>1 DEF TypeInv
  <2> QED BY <1>1, <1>8, <2>1, PinsAreFinite
<1>11. pinCount[b] = Cardinality(UsesInFlight(b)) + held
  BY <1>1, <1>8 DEF PinInv
<1>12. Cardinality(UsesInFlight(b)) \in Nat
  BY <1>1, <1>8, PinsAreFinite
<1> HIDE DEF held
<1>13. pinCount[b] > 0
  BY <1>9, <1>10, <1>11, <1>12
<1> QED BY <1>1, <1>6, <1>13 DEF PinInv
-----------------------------------------------------------------------------
(***************************************************************************)
(* Swapping out: freeSpace evicts a buffer, or defragmenting moves one out. *)
(***************************************************************************)
LEMMA SwapOutKeeps ==
  ASSUME VMInv, pc \in {"freeSpace", "defragOut"},
         NEW b \in Value, b \in Live, b \notin pinnedBuffers,
         pc = "defragOut" => b # Root[adding],
         NEW e \in Seq(Traced), SwapOut(b, e),
         pc = "freeSpace" => e = Append(calls, <<"dealloc", b>>),
         pc = "defragOut" /\ adding \in toSwapIn =>
           e = Append(Append(calls, <<"dealloc", b>>), <<"alloc", Root[adding]>>),
         pc = "defragOut" /\ adding \notin toSwapIn => e = Append(calls, <<"dealloc", b>>),
         UNCHANGED <<pinVars, pc, opVars>>, idx' \in {idx, idx + 1}
  PROVE  VMInv'
PROOF
<1>1. /\ TypeInv /\ OperationInv /\ ViewInv /\ HomeInv /\ EvictionInv
      /\ AliasesFollowTheirRoot /\ PinInv /\ InFlightInv
  BY DEF VMInv
<1>2. /\ UNCHANGED <<virtualObjects, deallocated, derivedFrom, pinCount, pinnedBuffers,
                     invocationToVirtual, pc, op, toSwapIn, adding, toMove>>
      /\ lastUsed' = Removed(lastUsed, b)
      /\ swappedIn' = (swappedIn \ {b}) \ Invalidated(b)
      /\ swapCopy' = swapCopy \cup {b}
      /\ moves' = [moves EXCEPT ![b] = @ + 1]
      /\ ir' = e /\ calls' = Append(calls, <<"dealloc", b>>)
      /\ DOMAIN allocations' = DOMAIN allocations \ {b}
  BY FreedBuffer DEF SwapOut, pinVars, opVars
<1>3. Live' = Live /\ InFlight' = InFlight /\ \A o : UsesInFlight(o)' = UsesInFlight(o)
  BY <1>2 DEF Live, InFlight, UsesInFlight
<1>4. b \notin InFlight
  BY InFlightIsPinned DEF Stopped
<1>5. Invalidated(b) \subseteq Alias /\ Root[b] = b /\ b \in Object
  BY LineageOfBuffer DEF Invalidated, Object
<1>6. /\ Removed(lastUsed, b) \in Seq(Value)
      /\ Range(Removed(lastUsed, b)) = Range(lastUsed) \ {b}
      /\ \A m, n \in DOMAIN Removed(lastUsed, b) :
           Removed(lastUsed, b)[m] = Removed(lastUsed, b)[n] => m = n
  BY <1>1, RemovedProperties DEF TypeInv, EvictionInv
<1>7. TypeInv'
  <2>1. IsFiniteSet(DOMAIN allocations') /\ DOMAIN allocations' \subseteq Value
    BY <1>1, <1>2, FS_Subset DEF TypeInv
  <2>2. moves' \in [Value -> Nat]
    BY <1>1, <1>2 DEF TypeInv
  <2>3. calls' \in Seq(Traced)
    BY <1>1, <1>2 DEF TypeInv, Traced
  <2>4. idx' \in Nat \ {0}
    BY <1>1 DEF TypeInv
  <2>5. swappedIn' \subseteq Object /\ swapCopy' \subseteq Value
    BY <1>1, <1>2 DEF TypeInv
  <2> QED BY <1>1, <1>2, <1>6, <2>1, <2>2, <2>3, <2>4, <2>5 DEF TypeInv
<1>8. OperationInv'
  BY <1>1, <1>2, <1>3 DEF OperationInv
<1>9. ViewInv'
  BY <1>1, <1>2 DEF ViewInv
<1>10. HomeInv'
  <2>1. \A v \in Value : v \in DOMAIN allocations' <=> v \in swappedIn' \cap Live
    BY <1>1, <1>2, <1>5, VMAssumption DEF HomeInv
  <2>2. swapCopy' \subseteq Live
    BY <1>1, <1>2 DEF HomeInv
  <2>3. \A v \in Live \cap Value :
          \/ pc \in Stopped \/ (pc \in Adds /\ v = Root[adding])
          \/ v \in DOMAIN allocations' <=> v \notin swapCopy'
    BY <1>1, <1>2 DEF HomeInv
  <2>4. pc \in Adds => Root[adding] \notin DOMAIN allocations' \cup swapCopy'
    BY <1>1, <1>2 DEF HomeInv, Adds
  <2> QED BY <1>1, <1>2, <1>3, <2>1, <2>2, <2>3, <2>4 DEF HomeInv
<1>11. EvictionInv'
  BY <1>1, <1>2, <1>6 DEF EvictionInv
<1>12. AliasesFollowTheirRoot'
  <2> SUFFICES ASSUME NEW a \in Alias \cap swappedIn' \cap Live
               PROVE  Lineage[a] \subseteq swappedIn' /\ derivedFrom[a] = moves'[Root[a]]
    BY <1>2, <1>3 DEF AliasesFollowTheirRoot
  <2>1. a \in Alias \cap swappedIn \cap Live /\ a \in Object /\ Root[a] # b
    BY <1>2 DEF Invalidated, Object
  <2>2. Lineage[a] \subseteq swappedIn /\ derivedFrom[a] = moves[Root[a]]
    BY <1>1, <2>1 DEF AliasesFollowTheirRoot
  <2>3. \A x \in Lineage[a] : Root[x] # b
    BY <2>1, RootOfLineage
  <2>4. Lineage[a] \subseteq swappedIn'
    BY <1>2, <1>5, <2>2, <2>3 DEF Invalidated
  <2>5. moves'[Root[a]] = moves[Root[a]]
    BY <1>1, <1>2, <2>1, RootInLineage DEF TypeInv
  <2> QED BY <2>2, <2>4, <2>5
<1>13. PinInv'
  BY <1>1, <1>2, <1>3 DEF PinInv, PinsOf
<1>14. InFlightInv'
  BY <1>1, <1>2, <1>3, <1>4 DEF InFlightInv
<1>15. TraceInv'
  BY <1>1, <1>2 DEF TraceInv, Adds, Stopped
<1> QED BY <1>7, <1>8, <1>9, <1>10, <1>11, <1>12, <1>13, <1>14, <1>15 DEF VMInv

LEMMA BeforePendingIs ==
  ASSUME VMInv, pc \in {"defragOut", "defragIn"}, NEW x \in Traced
  PROVE  /\ adding \in toSwapIn =>
              BeforePending(<<x>>) = Append(Append(calls, x), <<"alloc", Root[adding]>>)
         /\ adding \notin toSwapIn => BeforePending(<<x>>) = Append(calls, x)
         /\ BeforePending(<<x>>) \in Seq(Traced)
PROOF
<1>1. TypeInv /\ TraceInv /\ pc \notin Stopped /\ pc \in Adds /\ calls \in Seq(Traced)
  BY DEF VMInv, TypeInv, Stopped, Adds
<1>2. CASE adding \in toSwapIn
  <2> DEFINE y == <<"alloc", Root[adding]>>
  <2>1. y \in Traced
    <3>1. op.operands \in Values /\ toSwapIn \subseteq Range(op.operands)
      BY <1>1 DEF TypeInv
    <3>2. adding \in Object
      BY <1>2, <3>1, Operands1
    <3> QED BY <3>2, RootInLineage DEF Traced
  <2>2. ir = Append(calls, y)
    BY <1>1, <1>2 DEF TraceInv
  <2>3. Front(ir) = calls /\ Last(ir) = y
    BY <1>1, <2>1, <2>2, FrontOfAppend
  <2> HIDE DEF y
  <2>4. BeforePending(<<x>>) = calls \o <<x>> \o <<y>>
    BY <1>2, <2>3 DEF BeforePending
  <2>5. calls \o <<x>> = Append(calls, x) /\ Append(calls, x) \in Seq(Traced)
    BY <1>1, AppendIsConcat
  <2>6. Append(calls, x) \o <<y>> = Append(Append(calls, x), y)
    BY <2>1, <2>5, AppendIsConcat
  <2>7. Append(Append(calls, x), y) \in Seq(Traced)
    BY <2>1, <2>5
  <2> QED BY <1>2, <2>4, <2>5, <2>6, <2>7 DEF y
<1>3. CASE adding \notin toSwapIn
  <2>1. BeforePending(<<x>>) = calls \o <<x>>
    BY <1>1, <1>3 DEF BeforePending, TraceInv
  <2>2. calls \o <<x>> = Append(calls, x) /\ Append(calls, x) \in Seq(Traced)
    BY <1>1, AppendIsConcat
  <2> QED BY <1>3, <2>1, <2>2
<1> QED BY <1>2, <1>3

LEMMA SwapOutStep ==
  ASSUME VMInv, FreeSpaceEvict \/ (DefragmentOut /\ idx <= Len(toMove))
  PROVE  VMInv'
PROOF
<1>1. /\ TypeInv /\ OperationInv /\ HomeInv /\ EvictionInv /\ TraceInv
      /\ \A b \in Value : b \in Live <=> b \in virtualObjects /\ b \notin deallocated
  BY LiveBuffers DEF VMInv
<1>2. CASE FreeSpaceEvict
  <2> DEFINE b == lastUsed[idx]
             e == Append(ir, <<"dealloc", b>>)
  <2>1. /\ pc = "freeSpace" /\ idx \in DOMAIN lastUsed /\ b \notin pinnedBuffers
        /\ SwapOut(b, e) /\ UNCHANGED <<pinVars, pc, opVars, idx>>
    BY <1>1, <1>2 DEF FreeSpaceEvict, TypeInv
  <2>2. b \in Value /\ b \in Live
    <3>1. b \in Range(lastUsed)
      BY <2>1 DEF Range
    <3> QED BY <1>1, <3>1 DEF EvictionInv, HomeInv, TypeInv
  <2>3. <<"dealloc", b>> \in Traced
    BY <2>2 DEF Traced
  <2>4. e \in Seq(Traced) /\ e = Append(calls, <<"dealloc", b>>)
    BY <1>1, <2>1, <2>3 DEF TypeInv, TraceInv, Adds, Stopped
  <2> HIDE DEF b, e
  <2> QED BY <2>1, <2>2, <2>4, SwapOutKeeps
<1>3. CASE DefragmentOut /\ idx <= Len(toMove)
  <2> DEFINE b == toMove[idx]
             x == <<"dealloc", b>>
             e == BeforePending(<<x>>)
  <2>1. /\ pc = "defragOut" /\ idx \in DOMAIN toMove
        /\ SwapOut(b, e) /\ UNCHANGED <<pinVars, pc, opVars>> /\ idx' = idx + 1
    BY <1>1, <1>3 DEF DefragmentOut, TypeInv
  <2>2. b \in Value /\ b \in Live /\ b \notin pinnedBuffers /\ b # Root[adding]
    <3>1. b \in Range(toMove)
      BY <2>1 DEF Range
    <3> QED BY <1>1, <2>1, <3>1 DEF HomeInv, TypeInv
  <2>3. x \in Traced
    BY <2>2 DEF Traced
  <2>4. /\ e \in Seq(Traced)
        /\ adding \in toSwapIn => e = Append(Append(calls, x), <<"alloc", Root[adding]>>)
        /\ adding \notin toSwapIn => e = Append(calls, x)
    BY <2>1, <2>3, BeforePendingIs
  <2> HIDE DEF b, e
  <2> QED BY <2>1, <2>2, <2>4, SwapOutKeeps
<1> QED BY <1>2, <1>3
-----------------------------------------------------------------------------
(***************************************************************************)
(* Swapping in.                                                             *)
(***************************************************************************)
(* The physical aliases of o and its parents are created from the root's    *)
(* current physical value.                                                  *)
LEMMA DerivedFromRoot ==
  ASSUME VMInv, NEW o \in Object,
         swappedIn' = swappedIn \cup Lineage[o], derivedFrom' = Derive(o),
         UNCHANGED moves, Live' \cap Alias = Live \cap Alias
  PROVE  AliasesFollowTheirRoot' /\ derivedFrom' \in [Alias -> Nat]
PROOF
<1>1. TypeInv /\ AliasesFollowTheirRoot
  BY DEF VMInv
<1>2. Root[o] \in Value /\ moves[Root[o]] \in Nat
  BY <1>1, RootInLineage DEF TypeInv
<1>3. derivedFrom' \in [Alias -> Nat]
  BY <1>1, <1>2 DEF Derive, TypeInv
<1>4. ASSUME NEW a \in Alias, a \in swappedIn', a \in Live'
      PROVE  Lineage[a] \subseteq swappedIn' /\ derivedFrom'[a] = moves'[Root[a]]
  <2>1. a \in Live
    BY <1>4
  <2>2. derivedFrom'[a] = IF a \in Lineage[o] /\ (a = o \/ a \notin swappedIn)
                            THEN moves[Root[o]] ELSE derivedFrom[a]
    BY DEF Derive
  <2>3. a \in swappedIn => Lineage[a] \subseteq swappedIn /\ derivedFrom[a] = moves[Root[a]]
    BY <1>1, <2>1 DEF AliasesFollowTheirRoot
  <2>4. a \in Lineage[o] => Root[a] = Root[o] /\ Lineage[a] \subseteq Lineage[o]
    BY RootOfLineage
  <2> QED BY <1>4, <2>2, <2>3, <2>4
<1> QED BY <1>3, <1>4 DEF AliasesFollowTheirRoot

LEMMA AddStep ==
  ASSUME VMInv, Add
  PROVE  VMInv'
PROOF
<1> DEFINE b == Root[adding]
           x == <<"alloc", b>>
<1>1. /\ TypeInv /\ OperationInv /\ ViewInv /\ HomeInv /\ EvictionInv /\ PinInv
      /\ InFlightInv /\ TraceInv
      /\ \A v \in Value : v \in Live <=> v \in virtualObjects /\ v \notin deallocated
  BY LiveBuffers DEF VMInv
<1>2. /\ pc \in {"add", "addAgain"} /\ pc \in Adds /\ pc \notin Stopped /\ Adding = b
      /\ Allocate(b) /\ lastUsed' = Append(lastUsed, b) /\ calls' = Append(calls, x)
      /\ swappedIn' = swappedIn \cup Lineage[adding] /\ derivedFrom' = Derive(adding)
      /\ toSwapIn' = toSwapIn \ {adding} /\ virtualObjects' = virtualObjects \cup {adding}
      /\ UNCHANGED <<deallocated, swapCopy, moves, pinCount, pinnedBuffers,
                     invocationToVirtual, op, adding, toMove, idx>>
  BY DEF Add, Added, Adding, Adds, Stopped, pinVars
<1>3. /\ adding \in toSwapIn => pc' = "swapIn" /\ UNCHANGED ir
      /\ adding \notin toSwapIn => pc' = "pinAll" /\ ir' = Append(ir, x)
  BY <1>2 DEF Add
<1>4. \/ adding \in toSwapIn /\ adding \in Live /\ UNCHANGED virtualObjects
      \/ /\ adding \notin toSwapIn /\ toSwapIn = {} /\ b = adding
         /\ adding \in Value \ virtualObjects
  <2>1. adding \in toSwapIn => adding \in Live /\ adding \in virtualObjects
    BY <1>1, <1>2 DEF TypeInv, OperationInv, Live, Adds
  <2> QED BY <1>1, <1>2, <2>1, LineageOfBuffer DEF OperationInv
<1>5. /\ adding \in Object /\ b \in Value /\ Lineage[adding] \cap Value = {b}
      /\ Root[b] = b /\ b \notin deallocated
  <2>1. adding \in Object
    BY <1>1, <1>4, LiveBuffers DEF Object
  <2>2. b \in Value /\ Lineage[adding] \cap Value = {b} /\ Root[b] = b
    BY <2>1, RootInLineage, LineageOfBuffer
  <2>3. b \notin deallocated
    BY <1>1, <1>4, RootIsLive DEF ViewInv, Live
  <2> QED BY <2>1, <2>2, <2>3
<1>6. /\ Live' = Live \cup {adding} /\ Live' \cap Alias = Live \cap Alias
      /\ b \in Live' /\ Live' \cap Value = (Live \cap Value) \cup {b}
  <2>1. Live' = Live \cup {adding}
    BY <1>2, <1>4, <1>5 DEF Live
  <2>2. adding \in Live => b \in Live
    BY <1>1, RootIsLive
  <2> QED BY <1>4, <1>5, <2>1, <2>2, VMAssumption
<1>7. DOMAIN allocations' = DOMAIN allocations \cup {b} /\ b \notin DOMAIN allocations
  BY <1>2, <1>5, AllocatedBuffer
<1>8. InFlight' = InFlight /\ \A o : UsesInFlight(o)' = UsesInFlight(o)
  BY <1>2 DEF InFlight, UsesInFlight
<1>9. AliasesFollowTheirRoot' /\ derivedFrom' \in [Alias -> Nat]
  BY <1>2, <1>5, <1>6, DerivedFromRoot
<1>10. EvictionInv' /\ lastUsed' \in Seq(Value)
  <2>1. lastUsed \in Seq(Value) /\ b \notin Range(lastUsed)
    BY <1>1, <1>7 DEF TypeInv, EvictionInv
  <2>2. /\ Append(lastUsed, b) \in Seq(Value)
        /\ Range(Append(lastUsed, b)) = Range(lastUsed) \cup {b}
        /\ \A m, n \in DOMAIN Append(lastUsed, b) :
             Append(lastUsed, b)[m] = Append(lastUsed, b)[n] => m = n
    BY <1>1, <1>5, <2>1, AppendedProperties DEF EvictionInv
  <2> QED BY <1>1, <1>2, <1>7, <2>2 DEF EvictionInv
<1>11. TypeInv'
  <2>1. x \in Traced
    BY <1>5 DEF Traced
  <2>2. calls' \in Seq(Traced) /\ ir' \in Seq(Traced)
    <3>1. Append(ir, x) \in Seq(Traced) /\ Append(calls, x) \in Seq(Traced)
      <4> HIDE DEF x
      <4> QED BY <1>1, <2>1 DEF TypeInv
    <3>2. ir' = ir \/ ir' = Append(ir, x)
      BY <1>3
    <3> HIDE DEF x
    <3> QED BY <1>1, <1>2, <3>1, <3>2 DEF TypeInv
  <2>3. IsFiniteSet(DOMAIN allocations')
    <3>1. IsFiniteSet(DOMAIN allocations)
      BY <1>1 DEF TypeInv
    <3>2. IsFiniteSet(DOMAIN allocations \cup {b})
      BY <3>1, FS_AddElement
    <3> QED BY <1>7, <3>2
  <2>4. Lineage[adding] \subseteq Object
    BY <1>5, LineageHasParents
  <2>5. pc' \in Step
    BY <1>3 DEF Step
  <2> QED BY <1>1, <1>2, <1>5, <1>7, <1>9, <1>10, <2>2, <2>3, <2>4, <2>5 DEF TypeInv
<1>12. OperationInv'
  BY <1>1, <1>2, <1>3, <1>4, <1>6 DEF OperationInv, Adds
<1>13. ViewInv'
  <2>1. Lineage[adding] \subseteq virtualObjects'
    BY <1>1, <1>2, <1>4, LineageOfBuffer DEF ViewInv, Live
  <2> QED BY <1>1, <1>2, <2>1 DEF ViewInv
<1>14. HomeInv'
  <2>1. \A v \in Value : v \in DOMAIN allocations' <=> v \in swappedIn' \cap Live'
    BY <1>1, <1>2, <1>5, <1>6, <1>7 DEF HomeInv
  <2>2. swapCopy \subseteq Live'
    BY <1>1, <1>6 DEF HomeInv
  <2>3. \A v \in Live' \cap Value : v \in DOMAIN allocations' <=> v \notin swapCopy
    BY <1>1, <1>2, <1>6, <1>7 DEF HomeInv
  <2> QED BY <1>2, <1>3, <2>1, <2>2, <2>3 DEF HomeInv, Adds
<1>15. PinInv'
  BY <1>1, <1>2, <1>3, <1>8 DEF PinInv, Adds, Stopped
<1>16. InFlightInv'
  BY <1>1, <1>2, <1>6, <1>7, <1>8 DEF InFlightInv
<1>17. TraceInv'
  BY <1>1, <1>2, <1>3 DEF TraceInv, Adds
<1> QED BY <1>9, <1>10, <1>11, <1>12, <1>13, <1>14, <1>15, <1>16, <1>17 DEF VMInv

(* Defragmenting puts a buffer back. *)
LEMMA DefragmentInStep ==
  ASSUME VMInv, DefragmentIn
  PROVE  VMInv'
PROOF
<1> DEFINE b == toMove[idx]
           x == <<"alloc", b>>
<1>1. /\ TypeInv /\ OperationInv /\ ViewInv /\ HomeInv /\ EvictionInv /\ PinInv
      /\ AliasesFollowTheirRoot /\ InFlightInv /\ TraceInv
      /\ \A v \in Value : v \in Live <=> v \in virtualObjects /\ v \notin deallocated
  BY LiveBuffers DEF VMInv
<1>2. /\ pc = "defragIn" /\ idx \in DOMAIN toMove
      /\ Allocate(b) /\ lastUsed' = Append(lastUsed, b) /\ calls' = Append(calls, x)
      /\ swappedIn' = swappedIn \cup {b} /\ swapCopy' = swapCopy \ {b}
      /\ ir' = BeforePending(<<x>>) /\ idx' = idx + 1
      /\ UNCHANGED <<virtualObjects, deallocated, moves, derivedFrom, pinCount, pinnedBuffers,
                     invocationToVirtual, pc, op, toSwapIn, adding, toMove>>
  BY <1>1 DEF DefragmentIn, Added, pinVars, opVars, TypeInv
<1>3. b \in Value /\ b \in Live /\ b # Root[adding] /\ Root[b] = b
  <2>1. b \in Range(toMove)
    BY <1>2 DEF Range
  <2> QED BY <1>1, <1>2, <2>1, LineageOfBuffer DEF HomeInv, TypeInv
<1>4. Live' = Live /\ InFlight' = InFlight /\ \A o : UsesInFlight(o)' = UsesInFlight(o)
  BY <1>2 DEF Live, InFlight, UsesInFlight
<1>5. DOMAIN allocations' = DOMAIN allocations \cup {b} /\ b \notin DOMAIN allocations
  BY <1>2, <1>3, AllocatedBuffer
<1>6. AliasesFollowTheirRoot'
  BY <1>1, <1>2, <1>3, <1>4, VMAssumption DEF AliasesFollowTheirRoot
<1>7. EvictionInv' /\ lastUsed' \in Seq(Value)
  <2>1. lastUsed \in Seq(Value) /\ b \notin Range(lastUsed)
    BY <1>1, <1>5 DEF TypeInv, EvictionInv
  <2>2. /\ Append(lastUsed, b) \in Seq(Value)
        /\ Range(Append(lastUsed, b)) = Range(lastUsed) \cup {b}
        /\ \A m, n \in DOMAIN Append(lastUsed, b) :
             Append(lastUsed, b)[m] = Append(lastUsed, b)[n] => m = n
    BY <1>1, <1>3, <2>1, AppendedProperties DEF EvictionInv
  <2> QED BY <1>1, <1>2, <1>5, <2>2 DEF EvictionInv
<1>8. /\ x \in Traced /\ ir' \in Seq(Traced)
      /\ adding \in toSwapIn => ir' = Append(Append(calls, x), <<"alloc", Root[adding]>>)
      /\ adding \notin toSwapIn => ir' = Append(calls, x)
  <2>1. x \in Traced
    BY <1>3 DEF Traced
  <2> HIDE DEF x
  <2> QED BY <1>2, <2>1, BeforePendingIs
<1>9. TypeInv'
  <2>1. calls' \in Seq(Traced)
    <3> HIDE DEF x
    <3> QED BY <1>1, <1>2, <1>8 DEF TypeInv
  <2>2. IsFiniteSet(DOMAIN allocations')
    <3>1. IsFiniteSet(DOMAIN allocations)
      BY <1>1 DEF TypeInv
    <3>2. IsFiniteSet(DOMAIN allocations \cup {b})
      BY <3>1, FS_AddElement
    <3> QED BY <1>5, <3>2
  <2>3. idx' \in Nat \ {0}
    BY <1>1, <1>2 DEF TypeInv
  <2>4. swappedIn' \subseteq Object /\ swapCopy' \subseteq Value /\ DOMAIN allocations' \subseteq Value
    BY <1>1, <1>2, <1>3, <1>5 DEF TypeInv, Object
  <2> QED BY <1>1, <1>2, <1>7, <1>8, <2>1, <2>2, <2>3, <2>4 DEF TypeInv
<1>10. OperationInv'
  BY <1>1, <1>2, <1>4 DEF OperationInv
<1>11. ViewInv'
  BY <1>1, <1>2, <1>3 DEF ViewInv
<1>12. HomeInv'
  <2>1. \A v \in Value : v \in DOMAIN allocations' <=> v \in swappedIn' \cap Live
    BY <1>1, <1>2, <1>3, <1>5 DEF HomeInv
  <2>2. swapCopy' \subseteq Live
    BY <1>1, <1>2 DEF HomeInv
  <2>3. \A v \in Live \cap Value :
          (pc \in Adds /\ v = Root[adding]) \/ (v \in DOMAIN allocations' <=> v \notin swapCopy')
    BY <1>1, <1>2, <1>5 DEF HomeInv, Stopped
  <2>4. Root[adding] \notin DOMAIN allocations' \cup swapCopy'
    BY <1>1, <1>2, <1>3, <1>5 DEF HomeInv, Adds
  <2> QED BY <1>1, <1>2, <1>4, <2>1, <2>2, <2>3, <2>4 DEF HomeInv
<1>13. PinInv'
  BY <1>1, <1>2, <1>4 DEF PinInv, PinsOf
<1>14. InFlightInv'
  BY <1>1, <1>2, <1>4, <1>5 DEF InFlightInv
<1>15. TraceInv'
  BY <1>1, <1>2, <1>8 DEF TraceInv, Adds, Stopped
<1> QED BY <1>6, <1>7, <1>9, <1>10, <1>11, <1>12, <1>13, <1>14, <1>15 DEF VMInv

LEMMA SwapInAliasStep ==
  ASSUME VMInv, NEW o \in Object, SwapInAlias(o)
  PROVE  VMInv'
PROOF
<1>1. /\ TypeInv /\ OperationInv /\ ViewInv /\ HomeInv /\ EvictionInv /\ PinInv
      /\ InFlightInv /\ TraceInv
  BY DEF VMInv
<1>2. /\ pc = "swapIn" /\ o \in toSwapIn /\ o \in Alias /\ Root[o] \in swappedIn
      /\ swappedIn' = swappedIn \cup Lineage[o] /\ derivedFrom' = Derive(o)
      /\ toSwapIn' = toSwapIn \ {o}
      /\ UNCHANGED <<used, allocations, usedSizeWords, virtualObjects, deallocated, swapCopy,
                     moves, lastUsed, pinCount, pinnedBuffers, invocationToVirtual, pc, op,
                     adding, toMove, idx, ir, calls>>
  BY DEF SwapInAlias, poolVars, pinVars, traceVars
<1>3. Live' = Live /\ InFlight' = InFlight /\ \A x : UsesInFlight(x)' = UsesInFlight(x)
  BY <1>2 DEF Live, InFlight, UsesInFlight
<1>4. AliasesFollowTheirRoot' /\ derivedFrom' \in [Alias -> Nat]
  BY <1>2, <1>3, DerivedFromRoot
<1>5. /\ Lineage[o] \subseteq Object /\ Lineage[o] \subseteq virtualObjects
      /\ swappedIn' \cap Value = swappedIn \cap Value
  <2>1. o \in virtualObjects
    BY <1>1, <1>2 DEF OperationInv, TypeInv, Live
  <2> QED BY <1>1, <1>2, <2>1, LineageHasParents, RootInLineage DEF ViewInv
<1>6. TypeInv'
  BY <1>1, <1>2, <1>4, <1>5 DEF TypeInv
<1>7. OperationInv'
  BY <1>1, <1>2, <1>3 DEF OperationInv, Adds
<1>8. ViewInv'
  BY <1>1, <1>2, <1>5 DEF ViewInv
<1>9. HomeInv'
  <2>1. \A v \in Value : v \in DOMAIN allocations <=> v \in swappedIn' \cap Live
    BY <1>1, <1>5 DEF HomeInv
  <2> QED BY <1>1, <1>2, <1>3, <2>1 DEF HomeInv, Adds
<1>10. EvictionInv'
  BY <1>1, <1>2 DEF EvictionInv
<1>11. PinInv'
  BY <1>1, <1>2, <1>3 DEF PinInv
<1>12. InFlightInv'
  BY <1>1, <1>2, <1>3 DEF InFlightInv
<1>13. TraceInv'
  BY <1>1, <1>2 DEF TraceInv, Adds
<1> QED BY <1>4, <1>6, <1>7, <1>8, <1>9, <1>10, <1>11, <1>12, <1>13 DEF VMInv

LEMMA SwapInBufferStep ==
  ASSUME VMInv, NEW o \in Object, SwapInBuffer(o)
  PROVE  VMInv'
PROOF
<1> DEFINE b == Root[o]
           x == <<"alloc", b>>
<1>1. /\ TypeInv /\ OperationInv /\ ViewInv /\ HomeInv /\ EvictionInv /\ PinInv
      /\ AliasesFollowTheirRoot /\ InFlightInv /\ TraceInv
  BY DEF VMInv
<1>2. /\ pc = "swapIn" /\ o \in toSwapIn /\ b \notin swappedIn
      /\ ir' = Append(ir, x) /\ swapCopy' = swapCopy \ {b} /\ adding' = o /\ pc' = "add"
      /\ UNCHANGED <<used, allocations, usedSizeWords, virtualObjects, deallocated, swappedIn,
                     moves, derivedFrom, lastUsed, pinCount, pinnedBuffers,
                     invocationToVirtual, op, toSwapIn, toMove, idx, calls>>
  BY DEF SwapInBuffer, poolVars, pinVars
<1>3. Live' = Live /\ InFlight' = InFlight /\ \A v : UsesInFlight(v)' = UsesInFlight(v)
  BY <1>2 DEF Live, InFlight, UsesInFlight
<1>4. b \in Value
  BY RootInLineage
<1>5. TypeInv'
  <2>1. x \in Traced
    BY <1>4 DEF Traced
  <2> HIDE DEF x
  <2>2. ir' \in Seq(Traced)
    BY <1>1, <1>2, <2>1 DEF TypeInv
  <2> QED BY <1>1, <1>2, <2>2 DEF TypeInv, Step, Adds
<1>6. OperationInv'
  BY <1>1, <1>2, <1>3 DEF OperationInv, Adds
<1>7. ViewInv' /\ EvictionInv' /\ AliasesFollowTheirRoot' /\ InFlightInv'
  BY <1>1, <1>2, <1>3 DEF ViewInv, EvictionInv, AliasesFollowTheirRoot, InFlightInv
<1>8. HomeInv'
  <2>1. \A v \in Live \cap Value :
          v = b \/ (v \in DOMAIN allocations <=> v \notin swapCopy')
    BY <1>1, <1>2 DEF HomeInv, Adds, Stopped
  <2>2. b \notin DOMAIN allocations \cup swapCopy'
    BY <1>1, <1>2, <1>4 DEF HomeInv
  <2> QED BY <1>1, <1>2, <1>3, <2>1, <2>2 DEF HomeInv, Adds
<1>9. PinInv'
  BY <1>1, <1>2, <1>3 DEF PinInv, Stopped
<1>10. TraceInv'
  BY <1>1, <1>2 DEF TraceInv, Adds, Stopped
<1> QED BY <1>5, <1>6, <1>7, <1>8, <1>9, <1>10 DEF VMInv
-----------------------------------------------------------------------------
(***************************************************************************)
(* Definitions and deallocations between two operations.                    *)
(***************************************************************************)
LEMMA DeallocateStep ==
  ASSUME VMInv, NEW b \in Value, Deallocate(b)
  PROVE  VMInv'
PROOF
<1> DEFINE x == <<"dealloc", b>>
<1>1. /\ TypeInv /\ OperationInv /\ ViewInv /\ HomeInv /\ EvictionInv /\ PinInv
      /\ AliasesFollowTheirRoot /\ InFlightInv /\ TraceInv
      /\ \A v \in Value : v \in Live <=> v \in virtualObjects /\ v \notin deallocated
  BY LiveBuffers DEF VMInv
<1>2. /\ pc = "fetch" /\ b \in Live /\ b \notin InFlight
      /\ deallocated' = deallocated \cup {b}
      /\ UNCHANGED <<virtualObjects, swappedIn, moves, derivedFrom, pinCount, pinnedBuffers,
                     invocationToVirtual, pc, op, toSwapIn, adding, toMove, idx>>
  BY DEF Deallocate, pinVars
<1>3. \/ /\ b \in swappedIn /\ b \notin swapCopy /\ UNCHANGED swapCopy
         /\ DOMAIN allocations' = DOMAIN allocations \ {b} /\ lastUsed' = Removed(lastUsed, b)
         /\ ir' = <<x>> /\ calls' = <<x>>
      \/ /\ b \notin swappedIn /\ b \notin DOMAIN allocations /\ swapCopy' = swapCopy \ {b}
         /\ UNCHANGED <<allocations, lastUsed>> /\ ir' = << >> /\ calls' = << >>
  <2>1. b \in DOMAIN allocations <=> b \in swappedIn
    BY <1>1, <1>2 DEF HomeInv
  <2>2. b \in DOMAIN allocations <=> b \notin swapCopy
    BY <1>1, <1>2 DEF HomeInv, Adds, Stopped
  <2>3. CASE b \in swappedIn
    <3>1. Free(b) /\ lastUsed' = Removed(lastUsed, b) /\ ir' = <<x>> /\ calls' = <<x>>
          /\ UNCHANGED swapCopy
      BY <2>3 DEF Deallocate
    <3>2. DOMAIN allocations' = DOMAIN allocations \ {b}
      BY <3>1, FreedBuffer
    <3> QED BY <2>1, <2>2, <2>3, <3>1, <3>2
  <2>4. CASE b \notin swappedIn
    BY <2>1, <2>4 DEF Deallocate, poolVars
  <2> QED BY <2>3, <2>4
<1>4. DOMAIN allocations' = DOMAIN allocations \ {b} /\ swapCopy' = swapCopy \ {b}
  BY <1>3
<1>5. /\ \A o \in Object : o \in Live' <=> o \in Live /\ Root[o] # b
      /\ InFlight' = InFlight /\ \A o : UsesInFlight(o)' = UsesInFlight(o)
      /\ Live' \subseteq Live
  BY <1>2 DEF Live, InFlight, UsesInFlight
<1>6. \A v \in Value : v \in Live' <=> v \in Live /\ v # b
  BY <1>5, LineageOfBuffer DEF Object
<1>7. EvictionInv' /\ lastUsed' \in Seq(Value)
  <2>1. CASE lastUsed' = Removed(lastUsed, b)
    <3>1. /\ Removed(lastUsed, b) \in Seq(Value)
          /\ Range(Removed(lastUsed, b)) = Range(lastUsed) \ {b}
          /\ \A m, n \in DOMAIN Removed(lastUsed, b) :
               Removed(lastUsed, b)[m] = Removed(lastUsed, b)[n] => m = n
      BY <1>1, RemovedProperties DEF TypeInv, EvictionInv
    <3> QED BY <1>1, <1>4, <2>1, <3>1 DEF EvictionInv
  <2>2. CASE UNCHANGED <<allocations, lastUsed>>
    BY <1>1, <2>2 DEF EvictionInv, TypeInv
  <2> QED BY <1>3, <2>1, <2>2
<1>8. ir' = calls' /\ ir' \in Seq(Traced)
  <2>1. x \in Traced
    BY DEF Traced
  <2>2. <<x>> \in Seq(Traced) /\ << >> \in Seq(Traced)
    <3> HIDE DEF x
    <3> QED BY <2>1
  <2>3. ir' = calls' /\ (ir' = <<x>> \/ ir' = << >>)
    BY <1>3
  <2> HIDE DEF x
  <2> QED BY <2>2, <2>3
<1>9. TypeInv'
  <2>1. IsFiniteSet(DOMAIN allocations')
    BY <1>1, <1>4, FS_Subset DEF TypeInv
  <2> QED BY <1>1, <1>2, <1>4, <1>7, <1>8, <2>1 DEF TypeInv
<1>10. OperationInv'
  BY <1>1, <1>2 DEF OperationInv, Adds
<1>11. ViewInv'
  BY <1>1, <1>2 DEF ViewInv, Live
<1>12. HomeInv'
  <2>1. \A v \in Value : v \in DOMAIN allocations' <=> v \in swappedIn \cap Live'
    BY <1>1, <1>4, <1>6 DEF HomeInv
  <2>2. swapCopy' \subseteq Live'
    BY <1>1, <1>4, <1>6 DEF HomeInv, TypeInv
  <2>3. \A v \in Live' \cap Value : v \in DOMAIN allocations' <=> v \notin swapCopy'
    BY <1>1, <1>2, <1>4, <1>6 DEF HomeInv, Adds, Stopped
  <2> QED BY <1>2, <2>1, <2>2, <2>3 DEF HomeInv, Adds
<1>13. AliasesFollowTheirRoot'
  BY <1>1, <1>2, <1>5 DEF AliasesFollowTheirRoot
<1>14. PinInv'
  BY <1>1, <1>2, <1>5 DEF PinInv
<1>15. InFlightInv'
  <2>1. ASSUME NEW n \in DOMAIN invocationToVirtual
        PROVE  Range(invocationToVirtual[n]) \subseteq Live'
    <3>1. ASSUME NEW o \in Range(invocationToVirtual[n])
          PROVE  o \in Live'
      <4>1. o \in Live /\ o \in Object
        BY <1>1 DEF InFlightInv, Live, TypeInv
      <4>2. Root[o] \in InFlight
        BY DEF InFlight
      <4> QED BY <1>2, <1>5, <4>1, <4>2
    <3> QED BY <3>1
  <2> QED BY <1>1, <1>2, <1>4, <1>5, <2>1 DEF InFlightInv
<1>16. TraceInv'
  BY <1>2, <1>8 DEF TraceInv, Adds
<1> QED BY <1>7, <1>9, <1>10, <1>11, <1>12, <1>13, <1>14, <1>15, <1>16 DEF VMInv

LEMMA AddAliasStep ==
  ASSUME VMInv, NEW a \in Alias, AddAlias(a)
  PROVE  VMInv'
PROOF
<1>1. /\ TypeInv /\ OperationInv /\ ViewInv /\ HomeInv /\ EvictionInv /\ PinInv
      /\ AliasesFollowTheirRoot /\ InFlightInv /\ TraceInv
  BY DEF VMInv
<1>2. /\ pc = "fetch" /\ a \notin virtualObjects /\ Parent[a] \in Live
      /\ virtualObjects' = virtualObjects \cup {a}
      /\ swappedIn' = IF Parent[a] \in swappedIn /\ moves[Root[a]] = 0
                        THEN swappedIn \cup {a} ELSE swappedIn
      /\ derivedFrom' = [derivedFrom EXCEPT ![a] = 0]
      /\ UNCHANGED <<used, allocations, usedSizeWords, deallocated, swapCopy, moves, lastUsed,
                     pinCount, pinnedBuffers, invocationToVirtual, pc, op, toSwapIn, adding,
                     toMove, idx, ir, calls>>
  BY DEF AddAlias, poolVars, pinVars, traceVars
<1>3. /\ a \in Object /\ a \notin Value /\ Parent[a] \in Object
      /\ Lineage[a] = {a} \cup Lineage[Parent[a]] /\ Root[a] = Root[Parent[a]]
  <2>1. a \in Object /\ Parent[a] \in Object /\ Lineage[a] = {a} \cup Lineage[Parent[a]]
    BY LineageOfView DEF Object
  <2>2. Parent[a] \in Lineage[a]
    BY <2>1, LineageHasParents
  <2> QED BY <2>1, <2>2, RootOfLineage, VMAssumption
<1>4. /\ Live' = Live \cup {a} /\ InFlight' = InFlight
      /\ \A o : UsesInFlight(o)' = UsesInFlight(o)
  BY <1>2, <1>3 DEF Live, InFlight, UsesInFlight
<1>5. TypeInv'
  BY <1>1, <1>2, <1>3 DEF TypeInv
<1>6. OperationInv'
  BY <1>1, <1>2 DEF OperationInv, Adds
<1>7. ViewInv'
  <2>1. Lineage[a] \subseteq virtualObjects'
    BY <1>1, <1>2, <1>3 DEF ViewInv, Live
  <2> QED BY <1>1, <1>2, <2>1 DEF ViewInv
<1>8. HomeInv'
  <2>1. swappedIn' \cap Value = swappedIn \cap Value /\ Live' \cap Value = Live \cap Value
    BY <1>2, <1>3, <1>4
  <2>2. \A v \in Value : v \in DOMAIN allocations <=> v \in swappedIn' \cap Live'
    BY <1>1, <2>1 DEF HomeInv
  <2>3. \A v \in Live' \cap Value : v \in DOMAIN allocations <=> v \notin swapCopy
    BY <1>1, <1>2, <2>1 DEF HomeInv, Adds, Stopped
  <2> QED BY <1>1, <1>2, <1>4, <2>2, <2>3 DEF HomeInv, Adds
<1>9. EvictionInv'
  BY <1>1, <1>2 DEF EvictionInv
<1>10. AliasesFollowTheirRoot'
  <2>1. ASSUME NEW v \in Alias, v \in swappedIn', v \in Live', v # a
        PROVE  Lineage[v] \subseteq swappedIn' /\ derivedFrom'[v] = moves[Root[v]]
    BY <1>1, <1>2, <1>4, <2>1 DEF AliasesFollowTheirRoot, TypeInv
  <2>2. ASSUME a \in swappedIn'
        PROVE  Lineage[a] \subseteq swappedIn' /\ derivedFrom'[a] = moves[Root[a]]
    <3>1. Parent[a] \in swappedIn /\ moves[Root[a]] = 0 /\ swappedIn' = swappedIn \cup {a}
      BY <1>1, <1>2, <2>2 DEF ViewInv
    <3>2. Lineage[Parent[a]] \subseteq swappedIn
      BY <1>1, <1>2, <1>3, <3>1, LineageOfBuffer DEF AliasesFollowTheirRoot, Object
    <3> QED BY <1>1, <1>2, <1>3, <3>1, <3>2 DEF TypeInv
  <2> QED BY <1>2, <2>1, <2>2 DEF AliasesFollowTheirRoot
<1>11. PinInv'
  BY <1>1, <1>2, <1>4 DEF PinInv
<1>12. InFlightInv'
  BY <1>1, <1>2, <1>4 DEF InFlightInv
<1>13. TraceInv'
  BY <1>1, <1>2 DEF TraceInv, Adds
<1> QED BY <1>5, <1>6, <1>7, <1>8, <1>9, <1>10, <1>11, <1>12, <1>13 DEF VMInv
-----------------------------------------------------------------------------
(***************************************************************************)
(* Pins.  pinnedBuffers_ is updated with the first and the last pin of a    *)
(* buffer.                                                                  *)
(***************************************************************************)
LEMMA PinsCounted ==
  ASSUME TypeInv, PinInv, NEW s \in Values, NEW which \in SUBSET (DOMAIN s), Pin(s, which)
  PROVE  /\ pinCount' \in [Object -> Nat]
         /\ \A o \in Object : pinCount'[o] = pinCount[o] + PinsOf(s, which, o)
         /\ pinnedBuffers' = {b \in Value : pinCount'[b] > 0}
PROOF
<1>1. /\ pinCount' = [o \in Object |-> pinCount[o] + PinsOf(s, which, o)]
      /\ pinnedBuffers' = pinnedBuffers \cup
           {b \in Value : pinCount[b] = 0 /\ PinsOf(s, which, b) > 0}
  BY DEF Pin
<1>2. \A o \in Object : PinsOf(s, which, o) \in Nat
  BY PinsAreFinite
<1>3. \A o \in Object : pinCount[o] \in Nat
  BY DEF TypeInv
<1>4. \A b \in Value : b \in Object /\ (b \in pinnedBuffers <=> pinCount[b] > 0)
  BY DEF PinInv, Object
<1>5. pinnedBuffers \subseteq Value
  BY DEF PinInv
<1>6. \A b \in Value : b \in pinnedBuffers' <=> pinCount'[b] > 0
  BY <1>1, <1>2, <1>3, <1>4
<1>7. pinnedBuffers' \subseteq Value
  BY <1>1, <1>5
<1> QED BY <1>1, <1>2, <1>3, <1>6, <1>7

LEMMA UnpinsCounted ==
  ASSUME TypeInv, PinInv, NEW s \in Values, NEW which \in SUBSET (DOMAIN s), Unpin(s, which),
         \A o \in Object : pinCount[o] >= PinsOf(s, which, o)
  PROVE  /\ pinCount' \in [Object -> Nat]
         /\ \A o \in Object : pinCount'[o] = pinCount[o] - PinsOf(s, which, o)
         /\ pinnedBuffers' = {b \in Value : pinCount'[b] > 0}
PROOF
<1>1. /\ pinCount' = [o \in Object |-> pinCount[o] - PinsOf(s, which, o)]
      /\ pinnedBuffers' = pinnedBuffers \
           {b \in Value : PinsOf(s, which, b) > 0 /\ pinCount[b] = PinsOf(s, which, b)}
  BY DEF Unpin
<1>2. \A o \in Object : PinsOf(s, which, o) \in Nat
  BY PinsAreFinite
<1>3. \A o \in Object : pinCount[o] \in Nat
  BY DEF TypeInv
<1>4. \A b \in Value : b \in Object /\ (b \in pinnedBuffers <=> pinCount[b] > 0)
  BY DEF PinInv, Object
<1>5. pinnedBuffers \subseteq Value
  BY DEF PinInv
<1>6. \A b \in Value : b \in pinnedBuffers' <=> pinCount'[b] > 0
  BY <1>1, <1>2, <1>3, <1>4
<1>7. pinnedBuffers' \subseteq Value
  BY <1>1, <1>5
<1> QED BY <1>1, <1>2, <1>3, <1>6, <1>7

LEMMA FetchStep ==
  ASSUME VMInv, NEW o \in Operation, Fetch(o)
  PROVE  VMInv'
PROOF
<1>1. /\ TypeInv /\ OperationInv /\ ViewInv /\ HomeInv /\ EvictionInv /\ PinInv
      /\ AliasesFollowTheirRoot /\ InFlightInv /\ TraceInv
  BY DEF VMInv
<1> DEFINE s == o.operands
           in == {n \in DOMAIN s : s[n] \in swappedIn}
<1>2. /\ pc = "fetch" /\ op' = o /\ toSwapIn' = Range(s) \ swappedIn /\ Pin(s, in)
      /\ pc' = "freeSpace" /\ idx' = 1 /\ ir' = << >> /\ calls' = << >>
      /\ UNCHANGED <<used, allocations, usedSizeWords, virtualObjects, deallocated, swappedIn,
                     swapCopy, moves, derivedFrom, lastUsed, invocationToVirtual, adding, toMove>>
  BY DEF Fetch, poolVars, objVars
<1>3. Live' = Live /\ InFlight' = InFlight /\ \A v : UsesInFlight(v)' = UsesInFlight(v)
  BY <1>2 DEF Live, InFlight, UsesInFlight
<1>4. /\ s \in Values /\ Range(s) \subseteq Live
      /\ \/ o.results = << >>
         \/ \E b \in Value \ virtualObjects : o.results = <<b>>
      /\ o.kind = "start" => o.invocation \notin DOMAIN invocationToVirtual
      /\ o.kind = "wait" => o.invocation \in DOMAIN invocationToVirtual
  <2>1. Live \subseteq Object /\ MaxOperands \in Nat
    BY <1>1, LiveBuffers, VMAssumption
  <2>2. << >> \in Values /\ Range(<< >>) \subseteq Live
    <3>1. << >> \in [1 .. 0 -> Object] /\ 0 \in 0 .. MaxOperands
      BY <2>1
    <3> QED BY <3>1 DEF Values, Range
  <2>3. ASSUME NEW t \in Operands
        PROVE  t \in Values /\ Range(t) \subseteq Live
    <3>1. PICK n \in 1 .. MaxOperands : t \in [1 .. n -> Live]
      BY <2>3 DEF Operands
    <3>2. t \in [1 .. n -> Object] /\ n \in 0 .. MaxOperands
      BY <2>1, <3>1
    <3> QED BY <3>1, <3>2 DEF Values, Range
  <2>4. \/ /\ o.kind = "alloc" /\ s = << >> /\ \E b \in Value \ virtualObjects : o.results = <<b>>
        \/ o.kind = "use" /\ s \in Operands /\ o.results = << >>
        \/ /\ o.kind = "start" /\ s \in Operands /\ o.results = << >>
           /\ o.invocation \notin DOMAIN invocationToVirtual
        \/ /\ o.kind = "wait" /\ s = << >> /\ o.results = << >>
           /\ o.invocation \in DOMAIN invocationToVirtual
    BY DEF Operation
  <2> QED BY <2>2, <2>3, <2>4
<1> HIDE DEF s, in
<1>5. /\ in \in SUBSET (DOMAIN s)
      /\ in = {n \in DOMAIN s : s[n] \notin toSwapIn'}
  BY <1>2 DEF in, Range
<1>6. /\ pinCount' \in [Object -> Nat]
      /\ \A v \in Object : pinCount'[v] = pinCount[v] + PinsOf(s, in, v)
      /\ pinnedBuffers' = {b \in Value : pinCount'[b] > 0}
  BY <1>1, <1>2, <1>4, <1>5, PinsCounted
<1>7. TypeInv'
  BY <1>1, <1>2, <1>4, <1>6 DEF TypeInv, Step, s
<1>8. OperationInv'
  <2>1. o.results # << >> => Head(o.results) \notin virtualObjects
    BY <1>4
  <2> QED BY <1>2, <1>3, <1>4, <2>1 DEF OperationInv, Adds, s
<1>9. ViewInv' /\ EvictionInv' /\ AliasesFollowTheirRoot' /\ InFlightInv'
  BY <1>1, <1>2, <1>3 DEF ViewInv, EvictionInv, AliasesFollowTheirRoot, InFlightInv
<1>10. HomeInv'
  BY <1>1, <1>2, <1>3 DEF HomeInv, Adds, Stopped
<1>11. PinInv'
  <2>1. \A v \in Object : pinCount[v] = Cardinality(UsesInFlight(v)) + 0
    BY <1>1, <1>2 DEF PinInv, Stopped
  <2>2. ASSUME NEW v \in Object
        PROVE  pinCount'[v] = Cardinality(UsesInFlight(v)) + PinsOf(s, in, v)
    <3>1. Cardinality(UsesInFlight(v)) \in Nat
      BY <1>1, PinsAreFinite
    <3> QED BY <1>6, <2>1, <3>1
  <2>3. \A v : PinsOf(s, in, v)
                 = PinsOf(op.operands, {n \in DOMAIN op.operands : op.operands[n] \notin toSwapIn}, v)'
    BY <1>2, <1>5 DEF s, PinsOf
  <2> QED BY <1>2, <1>3, <1>6, <2>2, <2>3 DEF PinInv
<1>12. TraceInv'
  BY <1>2 DEF TraceInv, Adds
<1> QED BY <1>7, <1>8, <1>9, <1>10, <1>11, <1>12 DEF VMInv

LEMMA FreeSpaceDoneStep ==
  ASSUME VMInv, FreeSpaceDone
  PROVE  VMInv'
PROOF
<1>1. /\ TypeInv /\ OperationInv /\ ViewInv /\ HomeInv /\ EvictionInv /\ PinInv
      /\ AliasesFollowTheirRoot /\ InFlightInv /\ TraceInv
  BY DEF VMInv
<1> DEFINE s == op.operands
           in == {n \in DOMAIN s : s[n] \notin toSwapIn}
<1>2. /\ pc = "freeSpace" /\ pc' = "swapIn" /\ Unpin(s, in)
      /\ UNCHANGED <<used, allocations, usedSizeWords, virtualObjects, deallocated, swappedIn,
                     swapCopy, moves, derivedFrom, lastUsed, invocationToVirtual, op, toSwapIn,
                     adding, toMove, idx, ir, calls>>
  BY DEF FreeSpaceDone, poolVars, objVars, opVars, traceVars
<1>3. Live' = Live /\ InFlight' = InFlight /\ \A v : UsesInFlight(v)' = UsesInFlight(v)
  BY <1>2 DEF Live, InFlight, UsesInFlight
<1>4. s \in Values /\ in \in SUBSET (DOMAIN s)
  BY <1>1 DEF TypeInv
<1>5. \A v \in Object : pinCount[v] = Cardinality(UsesInFlight(v)) + PinsOf(s, in, v)
  BY <1>1, <1>2 DEF PinInv, Stopped
<1> HIDE DEF s, in
<1>6. \A v \in Object : Cardinality(UsesInFlight(v)) \in Nat /\ PinsOf(s, in, v) \in Nat
  BY <1>1, <1>4, PinsAreFinite
<1>7. /\ pinCount' \in [Object -> Nat]
      /\ \A v \in Object : pinCount'[v] = pinCount[v] - PinsOf(s, in, v)
      /\ pinnedBuffers' = {b \in Value : pinCount'[b] > 0}
  <2>1. \A v \in Object : pinCount[v] >= PinsOf(s, in, v)
    BY <1>5, <1>6
  <2> QED BY <1>1, <1>2, <1>4, <2>1, UnpinsCounted
<1>8. TypeInv'
  BY <1>1, <1>2, <1>7 DEF TypeInv, Step
<1>9. OperationInv'
  BY <1>1, <1>2, <1>3 DEF OperationInv, Adds
<1>10. ViewInv' /\ EvictionInv' /\ AliasesFollowTheirRoot' /\ InFlightInv'
  BY <1>1, <1>2, <1>3 DEF ViewInv, EvictionInv, AliasesFollowTheirRoot, InFlightInv
<1>11. HomeInv'
  BY <1>1, <1>2, <1>3 DEF HomeInv, Adds, Stopped
<1>12. PinInv'
  <2>1. \A v \in Object : pinCount'[v] = Cardinality(UsesInFlight(v)) + 0
    BY <1>5, <1>6, <1>7
  <2> QED BY <1>2, <1>3, <1>7, <2>1 DEF PinInv
<1>13. TraceInv'
  BY <1>1, <1>2 DEF TraceInv, Adds, Stopped
<1> QED BY <1>8, <1>9, <1>10, <1>11, <1>12, <1>13 DEF VMInv
-----------------------------------------------------------------------------
(***************************************************************************)
(* The operation is rewritten.  A start adds its operands to those in       *)
(* flight, a wait takes those of its start away.                            *)
(***************************************************************************)
LEMMA UsesOfInvocation ==
  ASSUME NEW s \in Values, NEW o \in Object, NEW i
  PROVE  LET uses == {i} \X {k \in DOMAIN s : o \in Lineage[s[k]]}
         IN  IsFiniteSet(uses) /\ Cardinality(uses) = PinsOf(s, DOMAIN s, o)
PROOF
<1> DEFINE K == {k \in DOMAIN s : o \in Lineage[s[k]]}
<1>1. IsFiniteSet(DOMAIN s)
  BY Operands1
<1>2. IsFiniteSet(K) /\ Cardinality(K) \in Nat
  BY <1>1, FS_Subset, FS_CardinalityType
<1>3. PinsOf(s, DOMAIN s, o) = Cardinality(K)
  BY DEF PinsOf
<1> HIDE DEF K
<1>4. IsFiniteSet({i}) /\ Cardinality({i}) = 1
  BY FS_Singleton
<1>5. IsFiniteSet({i} \X K) /\ Cardinality({i} \X K) = 1 * Cardinality(K)
  BY <1>2, <1>4, FS_Product
<1>6. Cardinality({i} \X K) = PinsOf(s, DOMAIN s, o)
  BY <1>2, <1>3, <1>5
<1> QED BY <1>5, <1>6 DEF K

LEMMA StartPins ==
  ASSUME VMInv, pc = "pinAll", op.kind = "start",
         Pin(op.operands, DOMAIN op.operands),
         invocationToVirtual' =
           [n \in DOMAIN invocationToVirtual \cup {op.invocation} |->
              IF n = op.invocation THEN op.operands ELSE invocationToVirtual[n]]
  PROVE  /\ pinCount' \in [Object -> Nat] /\ pinnedBuffers' = {b \in Value : pinCount'[b] > 0}
         /\ \A o \in Object : pinCount'[o] = Cardinality(UsesInFlight(o)')
PROOF
<1> DEFINE s == op.operands
           i == op.invocation
<1>1. TypeInv /\ OperationInv /\ PinInv /\ s \in Values /\ DOMAIN s \in SUBSET (DOMAIN s)
  BY DEF VMInv, TypeInv
<1>2. i \notin DOMAIN invocationToVirtual
  BY <1>1 DEF OperationInv
<1>3. /\ pinCount' \in [Object -> Nat]
      /\ \A o \in Object : pinCount'[o] = pinCount[o] + PinsOf(s, DOMAIN s, o)
      /\ pinnedBuffers' = {b \in Value : pinCount'[b] > 0}
  BY <1>1, PinsCounted
<1>4. ASSUME NEW o \in Object
      PROVE  pinCount'[o] = Cardinality(UsesInFlight(o)')
  <2> DEFINE uses == {i} \X {k \in DOMAIN s : o \in Lineage[s[k]]}
  <2>1. IsFiniteSet(uses) /\ Cardinality(uses) = PinsOf(s, DOMAIN s, o)
    BY <1>1, UsesOfInvocation
  <2>2. DOMAIN s \subseteq 1 .. MaxOperands
    BY <1>1, Operands1
  <2>3. UsesInFlight(o)' = UsesInFlight(o) \cup uses
    <3>1. ASSUME NEW n, NEW k
          PROVE  <<n, k>> \in UsesInFlight(o)' <=> <<n, k>> \in UsesInFlight(o) \cup uses
      <4> HIDE DEF s, i
      <4>1. DOMAIN invocationToVirtual' = DOMAIN invocationToVirtual \cup {i}
            /\ invocationToVirtual'[i] = s
            /\ \A m \in DOMAIN invocationToVirtual : invocationToVirtual'[m] = invocationToVirtual[m]
        BY <1>2 DEF s, i
      <4> QED BY <1>2, <2>2, <4>1 DEF UsesInFlight
    <3>2. UsesInFlight(o)' \subseteq (DOMAIN invocationToVirtual') \X (1 .. MaxOperands)
      BY DEF UsesInFlight
    <3>3. UsesInFlight(o) \subseteq (DOMAIN invocationToVirtual) \X (1 .. MaxOperands)
      BY DEF UsesInFlight
    <3> QED BY <3>1, <3>2, <3>3
  <2>4. UsesInFlight(o) \cap uses = {}
    BY <1>2 DEF UsesInFlight
  <2>5. IsFiniteSet(UsesInFlight(o)) /\ Cardinality(UsesInFlight(o)) \in Nat
    BY <1>1, PinsAreFinite
  <2> HIDE DEF uses
  <2>6. Cardinality(UsesInFlight(o) \cup uses)
          = Cardinality(UsesInFlight(o)) + Cardinality(uses) - Cardinality({})
    BY <2>1, <2>4, <2>5, FS_Union
  <2>7. Cardinality({}) = 0
    BY FS_EmptySet
  <2>8. pinCount[o] = Cardinality(UsesInFlight(o)) + 0
    BY <1>1 DEF PinInv, Stopped
  <2>9. PinsOf(s, DOMAIN s, o) \in Nat
    BY <1>1, PinsAreFinite
  <2> HIDE DEF s
  <2> QED BY <1>3, <2>1, <2>3, <2>5, <2>6, <2>7, <2>8, <2>9
<1> QED BY <1>3, <1>4

LEMMA WaitPins ==
  ASSUME VMInv, pc = "pinAll", op.kind = "wait",
         Unpin(invocationToVirtual[op.invocation], DOMAIN invocationToVirtual[op.invocation]),
         invocationToVirtual' =
           [n \in DOMAIN invocationToVirtual \ {op.invocation} |-> invocationToVirtual[n]]
  PROVE  /\ pinCount' \in [Object -> Nat] /\ pinnedBuffers' = {b \in Value : pinCount'[b] > 0}
         /\ \A o \in Object : pinCount'[o] = Cardinality(UsesInFlight(o)')
PROOF
<1> DEFINE i == op.invocation
           s == invocationToVirtual[i]
<1>1. /\ TypeInv /\ PinInv /\ i \in DOMAIN invocationToVirtual
      /\ s \in Values /\ DOMAIN s \in SUBSET (DOMAIN s)
  BY DEF VMInv, TypeInv, OperationInv
<1>2. ASSUME NEW o \in Object
      PROVE  /\ Cardinality(UsesInFlight(o)') \in Nat
             /\ pinCount[o] = Cardinality(UsesInFlight(o)') + PinsOf(s, DOMAIN s, o)
             /\ PinsOf(s, DOMAIN s, o) \in Nat
  <2> DEFINE uses == {i} \X {k \in DOMAIN s : o \in Lineage[s[k]]}
  <2>1. IsFiniteSet(uses) /\ Cardinality(uses) = PinsOf(s, DOMAIN s, o)
    BY <1>1, UsesOfInvocation
  <2>2. DOMAIN s \subseteq 1 .. MaxOperands
    BY <1>1, Operands1
  <2>3. UsesInFlight(o)' = UsesInFlight(o) \ uses /\ uses \subseteq UsesInFlight(o)
    <3>1. ASSUME NEW n, NEW k
          PROVE  /\ <<n, k>> \in UsesInFlight(o)' <=> <<n, k>> \in UsesInFlight(o) \ uses
                 /\ <<n, k>> \in uses => <<n, k>> \in UsesInFlight(o)
      <4> HIDE DEF i
      <4>1. DOMAIN invocationToVirtual' = DOMAIN invocationToVirtual \ {i}
            /\ \A m \in DOMAIN invocationToVirtual \ {i} :
                 invocationToVirtual'[m] = invocationToVirtual[m]
        BY DEF i
      <4> QED BY <1>1, <2>2, <4>1 DEF UsesInFlight
    <3>2. UsesInFlight(o)' \subseteq (DOMAIN invocationToVirtual') \X (1 .. MaxOperands)
      BY DEF UsesInFlight
    <3>3. UsesInFlight(o) \subseteq (DOMAIN invocationToVirtual) \X (1 .. MaxOperands)
      BY DEF UsesInFlight
    <3> QED BY <3>1, <3>2, <3>3
  <2>4. IsFiniteSet(UsesInFlight(o)) /\ Cardinality(UsesInFlight(o)) \in Nat
    BY <1>1, PinsAreFinite
  <2>5. UsesInFlight(o) \cap uses = uses
    BY <2>3
  <2> HIDE DEF uses
  <2>6. /\ IsFiniteSet(UsesInFlight(o) \ uses)
        /\ Cardinality(UsesInFlight(o) \ uses)
             = Cardinality(UsesInFlight(o)) - Cardinality(uses)
    BY <2>4, <2>5, FS_Difference
  <2>7. Cardinality(UsesInFlight(o) \ uses) \in Nat
    BY <2>6, FS_CardinalityType
  <2>8. pinCount[o] = Cardinality(UsesInFlight(o)) + 0
    BY <1>1 DEF PinInv, Stopped
  <2>9. PinsOf(s, DOMAIN s, o) \in Nat
    BY <1>1, PinsAreFinite
  <2> HIDE DEF s
  <2> QED BY <2>1, <2>3, <2>4, <2>6, <2>7, <2>8, <2>9
<1>3. \A o \in Object : pinCount[o] >= PinsOf(s, DOMAIN s, o)
  <2> HIDE DEF s
  <2> QED BY <1>2
<1>4. /\ pinCount' \in [Object -> Nat]
      /\ \A o \in Object : pinCount'[o] = pinCount[o] - PinsOf(s, DOMAIN s, o)
      /\ pinnedBuffers' = {b \in Value : pinCount'[b] > 0}
  BY <1>1, <1>3, UnpinsCounted
<1>5. \A o \in Object : pinCount'[o] = Cardinality(UsesInFlight(o)')
  <2> HIDE DEF s
  <2> QED BY <1>2, <1>4
<1> QED BY <1>4, <1>5

LEMMA ReplaceStep ==
  ASSUME VMInv, Replace
  PROVE  VMInv'
PROOF
<1>1. /\ TypeInv /\ OperationInv /\ ViewInv /\ HomeInv /\ EvictionInv /\ PinInv
      /\ AliasesFollowTheirRoot /\ InFlightInv /\ TraceInv
  BY DEF VMInv
<1>2. /\ pc = "pinAll" /\ pc' = "fetch" /\ op' = NoOp /\ toSwapIn = {} /\ toMove' = << >>
      /\ idx' = 1 /\ Range(op.operands) \subseteq swappedIn
      /\ UNCHANGED <<used, allocations, usedSizeWords, virtualObjects, deallocated, swappedIn,
                     swapCopy, moves, derivedFrom, lastUsed, toSwapIn, ir, calls>>
  BY <1>1 DEF Replace, OperationInv, poolVars, objVars, traceVars
<1>3. Live' = Live
  BY <1>2 DEF Live
<1>4. /\ pinCount' \in [Object -> Nat] /\ pinnedBuffers' = {b \in Value : pinCount'[b] > 0}
      /\ \A o \in Object : pinCount'[o] = Cardinality(UsesInFlight(o)')
  <2>1. CASE op.kind = "start"
    <3>1. /\ Pin(op.operands, DOMAIN op.operands)
          /\ invocationToVirtual' =
               [n \in DOMAIN invocationToVirtual \cup {op.invocation} |->
                  IF n = op.invocation THEN op.operands ELSE invocationToVirtual[n]]
      BY <2>1 DEF Replace
    <3> QED BY <1>2, <2>1, <3>1, StartPins
  <2>2. CASE op.kind = "wait"
    <3>1. /\ Unpin(invocationToVirtual[op.invocation],
                   DOMAIN invocationToVirtual[op.invocation])
          /\ invocationToVirtual' =
               [n \in DOMAIN invocationToVirtual \ {op.invocation} |-> invocationToVirtual[n]]
      BY <2>2 DEF Replace
    <3> QED BY <1>2, <2>2, <3>1, WaitPins
  <2>3. CASE op.kind # "start" /\ op.kind # "wait"
    <3>1. UNCHANGED <<pinCount, pinnedBuffers, invocationToVirtual>>
      BY <2>3 DEF Replace, pinVars
    <3>2. \A o \in Object : UsesInFlight(o)' = UsesInFlight(o)
      BY <3>1 DEF UsesInFlight
    <3>3. \A o \in Object : Cardinality(UsesInFlight(o)) \in Nat
      BY <1>1, PinsAreFinite
    <3>4. \A o \in Object : pinCount[o] = Cardinality(UsesInFlight(o))
      BY <1>1, <1>2, <3>3 DEF PinInv, Stopped
    <3> QED BY <1>1, <3>1, <3>2, <3>4 DEF PinInv, TypeInv
  <2> QED BY <2>1, <2>2, <2>3
<1>5. /\ IsFiniteSet(DOMAIN invocationToVirtual')
      /\ \A n \in DOMAIN invocationToVirtual' :
           \/ n \in DOMAIN invocationToVirtual /\ invocationToVirtual'[n] = invocationToVirtual[n]
           \/ op.kind = "start" /\ invocationToVirtual'[n] = op.operands
  <2>1. IsFiniteSet(DOMAIN invocationToVirtual)
    BY <1>1 DEF TypeInv
  <2>2. CASE op.kind = "start"
    <3>1. invocationToVirtual' =
               [n \in DOMAIN invocationToVirtual \cup {op.invocation} |->
                  IF n = op.invocation THEN op.operands ELSE invocationToVirtual[n]]
      BY <2>2 DEF Replace
    <3>2. IsFiniteSet(DOMAIN invocationToVirtual \cup {op.invocation})
      BY <2>1, FS_AddElement
    <3> QED BY <2>2, <3>1, <3>2
  <2>3. CASE op.kind = "wait"
    <3>1. invocationToVirtual' =
               [n \in DOMAIN invocationToVirtual \ {op.invocation} |-> invocationToVirtual[n]]
      BY <2>3 DEF Replace
    <3>2. IsFiniteSet(DOMAIN invocationToVirtual \ {op.invocation})
      BY <2>1, FS_Subset
    <3> QED BY <3>1, <3>2
  <2>4. CASE op.kind # "start" /\ op.kind # "wait"
    BY <2>1, <2>4 DEF Replace, pinVars
  <2> QED BY <2>2, <2>3, <2>4
<1>6. << >> \in Values /\ Range(<< >>) = {}
  <2>1. << >> \in [1 .. 0 -> Object] /\ 0 \in 0 .. MaxOperands
    BY VMAssumption
  <2> QED BY <2>1 DEF Values, Range
<1>7. TypeInv'
  <2>1. \A n \in DOMAIN invocationToVirtual' : invocationToVirtual'[n] \in Values
    BY <1>1, <1>5 DEF TypeInv
  <2> QED BY <1>1, <1>2, <1>4, <1>5, <1>6, <2>1 DEF TypeInv, Step, NoOp
<1>8. OperationInv'
  BY <1>2 DEF OperationInv, NoOp, Adds
<1>9. ViewInv' /\ EvictionInv' /\ AliasesFollowTheirRoot'
  BY <1>1, <1>2, <1>3 DEF ViewInv, EvictionInv, AliasesFollowTheirRoot
<1>10. HomeInv'
  BY <1>1, <1>2, <1>3 DEF HomeInv, Adds, Stopped
<1>11. PinInv'
  <2>1. \A o \in Object : pinCount'[o] = Cardinality(UsesInFlight(o)') + 0
    <3>1. \A o \in Object : pinCount'[o] \in Nat
      BY <1>4
    <3> QED BY <1>4, <3>1
  <2> QED BY <1>2, <1>4, <2>1 DEF PinInv
<1>12. InFlightInv'
  <2>1. \A n \in DOMAIN invocationToVirtual' : Range(invocationToVirtual'[n]) \subseteq Live
    BY <1>1, <1>2, <1>5 DEF InFlightInv, OperationInv
  <2>2. ASSUME NEW o \in Range(op.operands)
        PROVE  Root[o] \in DOMAIN allocations
    <3>1. o \in Live /\ o \in swappedIn /\ o \in Object
      BY <1>1, <1>2 DEF OperationInv, TypeInv
    <3>2. Root[o] \in Live \cap Value /\ Root[o] \in Lineage[o]
      BY <1>1, <3>1, RootIsLive, RootInLineage
    <3>3. Lineage[o] \subseteq swappedIn
      BY <1>1, <3>1, LineageOfBuffer DEF AliasesFollowTheirRoot, Object
    <3> QED BY <1>1, <3>2, <3>3 DEF HomeInv
  <2>3. InFlight' \subseteq DOMAIN allocations
    <3>1. ASSUME NEW n \in DOMAIN invocationToVirtual', NEW o \in Range(invocationToVirtual'[n])
          PROVE  Root[o] \in DOMAIN allocations
      BY <1>1, <1>5, <2>2 DEF InFlightInv, InFlight
    <3> QED BY <3>1 DEF InFlight
  <2> QED BY <1>2, <1>3, <2>1, <2>3 DEF InFlightInv
<1>13. TraceInv'
  BY <1>1, <1>2 DEF TraceInv, Adds, Stopped
<1> QED BY <1>7, <1>8, <1>9, <1>10, <1>11, <1>12, <1>13 DEF VMInv
-----------------------------------------------------------------------------
LEMMA VMInvInit ==
  ASSUME Init
  PROVE  VMInv
PROOF
<1>1. /\ virtualObjects = {} /\ deallocated = {} /\ swappedIn = {} /\ swapCopy = {}
      /\ moves = [b \in Value |-> 0] /\ derivedFrom = [a \in Alias |-> 0]
      /\ lastUsed = << >> /\ pinCount = [o \in Object |-> 0] /\ pinnedBuffers = {}
      /\ invocationToVirtual = << >> /\ pc = "fetch" /\ op = NoOp /\ toSwapIn = {}
      /\ toMove = << >> /\ idx = 1 /\ ir = << >> /\ calls = << >>
      /\ DOMAIN allocations = {} /\ DOMAIN invocationToVirtual = {}
  BY DEF Init, PoolInit
<1>2. IsFiniteSet({}) /\ Cardinality({}) = 0
  BY FS_EmptySet
<1>3. << >> \in Values /\ Range(<< >>) = {} /\ DOMAIN << >> = {}
  <2>1. << >> \in [1 .. 0 -> Object] /\ 0 \in 0 .. MaxOperands
    BY VMAssumption
  <2> QED BY <2>1 DEF Values, Range
<1>4. Live = {} /\ InFlight = {} /\ \A o : UsesInFlight(o) = {}
  BY <1>1 DEF Live, InFlight, UsesInFlight
<1>5. TypeInv
  BY <1>1, <1>2, <1>3 DEF TypeInv, Step, NoOp
<1>6. OperationInv /\ ViewInv
  BY <1>1 DEF OperationInv, ViewInv, NoOp, Adds
<1>7. HomeInv /\ EvictionInv /\ AliasesFollowTheirRoot
  BY <1>1, <1>3, <1>4 DEF HomeInv, EvictionInv, AliasesFollowTheirRoot, Adds
<1>8. PinInv
  <2>1. \A o \in Object : pinCount[o] = 0 /\ Cardinality(UsesInFlight(o)) = 0
    BY <1>1, <1>2, <1>4
  <2>2. pinnedBuffers = {b \in Value : pinCount[b] > 0}
    BY <1>1, <2>1 DEF Object
  <2> QED BY <1>1, <2>1, <2>2 DEF PinInv
<1>9. InFlightInv /\ TraceInv
  BY <1>1, <1>4 DEF InFlightInv, TraceInv, Adds
<1> QED BY <1>5, <1>6, <1>7, <1>8, <1>9 DEF VMInv

LEMMA VMInvStep ==
  ASSUME VMInv, [Next]_vars
  PROVE  VMInv'
PROOF
<1>1. CASE \E b \in Value : Deallocate(b)
  BY <1>1, DeallocateStep
<1>2. CASE \E a \in Alias : AddAlias(a)
  BY <1>2, AddAliasStep
<1>3. CASE \E o \in Operation : Fetch(o)
  BY <1>3, FetchStep
<1>4. CASE \/ FreeSpaceSkip \/ FreeSpaceFails \/ (\E o \in Object : SwapInAsserts(o))
           \/ SwapInDone \/ AddAsserts \/ Defragment \/ DefragmentDone \/ AddFails
           \/ ReplaceAsserts
  BY <1>4, ControlStep
<1>5. CASE FreeSpaceEvict
  BY <1>5, SwapOutStep
<1>6. CASE DefragmentOut
  <2>1. idx > Len(toMove) \/ idx <= Len(toMove)
    BY DEF VMInv, TypeInv
  <2> QED BY <1>6, <2>1, ControlStep, SwapOutStep
<1>7. CASE FreeSpaceDone
  BY <1>7, FreeSpaceDoneStep
<1>8. CASE \E o \in Object : SwapInBuffer(o) \/ SwapInAlias(o)
  BY <1>8, SwapInBufferStep, SwapInAliasStep
<1>9. CASE Add
  BY <1>9, AddStep
<1>10. CASE DefragmentIn
  BY <1>10, DefragmentInStep
<1>11. CASE Replace
  BY <1>11, ReplaceStep
<1>12. CASE UNCHANGED vars
  <2>1. /\ UNCHANGED <<poolVars, objVars, lastUsed, pinVars, pc, op, toSwapIn, adding, toMove,
                       idx, ir, calls>>
    BY <1>12 DEF vars, opVars, traceVars
  <2>2. /\ Live' = Live /\ ViewInv' /\ EvictionInv' /\ AliasesFollowTheirRoot' /\ InFlightInv'
        /\ \A o : UsesInFlight(o)' = UsesInFlight(o)
    BY <2>1, SameBuffers
  <2>3. TypeInv' /\ OperationInv' /\ HomeInv'
    BY <2>1, <2>2 DEF VMInv, TypeInv, OperationInv, HomeInv, poolVars, objVars, pinVars
  <2>4. PinInv' /\ TraceInv'
    BY <2>1, <2>2 DEF VMInv, PinInv, TraceInv, PinsOf, pinVars
  <2> QED BY <2>2, <2>3, <2>4 DEF VMInv
<1> QED BY <1>1, <1>2, <1>3, <1>4, <1>5, <1>6, <1>7, <1>8, <1>9, <1>10, <1>11, <1>12
        DEF Next, Process

(* The inductive invariant holds in every state of the pass.                *)
THEOREM VMInvariant == Spec => []VMInv
PROOF
<1>1. Init => VMInv
  BY VMInvInit
<1>2. VMInv /\ [Next]_vars => VMInv'
  BY VMInvStep
<1> QED BY <1>1, <1>2, PTL DEF Spec

(* Between two operations every live buffer is in exactly one place, and    *)
(* the order of eviction lists the buffers in LRAM once each.               *)
THEOREM VMContentsInOnePlace == Spec => []ContentsInOnePlace
PROOF
<1>1. VMInv => ContentsInOnePlace
  <2> SUFFICES ASSUME VMInv, pc = "fetch"
               PROVE  /\ \A b \in Live \cap Value :
                           /\ b \in DOMAIN allocations <=> b \notin swapCopy
                           /\ b \in DOMAIN allocations <=> b \in swappedIn
                      /\ Range(lastUsed) = DOMAIN allocations
                      /\ Len(lastUsed) = Cardinality(DOMAIN allocations)
    BY DEF ContentsInOnePlace
  <2>1. TypeInv /\ HomeInv /\ EvictionInv
    BY DEF VMInv
  <2>2. \A b \in Live \cap Value : /\ b \in DOMAIN allocations <=> b \notin swapCopy
                                   /\ b \in DOMAIN allocations <=> b \in swappedIn
    BY <2>1 DEF HomeInv, Stopped, Adds
  <2>3. /\ Len(lastUsed) \in Nat /\ DOMAIN lastUsed = 1 .. Len(lastUsed)
        /\ Range(lastUsed) = DOMAIN allocations
    BY <2>1 DEF TypeInv, EvictionInv
  <2>4. lastUsed \in Bijection(1 .. Len(lastUsed), DOMAIN allocations)
    <3>1. lastUsed \in [1 .. Len(lastUsed) -> DOMAIN allocations]
      BY <2>1, <2>3 DEF Range, TypeInv
    <3>2. \A b \in DOMAIN allocations : \E n \in 1 .. Len(lastUsed) : lastUsed[n] = b
      BY <2>3 DEF Range
    <3>3. \A m, n \in 1 .. Len(lastUsed) : lastUsed[m] = lastUsed[n] => m = n
      BY <2>1, <2>3 DEF EvictionInv
    <3> QED BY <3>1, <3>2, <3>3 DEF Bijection, Injection, Surjection, IsInjective
  <2>5. ExistsBijection(1 .. Len(lastUsed), DOMAIN allocations)
    BY <2>4 DEF ExistsBijection
  <2>6. IsFiniteSet(1 .. Len(lastUsed)) /\ Cardinality(1 .. Len(lastUsed)) = Len(lastUsed)
    BY <2>3, FS_Interval
  <2>7. Cardinality(DOMAIN allocations) = Cardinality(1 .. Len(lastUsed))
    BY <2>5, <2>6, FS_Bijection
  <2> QED BY <2>2, <2>3, <2>6, <2>7
<1> QED BY <1>1, VMInvariant, PTL

(* No operation is rewritten to use a view of a buffer that was swapped out *)
(* or moved since the view was made.                                        *)
THEOREM VMAliasesFollowTheirRoot == Spec => []AliasesFollowTheirRoot
PROOF
<1>1. VMInv => AliasesFollowTheirRoot
  BY DEF VMInv
<1> QED BY <1>1, VMInvariant, PTL

(* No path through the pass leaks or drops a pin.                           *)
THEOREM VMPinsAreThoseInFlight == Spec => []PinsAreThoseInFlight
PROOF
<1>1. VMInv => PinsAreThoseInFlight
  <2> SUFFICES ASSUME VMInv, pc = "fetch", NEW o \in Object
               PROVE  pinCount[o] = Cardinality(UsesInFlight(o))
    BY DEF PinsAreThoseInFlight
  <2>1. Cardinality(UsesInFlight(o)) \in Nat
    BY PinsAreFinite DEF VMInv
  <2>2. pinCount[o] = Cardinality(UsesInFlight(o)) + 0
    BY DEF VMInv, PinInv, Stopped
  <2> QED BY <2>1, <2>2
<1> QED BY <1>1, VMInvariant, PTL

(* allocateAddresses replays the allocs and deallocs in the order in which  *)
(* the pool was called here.                                                *)
THEOREM VMIRReplaysPoolCalls == Spec => []IRReplaysPoolCalls
PROOF
<1>1. VMInv => IRReplaysPoolCalls
  BY DEF VMInv, TraceInv, IRReplaysPoolCalls, Stopped, Adds
<1> QED BY <1>1, VMInvariant, PTL

(* A step changes the pool by at most one buffer, which no invocation in    *)
(* flight uses when it is freed.                                            *)
LEMMA PoolSteps ==
  ASSUME VMInv, [Next]_vars
  PROVE  \/ UNCHANGED allocations
         \/ \E b \in Value : Allocate(b)
         \/ \E b \in Value \ InFlight : Free(b)
PROOF
<1>1. TypeInv /\ EvictionInv /\ HomeInv
  BY DEF VMInv
<1>2. CASE \E b \in Value : Deallocate(b)
  BY <1>2 DEF Deallocate, poolVars
<1>3. CASE FreeSpaceEvict
  <2>1. /\ pc = "freeSpace" /\ idx \in DOMAIN lastUsed
        /\ lastUsed[idx] \notin pinnedBuffers /\ Free(lastUsed[idx])
    BY <1>1, <1>3 DEF FreeSpaceEvict, SwapOut, TypeInv
  <2>2. lastUsed[idx] \in Value
    BY <1>1, <2>1 DEF TypeInv
  <2>3. lastUsed[idx] \notin InFlight
    BY <2>1, InFlightIsPinned DEF Stopped
  <2> QED BY <2>1, <2>2, <2>3
<1>4. CASE DefragmentOut
  <2>1. CASE idx > Len(toMove)
    BY <1>1, <1>4, <2>1 DEF DefragmentOut, poolVars, TypeInv
  <2>2. CASE idx <= Len(toMove)
    <3>1. pc = "defragOut" /\ idx \in DOMAIN toMove /\ Free(toMove[idx])
      BY <1>1, <1>4, <2>2 DEF DefragmentOut, SwapOut, TypeInv
    <3>2. toMove[idx] \in Value /\ toMove[idx] \in Range(toMove)
      BY <1>1, <3>1 DEF TypeInv, Range
    <3>3. toMove[idx] \notin InFlight
      BY <1>1, <3>1, <3>2, InFlightIsPinned DEF HomeInv, Stopped
    <3> QED BY <3>1, <3>2, <3>3
  <2> QED BY <1>1, <2>1, <2>2 DEF TypeInv
<1>5. CASE Add
  <2>1. adding \in Object /\ Adding = Root[adding] /\ Allocate(Adding)
    BY <1>1, <1>5, LiveBuffers DEF Add, Added, Adding, Adds, VMInv, OperationInv, TypeInv, Object
  <2> QED BY <2>1, RootInLineage
<1>6. CASE DefragmentIn
  <2>1. idx \in DOMAIN toMove /\ Allocate(toMove[idx])
    BY <1>1, <1>6 DEF DefragmentIn, Added, TypeInv
  <2> QED BY <1>1, <2>1 DEF TypeInv
<1>7. CASE \/ (\E a \in Alias : AddAlias(a)) \/ (\E o \in Operation : Fetch(o))
           \/ FreeSpaceSkip \/ FreeSpaceFails \/ FreeSpaceDone
           \/ (\E o \in Object : SwapInBuffer(o) \/ SwapInAlias(o) \/ SwapInAsserts(o))
           \/ SwapInDone \/ AddAsserts \/ Defragment \/ DefragmentDone \/ AddFails
           \/ Replace \/ ReplaceAsserts \/ UNCHANGED vars
  BY <1>7 DEF AddAlias, Fetch, FreeSpaceSkip, FreeSpaceFails, FreeSpaceDone, SwapInBuffer,
              SwapInAlias, SwapInAsserts, SwapInDone, AddAsserts, Defragment, DefragmentDone,
              AddFails, AllocateFails, Replace, ReplaceAsserts, vars, poolVars
<1> QED BY <1>2, <1>3, <1>4, <1>5, <1>6, <1>7 DEF Next, Process

(* From the start of an invocation to its wait its buffers keep the         *)
(* addresses that the program was given.                                    *)
THEOREM VMInFlightBuffersStay == Spec => InFlightBuffersStay
PROOF
<1>1. ASSUME VMInv, [Next]_vars
      PROVE  [\A b \in InFlight \cap InFlight' :
                b \in DOMAIN allocations /\ b \in DOMAIN allocations'
                  /\ allocations'[b] = allocations[b]]_vars
  <2> SUFFICES ASSUME NEW b \in InFlight
               PROVE  b \in DOMAIN allocations /\ b \in DOMAIN allocations'
                        /\ allocations'[b] = allocations[b]
    OBVIOUS
  <2>1. b \in DOMAIN allocations
    BY <1>1 DEF VMInv, InFlightInv
  <2>2. CASE UNCHANGED allocations
    BY <2>1, <2>2
  <2>3. CASE \E v \in Value : Allocate(v)
    BY <2>1, <2>3, AllocatedBuffer
  <2>4. CASE \E v \in Value \ InFlight : Free(v)
    BY <2>1, <2>4, FreedBuffer
  <2> QED BY <1>1, <2>2, <2>3, <2>4, PoolSteps
<1> QED BY <1>1, VMInvariant, PTL DEF Spec, InFlightBuffersStay
=============================================================================
