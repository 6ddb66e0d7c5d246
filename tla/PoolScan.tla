------------------------------ MODULE PoolScan ------------------------------
(***************************************************************************)
(* Pool::allocate with its search loops, one step per loop iteration: index *)
(* and offset, the i and j of the code, move as there, including the skip   *)
(* after a conflict and the ++/-- of the outer loop that follows it.  The   *)
(* other methods are those of Pool; nothing interleaves with a search.      *)
(***************************************************************************)
EXTENDS Pool

VARIABLES
  loop,    \* "idle", or the loop of allocate() that is running
  value,   \* the argument of the running allocate()
  index,   \* index of the outer loop
  offset   \* index of the inner loop

scanVars == <<loop, value, index, offset>>
allScanVars == <<poolVars, scanVars>>

sizeWords == SizeWords(value)

(* First word of the block the outer loop looks at: index, or startIndex.   *)
Start == IF IsSmall(value) THEN index ELSE index - sizeWords

ScanInit ==
  /\ PoolInit
  /\ loop = "idle"
  /\ value \in Value
  /\ index = 0
  /\ offset = 0

(* Entry of allocate(): the outer loop starts at the bottom or at the top. *)
Begin(v) ==
  /\ loop = "idle"
  /\ v \notin DOMAIN allocations
  /\ loop' = "outer"
  /\ value' = v
  /\ index' = IF IsSmall(v) THEN 0 ELSE NumWords
  /\ offset' = 0
  /\ UNCHANGED poolVars

(* Mutants: the size of the block forgotten in the bound; one position too *)
(* few.                                                                    *)
MoreToScanWholeMemory == IF IsSmall(value) THEN index < NumWords ELSE index > 0

(* The condition of the outer loop.                                        *)
MoreToScan ==
  IF IsSmall(value) THEN index < NumWords - sizeWords ELSE index > sizeWords

(* Mutant: the ++ of the outer loop is missing.                            *)
AdvanceStays(k) == index' = IF IsSmall(value) THEN k ELSE k - 1

(* The outer loop moves on from index k: k++ or k--.                       *)
Advance(k) == index' = IF IsSmall(value) THEN k + 1 ELSE k - 1

(* if (!used_[start]): the inner loop runs from offset = 0, or the outer    *)
(* one moves by one word.                                                   *)
Outer ==
  /\ loop = "outer"
  /\ MoreToScan
  /\ \/ /\ Start \notin used
        /\ loop' = "inner"
        /\ offset' = 0
        /\ index' = index
     \/ /\ Start \in used
        /\ Advance(index)
        /\ UNCHANGED <<loop, offset>>
  /\ UNCHANGED <<poolVars, value>>

(* Mutants: the words after the first are not looked at; after a conflict  *)
(* the search skips the whole block.                                       *)
InnerFirstWordOnly ==
  /\ loop = "inner"
  /\ offset < sizeWords
  /\ offset' = sizeWords
  /\ UNCHANGED <<poolVars, loop, value, index>>
InnerSkipsBlock ==
  /\ loop = "inner"
  /\ offset < sizeWords
  /\ \/ /\ Start + offset \in used
        /\ loop' = "outer"
        /\ Advance(IF IsSmall(value) THEN index + sizeWords ELSE Start)
        /\ offset' = offset
     \/ /\ Start + offset \notin used
        /\ offset' = offset + 1
        /\ UNCHANGED <<loop, index>>
  /\ UNCHANGED <<poolVars, value>>

(* An iteration of the inner loop: word start + offset is in use, and the   *)
(* outer loop goes on from it; or it is not, and the inner loop goes on.    *)
Inner ==
  /\ loop = "inner"
  /\ offset < sizeWords
  /\ \/ /\ Start + offset \in used
        /\ loop' = "outer"
        /\ Advance(Start + offset)
        /\ offset' = offset
     \/ /\ Start + offset \notin used
        /\ offset' = offset + 1
        /\ UNCHANGED <<loop, index>>
  /\ UNCHANGED <<poolVars, value>>

(* The inner loop ended with found = true: mark the words and return.      *)
Found ==
  /\ loop = "inner"
  /\ offset >= sizeWords
  /\ loop' = "idle"
  /\ used' = used \cup Block(Start, sizeWords)
  /\ usedSizeWords' = usedSizeWords + sizeWords
  /\ allocations' =
       [u \in DOMAIN allocations \cup {value} |->
          IF u = value THEN [baseAddr |-> Start, size |-> sizeWords] ELSE allocations[u]]
  /\ UNCHANGED <<value, index, offset>>

(* The outer loop ran out: return failure().                               *)
NotFound ==
  /\ loop = "outer"
  /\ ~MoreToScan
  /\ loop' = "idle"
  /\ UNCHANGED <<poolVars, value, index, offset>>

Search == Outer \/ Inner \/ Found \/ NotFound

ScanNext ==
  \/ \E v \in Value : Begin(v)
  \/ Search
  \/ /\ loop = "idle"
     /\ (\E v \in Value : Free(v)) \/ Clear
     /\ UNCHANGED scanVars

(* allocate() runs to its end once called.                                 *)
Fairness == WF_allScanVars(Search)

ScanSpec == ScanInit /\ [][ScanNext]_allScanVars /\ Fairness
-----------------------------------------------------------------------------
(* The inner loop only reads entries that used_ has, on every path the two *)
(* index jumps can take.                                                   *)
ReadsInBounds ==
  /\ loop = "outer" /\ MoreToScan => Start \in Words
  /\ loop = "inner" /\ offset < sizeWords => Start + offset \in Words

(* The loops implement Pool: the block they mark is the one Pool's Allocate *)
(* picks, the first position of the search that Fits, and they give up only*)
(* when no position does: the jumps of index skip none.                    *)
ImplementsPool ==
  /\ PoolSpec
  /\ [][NotFound => AllocateFails(value)]_allScanVars

(* Every search ends: index moves on after every conflict.                 *)
SearchEnds == loop # "idle" ~> loop = "idle"
=============================================================================
