----------------------------- MODULE TorqTiling -----------------------------
(***************************************************************************)
(* Splitting one operation over its channels and its rows.  TorqHlTilePass  *)
(* replaces an operation that does not fit in the memory for tiling by      *)
(* tiles: slices of the input, the weights and the scale and bias table are *)
(* extracted, the operation is applied to them, and its result, without the *)
(* rows computed only for their neighbours, is inserted in the output.  The *)
(* pass is greedy: a tile is visited again and may be tiled again.          *)
(* KernelSelectionPass then groups the weights by the channels computed     *)
(* together, and SlicingPass splits each operation over the slices of the   *)
(* NPU.                                                                     *)
(*                                                                         *)
(* A tensor's elements are told apart by channel and row.  An operation     *)
(* carries where its slices begin in the tensors of the operation the pass  *)
(* began with, so that what a tile computes can be compared with it.        *)
(***************************************************************************)
EXTENDS Integers, FiniteSets, FiniteSetsExt

CONSTANTS
  Operations,  \* the operations the pass may begin with
  Memory,      \* TorqHw::getAvailableMemoryForTiling()
  SliceCount,  \* HwInfo::slice_count
  SizeRange,   \* the number of values of a size_t
  IntRange     \* the number of values of an int

Kinds == {"conv1d", "conv2d", "dw", "fc", "add", "d2s", "maxpool", "scatter", "resize"}

Positive == Nat \ {0}

(* No dimension of a tensor, kernel or stride is zero.                      *)
ASSUME TilingAssumption ==
  /\ Memory \in Positive
  /\ SliceCount \in Positive
  /\ SizeRange \in Positive /\ IntRange \in Positive
  /\ Operations \subseteq
       [kind : Kinds, float : BOOLEAN, bytes : Positive, inCh : Positive, outCh : Positive,
        h : Positive, w : Positive, outH : Positive, outW : Positive, k : Positive,
        stride : Positive, top : Nat, factor : Positive, crd : BOOLEAN, xram : BOOLEAN]

VARIABLES
  whole,    \* the operation before the pass
  pending,  \* the operations the greedy driver has still to visit
  tiles,    \* the operations no pattern tiles any more
  kernels,  \* the operations after slicing
  met,      \* the faults met so far (Faults, SliceFaults); for the properties only
  phase     \* "tile", "slice", "done", "trapped", "outside"

vars == <<whole, pending, tiles, kernels, met, phase>>

-----------------------------------------------------------------------------
(* Sizes, in bytes.  A kernel is k by k; a 1-D convolution has a last       *)
(* dimension of factor elements, depth-to-space factor inputs per channel.  *)
AlignCeil(n, a) == ((n + a - 1) \div a) * a
AlignFloor(n, a) == (n \div a) * a
DivCeil(n, d) == (n + d - 1) \div d
Larger(a, b) == IF a > b THEN a ELSE b
Smaller(a, b) == IF a < b THEN a ELSE b

Half == Memory \div 2

InSize(o) == o.bytes * o.inCh * o.h * o.w

OutSize(o) == o.bytes * o.outCh * o.outH * o.outW
                * (IF o.kind = "conv1d" THEN o.factor ELSE 1)

FilterSize(o) == o.bytes * o.inCh *
  CASE o.kind = "conv1d" -> o.factor [] o.kind = "fc" -> 1 [] OTHER -> o.k * o.k

(* Entries of the scale and bias table for a channel.                       *)
Items(o) == IF o.float THEN 1 ELSE 2

OperandsSize(o) == InSize(o) + OutSize(o) + o.outCh * (FilterSize(o) + 4 * Items(o))

FrameSize(o, h, w) == AlignCeil((h + 2) * w * o.bytes, 64)
InFrame(o) == FrameSize(o, o.h, o.w)
OutFrame(o) == FrameSize(o, o.outH, o.outW)

(* Channels are processed in blocks of 16, 8 or 4, or one by one.           *)
InBlocks(n) == CASE n >= 16 -> AlignFloor(n, 16)
                 [] n \in 8 .. 15 -> 8
                 [] n \in 4 .. 7 -> 4
                 [] OTHER -> 1

-----------------------------------------------------------------------------
(* What each pattern decides: whether the operation fits, whether one       *)
(* channel of it is too large, how many channels a tile has, how many input *)
(* channels it extracts for each of them (0: all, for the whole tile), and  *)
(* whether a tile is cut in stripes of rows.                                *)
Conv1D(o) ==
  [fits |-> OperandsSize(o) < Memory,
   inPerOut |-> 0, striped |-> TRUE,
   tooLarge |-> OutFrame(o) > Half,
   channels |-> InBlocks(Half \div (OutFrame(o) + FilterSize(o)))]

(* The input and the output may be needed twice; the share of the channels  *)
(* is reduced when the output decides.                                      *)
Conv2D(o) ==
  LET needed == Larger(OperandsSize(o), 2 * InSize(o))
      most == Half \div (OutFrame(o) + FilterSize(o))
      doubled == needed < 2 * OutSize(o)
  IN  [fits |-> Larger(needed, 2 * OutSize(o)) <= Memory,
       inPerOut |-> 0, striped |-> TRUE,
       tooLarge |-> OutFrame(o) > Half,
       channels |-> InBlocks(IF doubled
                             THEN (most * needed) \div (2 * OutSize(o))
                             ELSE most)]

DepthWise2D(o) ==
  LET available == Smaller(Memory, 300 * 1024)
      channel == InFrame(o) + Larger(OutFrame(o), InFrame(o))
  IN  [fits |-> InSize(o) + Larger(OutSize(o), InSize(o)) <= available,
       inPerOut |-> 1, striped |-> FALSE,
       tooLarge |-> channel > available,
       channels |-> InBlocks(available \div channel)]

(* What an int holds of n. *)
Signed(n) ==
  LET m == n % IntRange IN IF 2 * m < IntRange THEN m ELSE m - IntRange

(* A tile of less than 64 channels is reported, and the pattern goes on.    *)
(* The memory that the input leaves is a size_t: it wraps when the input is *)
(* larger than the memory.                                                  *)
FullyConnected(o) ==
  LET left == (Memory - InSize(o)) % SizeRange
      most == left \div DivCeil(OperandsSize(o) - InSize(o), o.outCh)
  IN  [fits |-> OperandsSize(o) < Memory,
       inPerOut |-> 0, striped |-> FALSE,
       tooLarge |-> FALSE,
       channels |-> Signed(AlignFloor(most % IntRange, 64))]

Add(o) ==
  LET channel == OutFrame(o) + 2 * InFrame(o)
  IN  [fits |-> OutSize(o) + 2 * InSize(o) < Memory,
       inPerOut |-> 1, striped |-> FALSE,
       tooLarge |-> channel > Memory,
       channels |-> AlignFloor(Memory \div channel, 4)]

DepthToSpace(o) ==
  LET channel == OutFrame(o) + o.factor * InFrame(o)
  IN  [fits |-> OutSize(o) + InSize(o) < Memory,
       inPerOut |-> o.factor, striped |-> FALSE,
       tooLarge |-> channel > Memory,
       channels |-> Memory \div channel]

(* Segmentation of the input of a stride 2 pooling needs the input twice.   *)
MaxPool(o) ==
  LET second(out, in) == IF o.stride = 2 THEN in ELSE out
      channel == InFrame(o) + second(OutFrame(o), InFrame(o))
  IN  [fits |-> InSize(o) + second(OutSize(o), InSize(o)) < Memory,
       inPerOut |-> 1, striped |-> FALSE,
       tooLarge |-> channel > Memory,
       channels |-> InBlocks(Memory \div channel)]

Scatter(o) == [fits |-> o.outCh = 1, inPerOut |-> 1, striped |-> FALSE,
               tooLarge |-> FALSE, channels |-> 1]

ResizeNearest(o) ==
  [fits |-> OutSize(o) + InSize(o) < Memory,
   inPerOut |-> 1, striped |-> FALSE,
   tooLarge |-> OutFrame(o) + InFrame(o) > Memory,
   channels |-> 64]

Pattern(o) ==
  CASE o.kind = "conv1d" -> Conv1D(o)
    [] o.kind = "conv2d" -> Conv2D(o)
    [] o.kind = "dw" -> DepthWise2D(o)
    [] o.kind = "fc" -> FullyConnected(o)
    [] o.kind = "add" -> Add(o)
    [] o.kind = "d2s" -> DepthToSpace(o)
    [] o.kind = "maxpool" -> MaxPool(o)
    [] o.kind = "scatter" -> Scatter(o)
    [] o.kind = "resize" -> ResizeNearest(o)

-----------------------------------------------------------------------------
(* Stripes of a convolution.  Each channel tile cuts the rows in as many    *)
(* stripes as the channel tile before it; rows that are left over make one  *)
(* more, and the count keeps it.                                            *)
Striped(o) == Pattern(o).striped

(* The channels are divided into tiles and a rest.  A number of channels    *)
(* that is negative makes the rest the only tile, or leaves no tile at all; *)
(* so does zero where the division by it does not trap.                     *)
TileChannels(o) == IF Pattern(o).channels > 0 THEN Pattern(o).channels ELSE o.outCh

Lost(o) == Pattern(o).channels < 0 /\ -Pattern(o).channels <= o.outCh

ChannelTiles(o) == IF Lost(o) THEN 0 ELSE DivCeil(o.outCh, TileChannels(o))

StripeCountOne(o, i) == 1

StripeCount(o, i) ==
  LET n == DivCeil(InSize(o), Half)
  IN  Max({m \in n .. n + i : \A before \in n .. m - 1 : o.outH % before > 0})

OutHalo(o) == (o.k - 1) \div 2
InHaloOfOutput(o) == OutHalo(o)
InHalo(o) == IF o.stride = 2 THEN AlignCeil(OutHalo(o), 2) ELSE OutHalo(o)

(* Stripe s of n: the rows of o it reads, the rows it computes, how many of *)
(* them it drops at the top, the rows it keeps and where they go.           *)
Stripe(o, n, s) ==
  LET left == o.outH % n
      last == IF left > 0 THEN n ELSE n - 1
      isLeft == s = last /\ left > 0
      rows == IF isLeft THEN o.h % n ELSE o.h \div n
      kept == IF isLeft THEN left ELSE o.outH \div n
      above(halo) == IF s > 0 THEN halo ELSE 0
      below(halo) == IF s < last THEN halo ELSE 0
  IN  [row |-> s * (o.h \div n) - above(InHalo(o)),
       h |-> rows + above(InHalo(o)) + below(InHalo(o)),
       outH |-> kept + above(OutHalo(o)) + below(OutHalo(o)),
       drop |-> above(OutHalo(o)),
       kept |-> kept,
       to |-> s * (o.outH \div n)]

Stripes(o, i) ==
  LET n == StripeCount(o, i)
      count == IF o.outH % n > 0 THEN n + 1 ELSE n
  IN  {Stripe(o, n, s) : s \in 0 .. count - 1}

WholeHeight(o) ==
  [row |-> 0, h |-> o.h, outH |-> o.outH, drop |-> 0, kept |-> o.outH, to |-> 0]

InPerOut(o) == Pattern(o).inPerOut

Inside(offset, size, n) == offset >= 0 /\ offset + size <= n

Tile(o, first, count, st) ==
  [o EXCEPT
    !.outCh = count,
    !.to = @ + first,
    !.weights = @ + first,
    !.bias = @ + Items(o) * first,
    !.inCh = IF InPerOut(o) = 0 THEN @ ELSE InPerOut(o) * count,
    !.from = @ + InPerOut(o) * first,
    !.row = @ + st.row,
    !.h = st.h,
    !.outH = st.outH,
    !.out = @ + st.to - st.drop,
    !.keep = {r \in st.drop .. st.drop + st.kept - 1 : r + st.to - st.drop \in o.keep},
    !.inside = @ /\ Inside(st.row, st.h, o.h) /\ Inside(first, count, o.outCh)
                 /\ Inside(st.to, st.kept, o.outH)]

(* The tiles of o: by channels, and by stripes in each.                     *)
TiledFullTiles(o) ==
  {Tile(o, i * TileChannels(o), TileChannels(o), WholeHeight(o)) :
     i \in 0 .. ChannelTiles(o) - 1}

Tiled(o) ==
  LET channels == TileChannels(o)
      count(i) == Smaller(channels, o.outCh - i * channels)
  IN  UNION {{Tile(o, i * channels, count(i), st) :
                st \in IF Striped(o) THEN Stripes(o, i) ELSE {WholeHeight(o)}} :
             i \in 0 .. ChannelTiles(o) - 1}

-----------------------------------------------------------------------------
(* Kernel selection: the channels computed together, by which the weights   *)
(* are packed in groups; too few channels are left as they are, and then    *)
(* the last dimension of the weights is the width of the kernel.  (A depth- *)
(* wise operation on NHWC input, 32 by 32, has its channels elsewhere and   *)
(* is not modelled.)                                                        *)
ParallelOuts(o) ==
  LET macs(pixels, outs) == DivCeil(o.outH * o.outW, pixels) * DivCeil(o.outCh, outs)
      by8 == macs(32, 8) < macs(64, 4) /\ o.outCh >= 8
      best == IF by8 THEN macs(32, 8) ELSE macs(64, 4)
  IN  CASE o.kind = "dw" -> 4
        [] o.kind # "dw" /\ macs(16, 16) < best /\ o.outCh >= 16 -> 16
        [] OTHER -> IF by8 THEN 8 ELSE 4

Grouping(o) ==
  CASE o.kind = "fc" -> 64
    [] o.kind # "fc" /\ o.outCh >= ParallelOuts(o) -> ParallelOuts(o)
    [] OTHER -> o.k

(* Slicing: only an operation whose result is converted to XRAM.            *)
SliceChannels(o) == o.outCh \div SliceCount

(* A pattern: whether it slices the operation, and the scale and bias       *)
(* entries of a slice.  A fully connected operation takes two per channel,  *)
(* the others a share of the table.                                         *)
SliceFullyConnected(o) ==
  [applies |-> SliceChannels(o) > 0 /\ SliceChannels(o) % Grouping(o) = 0,
   items |-> SliceChannels(o) * 2]

SliceConv2D(o) ==
  [applies |-> o.outCh % (SliceCount * Grouping(o)) = 0,
   items |-> (Items(o) * o.outCh) \div SliceCount]

SliceDepthWise2D(o) ==
  [applies |-> o.outCh % (SliceCount * Grouping(o)) = 0 /\ o.stride # 2,
   items |-> (Items(o) * o.outCh) \div SliceCount]

SlicePattern(o) == CASE o.kind = "fc" -> SliceFullyConnected(o)
                     [] o.kind = "conv2d" -> SliceConv2D(o)
                     [] o.kind = "dw" -> SliceDepthWise2D(o)
                     [] OTHER -> [applies |-> FALSE, items |-> 0]

CanBeSliced(o) == o.xram /\ SlicePattern(o).applies

Slice(o, i) ==
  LET n == SliceChannels(o)
      items == SlicePattern(o).items
  IN  [Tile(o, i * n, n, WholeHeight(o)) EXCEPT
        !.bias = o.bias + i * items,
        !.inside = @ /\ Inside(i * items, items, Items(o) * o.outCh)]

Slices(o) == IF CanBeSliced(o) THEN {Slice(o, i) : i \in 0 .. SliceCount - 1}
             ELSE {o}

-----------------------------------------------------------------------------
(* The operations that the code splits wrongly: each of these faults breaks *)
(* TilesComputeTheResult, "short stripe" and "float table" SlicesAreInside. *)
(* The passes know none of them and go on; met remembers them.              *)
Counts(o) == {StripeCount(o, i) : i \in 0 .. ChannelTiles(o) - 1}

OddStripes(o) ==   \* stripes of the input and of the output drift apart
  \E n \in Counts(o) \ {1} :
    \/ o.h \div n # o.stride * (o.outH \div n)
    \/ o.outH % n # DivCeil(o.h % n, o.stride)
    \/ o.stride > 2 \/ (o.stride = 2 /\ o.k > 4)

WideKernel(o) ==   \* the kernel reaches beyond the halo
  \E n \in Counts(o) \ {1} : o.top > InHalo(o) \/ o.k - o.top > InHalo(o) + o.stride

ShortStripe(o) ==  \* a stripe has no rows, or fewer than its neighbour's halo
  \E n \in Counts(o) \ {1} :
    \/ o.h \div n < Larger(1, InHalo(o))
    \/ o.outH % n > 0 /\ o.h % n < Larger(1, InHalo(o))

Faults(o) ==
  {f \in {"odd stripes", "wide kernel", "short stripe", "dcr", "lost"} :
     /\ ~Pattern(o).fits /\ ~Pattern(o).tooLarge
     /\ CASE f = "odd stripes" -> Striped(o) /\ OddStripes(o)
          [] f = "wide kernel" -> Striped(o) /\ WideKernel(o)
          [] f = "short stripe" -> Striped(o) /\ ShortStripe(o)
          [] f = "dcr" -> o.kind = "d2s" /\ ~o.crd
          [] f = "lost" -> Lost(o)}

SliceFaults(o) ==
  {f \in {"odd channels", "float table"} :
     /\ CanBeSliced(o) /\ o.kind = "fc"
     /\ CASE f = "odd channels" -> o.outCh % SliceCount # 0
          [] f = "float table" -> o.float}

-----------------------------------------------------------------------------
(* An operation as the pass finds it: it begins at the origin of its tensors *)
(* and keeps all its rows.                                                  *)
Whole(o) ==
  [kind |-> o.kind, float |-> o.float, bytes |-> o.bytes, inCh |-> o.inCh, outCh |-> o.outCh,
   h |-> o.h, w |-> o.w, outH |-> o.outH, outW |-> o.outW, k |-> o.k, stride |-> o.stride,
   top |-> o.top, factor |-> o.factor, crd |-> o.crd, xram |-> o.xram,
   to |-> 0, weights |-> 0, bias |-> 0, from |-> 0, row |-> 0, out |-> 0,
   keep |-> 0 .. o.outH - 1, inside |-> TRUE]

Init ==
  /\ \E o \in Operations : whole = Whole(o)
  /\ pending = {whole}
  /\ tiles = {}
  /\ kernels = {}
  /\ met = {}
  /\ phase = "tile"

(* The order in which the driver visits them makes no difference: what a    *)
(* tile inserts does not depend on another one.                             *)
Visited(os) == CHOOSE o \in os : TRUE

Visit(o) == phase = "tile" /\ pending # {} /\ o = Visited(pending)

(* No pattern matches the operation. *)
Keep(o) ==
  /\ Visit(o)
  /\ Pattern(o).fits
  /\ tiles' = tiles \cup {o}
  /\ pending' = pending \ {o}
  /\ UNCHANGED <<whole, kernels, met, phase>>

(* A channel is too large: the pattern reports an error and fails, and the  *)
(* driver leaves the operation as it is.                                    *)
Refuse(o) ==
  /\ Visit(o)
  /\ ~Pattern(o).fits /\ Pattern(o).tooLarge
  /\ tiles' = tiles \cup {o}
  /\ pending' = pending \ {o}
  /\ UNCHANGED <<whole, kernels, met, phase>>

(* The operation is replaced by its tiles, which may be itself.  What       *)
(* becomes of a slice that reaches outside its tensor is not modelled: it   *)
(* is made, and the run ends.                                               *)
Replace(o) ==
  /\ Visit(o)
  /\ ~Pattern(o).fits /\ ~Pattern(o).tooLarge
  /\ pending' = (pending \ {o}) \cup Tiled(o)
  /\ met' = met \cup Faults(o)
  /\ phase' = IF \A t \in Tiled(o) : t.inside THEN "tile" ELSE "outside"
  /\ UNCHANGED <<whole, tiles, kernels>>

(* Not even one block of channels fits: the division by zero may trap.      *)
Trap(o) ==
  /\ Visit(o)
  /\ ~Pattern(o).fits /\ ~Pattern(o).tooLarge /\ Pattern(o).channels = 0
  /\ phase' = "trapped"
  /\ UNCHANGED <<whole, pending, tiles, kernels, met>>

Converged ==
  /\ phase = "tile" /\ pending = {}
  /\ phase' = "slice"
  /\ UNCHANGED <<whole, pending, tiles, kernels, met>>

SlicingPass ==
  /\ phase = "slice"
  /\ kernels' = UNION {Slices(o) : o \in tiles}
  /\ met' = met \cup UNION {SliceFaults(o) : o \in tiles}
  /\ phase' = "done"
  /\ UNCHANGED <<whole, pending, tiles>>

Next ==
  \/ \E o \in pending : Keep(o) \/ Refuse(o) \/ Replace(o) \/ Trap(o)
  \/ Converged \/ SlicingPass

(* The passes run to their end on one thread.                               *)
Spec == Init /\ [][Next]_vars /\ WF_vars(Next)

-----------------------------------------------------------------------------
(* What an element of the result is computed from.  Outside its tile a      *)
(* convolution reads padding.                                               *)
RowsRead(o, r) ==
  IF Striped(o)
  THEN [j \in 0 .. o.k - 1 |->
          LET p == r * o.stride - o.top + j
          IN  IF p \in 0 .. o.h - 1 THEN o.row + p ELSE -1000]
  ELSE [j \in 0 .. 0 |-> <<o.row, o.h>>]

ChannelsRead(o, c) ==
  {o.from + j : j \in
     CASE InPerOut(o) = 0 -> 0 .. o.inCh - 1
       [] o.kind = "d2s" /\ ~o.crd -> {b * o.outCh + c : b \in 0 .. o.factor - 1}
       [] OTHER -> c * InPerOut(o) .. (c + 1) * InPerOut(o) - 1}

ComputedFrom(o, c, r) ==
  [weights |-> o.weights + c, bias |-> o.bias + Items(o) * c,
   channels |-> ChannelsRead(o, c), rows |-> RowsRead(o, r)]

Computes(o, c, r) == c - o.to \in 0 .. o.outCh - 1 /\ r - o.out \in o.keep

(* Every element of the output is inserted by one tile, which computes it   *)
(* from the weights, the scale and bias, the input channels and the input   *)
(* rows that the whole operation uses for it (the patterns of               *)
(* TorqHlTilePass.cpp and SlicingPass.cpp): no channel or row is lost at a  *)
(* remainder, and no stripe lacks a row of its neighbour.  A run that met a *)
(* fault is not meant: each of them breaks this.                            *)
TilesComputeTheResult ==
  phase = "done" /\ met = {} =>
    \A c \in 0 .. whole.outCh - 1, r \in 0 .. whole.outH - 1 :
      LET by == {o \in kernels : Computes(o, c, r)}
      IN  /\ Cardinality(by) = 1
          /\ \A o \in by :
               ComputedFrom(o, c - o.to, r - o.out) = ComputedFrom(whole, c, r)

(* Every slice the passes extract or insert lies inside its tensor, however *)
(* often the operation was tiled before, also while the tiling makes no     *)
(* progress, when the channels do not divide into blocks or over the slices *)
(* and when the rows read and kept drift apart.  Not so, and not meant, are *)
(* runs that met a stripe with fewer rows than the halo its neighbour reads *)
(* from it, or a fully connected operation with one table entry a channel   *)
(* that is sliced as if it had two.                                         *)
SlicesAreInside ==
  met \cap {"short stripe", "float table"} = {} =>
    \A o \in pending \cup tiles \cup kernels : o.inside

(* What the pattern makes of an operation that is as large as it: all its   *)
(* channels, and no stripes, or one stripe with a halo as large as the rest.*)
NoProgress(o) ==
  /\ ~Pattern(o).fits /\ ~Pattern(o).tooLarge
  /\ TileChannels(o) >= o.outCh
  /\ \/ Striped(o) => InSize(o) <= Half
     \/ StripeCount(o, 0) > 1 /\ \E st \in Stripes(o, 0) : st.h >= o.h

(* The greedy rewriting of TorqHlTilePass::runOnOperation does not always   *)
(* end: it visits the tiles again.  It ends, traps or makes a slice outside *)
(* its tensor, unless it meets an operation that it makes no progress on,   *)
(* and it stays with that one for ever.                                     *)
OnlyNoProgressIsEndless ==
  \/ <>(phase \in {"done", "trapped", "outside"})
  \/ <>[](\E o \in pending : NoProgress(o))
=============================================================================
