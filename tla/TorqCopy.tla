------------------------------ MODULE TorqCopy ------------------------------
(***************************************************************************)
(* Copies between memrefs.  createTorqCopy (Codegen/BufferizationUtils.cpp) *)
(* picks the operations that move the elements of one memref to another:    *)
(* DMA loads and stores, whose LRAM side is contiguous and whose XRAM side  *)
(* has at most MaxDmaStrides strides, host copies between XRAM buffers,     *)
(* conversions between layouts in LRAM, and raw copies to and from the      *)
(* memories of the CSS.  The addresses and strides come from the memref's   *)
(* type: its encoding (strides of the buffer it lives in) and, for a        *)
(* subview, its strided layout (Utils/EncodingUtils.cpp, MemoryUtils.cpp).  *)
(* The operations then run one after the other on the device and the host.  *)
(*                                                                         *)
(* An element is one byte.  A cell of memory is a space and an address, its *)
(* contents the cell where they were first: mem has the cells written so    *)
(* far.                                                                     *)
(***************************************************************************)
EXTENDS Integers, Sequences, FiniteSets, FiniteSetsExt

CONSTANTS
  Counts,          \* shapes of the buffers
  Alignments,      \* requirements on strides: [shape -> set of alignments]
  MaxDmaStrides,   \* strides of a DMA descriptor (4)
  Area,            \* bytes kept apart for each buffer
  Included         \* the copies that go wrong and that are included (see Sound)

ASSUME CopyAssumption ==
  /\ MaxDmaStrides \in Nat
  /\ Area \in Nat \ {0}
  /\ Counts \subseteq Seq(Nat \ {0})
  /\ << >> \notin Counts    \* rank 0 has no naturalStrides[rank - 1]
  /\ \A c \in Counts : Alignments[c] \subseteq [DOMAIN c -> Int]
  /\ Included \subseteq {"padded parts", "strided loads"}

(* Products and scalar products of all dimensions from one on. *)
Product(s, from) ==
  LET product[i \in 1 .. Len(s) + 1] == IF i > Len(s) THEN 1 ELSE s[i] * product[i + 1]
  IN  product[from]

DotFrom(s, t, from) ==
  LET dot[i \in 1 .. Len(s) + 1] == IF i > Len(s) THEN 0 ELSE s[i] * t[i] + dot[i + 1]
  IN  dot[from]

Dot(s, t) == DotFrom(s, t, 1)

Zeros(s) == [i \in DOMAIN s |-> 0]

(***************************************************************************)
(* Memref types.  A buffer has counts and, unless it is dense, the strides  *)
(* of its encoding; a memref is the part of it that begins at start.  MLIR  *)
(* keeps, for a part, the strides and the offset it would have in a dense   *)
(* buffer.                                                                  *)
(***************************************************************************)
NaturalStrides(shape) == [i \in DOMAIN shape |-> Product(shape, i + 1)]

AlignCeil(n, a) == ((n + a - 1) \div a) * a

Abs(a) == IF a < 0 THEN -a ELSE a

(* getAlignedStrides: a positive alignment is in elements, a negative one   *)
(* in elements of the next dimension.                                       *)
AlignedStrides(shape, align) ==
  LET n == Len(shape)
      strides[i \in DOMAIN shape] ==
        CASE i = n -> AlignCeil(1, IF align[n] = 0 THEN 1 ELSE Abs(align[n]))
          [] i < n /\ align[i] > 0 ->
               AlignCeil(shape[i + 1] * strides[i + 1], align[i])
          [] i < n /\ align[i] < 0 ->
               AlignCeil(shape[i + 1], Abs(align[i])) * strides[i + 1]
          [] OTHER -> shape[i + 1] * strides[i + 1]
  IN  strides

(* createAlignedEncoding and createDenseEncoding. *)
Encodings(counts) ==
  {<< >>} \cup {AlignedStrides(counts, a) : a \in Alignments[counts]}

(* The areas of the model are large enough for the buffers. *)
ASSUME AreaAssumption ==
  \A c \in Counts : /\ Product(c, 1) <= Area
                    /\ \A a \in Alignments[c] : AlignedStrides(c, a)[1] * c[1] <= Area

Dense(space, addr, shape) ==
  [space |-> space, addr |-> addr, counts |-> shape, enc |-> << >>,
   shape |-> shape, start |-> Zeros(shape)]

IsIdentityLayout(t) == t.shape = t.counts

LayoutOffset(t) == Dot(t.start, NaturalStrides(t.counts))

HasDenseEncoding(t) == t.enc = << >> \/ t.enc = NaturalStrides(t.shape)

IsDenseInMemory(t) == HasDenseEncoding(t) /\ IsIdentityLayout(t)

(* getEncodedStridesElements. *)
EncodedStrides(t) == IF HasDenseEncoding(t) THEN NaturalStrides(t.counts)
                     ELSE t.enc

(* getMemRefTypeOffsetBytes.  For a part of a buffer that is not dense it   *)
(* finds the coordinates of the offset and multiplies them with the strides *)
(* of the layout again.                                                     *)
OffsetElements(t) ==
  LET natural == NaturalStrides(t.counts)
      offset == LayoutOffset(t)
      coords == [i \in DOMAIN natural |->
                   (IF i = 1 THEN offset ELSE offset % natural[i - 1]) \div natural[i]]
  IN  IF offset # 0 /\ ~HasDenseEncoding(t) THEN Dot(coords, natural) ELSE offset

(* getDataStartAddress: the base address plus the offset of the type. *)
DataStart(t) == t.addr + OffsetElements(t)

(* getEncodedDataSizeElements. *)
DataSize(t) == Dot([i \in DOMAIN t.shape |-> t.shape[i] - 1], EncodedStrides(t)) + 1

\* Mutant: the size ignores where in its row the part begins.
TotalSizeOfRows(t) == EncodedStrides(t)[1] * t.shape[1]

(* getEncodedTotalSizeElements, without padding. *)
TotalSize(t) ==
  IF t.enc = << >>
  THEN NaturalStrides(t.counts)[1] * t.shape[1]
         - (LayoutOffset(t) % NaturalStrides(t.counts)[1])
  ELSE EncodedStrides(t)[1] * t.shape[1]

(***************************************************************************)
(* computeStrides: the trailing dimensions that are contiguous on both      *)
(* sides become one block, the others are kept with their strides.  A       *)
(* dimension of one element, which the code skips, has no stride: like      *)
(* those inside the block it stays here as a dimension of one step.         *)
(***************************************************************************)
Blocks(from, to, last) ==
  [from |-> EncodedStrides(from),
   to |-> EncodedStrides(to),
   shape |-> [i \in DOMAIN from.shape |-> IF i < last THEN from.shape[i] ELSE 1],
   size |-> Product(from.shape, last)]

Strides(blocks) == Cardinality({i \in DOMAIN blocks.shape : blocks.shape[i] # 1})

\* Mutant: only the source is asked whether a dimension is contiguous.
ComputeStridesOfSource(from, to) ==
  LET n == Len(from.shape)
      Contiguous(i) == \A j \in i .. n : EncodedStrides(from)[j] = Product(from.shape, j + 1)
  IN  Blocks(from, to, Min({n + 1} \cup {i \in 1 .. n : Contiguous(i)}))

ComputeStrides(from, to) ==
  LET n == Len(from.shape)
      Contiguous(i) == \A j \in i .. n :
        /\ EncodedStrides(from)[j] = EncodedStrides(to)[j]
        /\ EncodedStrides(from)[j] = Product(from.shape, j + 1)
  IN  Blocks(from, to, Min({n + 1} \cup {i \in 1 .. n : Contiguous(i)}))

(***************************************************************************)
(* The operations of a copy.                                                *)
(***************************************************************************)
Op(kind, from, to, blocks) == [kind |-> kind, from |-> from, to |-> to, blocks |-> blocks]

TmpLram(shape) == Dense("lram", 2 * Area, shape)
TmpXram(shape) == Dense("xram", 3 * Area, shape)

HostCopyOp(from, to) == <<Op("host", from, to, ComputeStrides(from, to))>>

ConvertOp(from, to) == <<Op("convert", from, to, [from |-> EncodedStrides(from),
                            to |-> EncodedStrides(to), shape |-> from.shape, size |-> 1])>>

TooManyStrides(blocks) == Strides(blocks) > MaxDmaStrides

\* Mutant: the DMA is used however many strides there are.
StoreBlocksAnyStrides(from, to) == <<Op("store", from, to, ComputeStrides(from, to))>>

(* createStoreOp, from a contiguous buffer. *)
StoreBlocks(from, to) ==
  LET blocks == ComputeStrides(from, to)
      dense == TmpXram(from.shape)
  IN  IF TooManyStrides(blocks)
      THEN <<Op("store", from, dense, ComputeStrides(from, dense))>> \o HostCopyOp(dense, to)
      ELSE <<Op("store", from, to, blocks)>>

CreateStoreOp(from, to) ==
  IF IsDenseInMemory(from) THEN StoreBlocks(from, to)
  ELSE ConvertOp(from, TmpLram(from.shape)) \o StoreBlocks(TmpLram(from.shape), to)

(* createLoadOp, to a contiguous buffer.  The host copy is created from the *)
(* temporary buffer to the source.                                          *)
LoadBlocks(from, to) ==
  LET blocks == ComputeStrides(from, to)
      dense == TmpXram(from.shape)
  IN  IF TooManyStrides(blocks)
      THEN HostCopyOp(dense, from) \o <<Op("load", dense, to, ComputeStrides(dense, to))>>
      ELSE <<Op("load", from, to, blocks)>>

\* Mutant: a buffer that is not dense is loaded as if it were.
CreateLoadOpDense(from, to) == LoadBlocks(from, to)

CreateLoadOp(from, to) ==
  IF IsDenseInMemory(to) THEN LoadBlocks(from, to)
  ELSE LoadBlocks(from, TmpLram(from.shape)) \o ConvertOp(TmpLram(from.shape), to)

CreateTorqCopy(from, to) ==
  CASE from.space = "lram" /\ to.space = "xram" -> CreateStoreOp(from, to)
    [] from.space = "xram" /\ to.space = "lram" -> CreateLoadOp(from, to)
    [] from.space = "xram" /\ to.space = "xram" -> HostCopyOp(from, to)
    [] from.space = "lram" /\ to.space = "lram" -> ConvertOp(from, to)
    [] OTHER -> <<Op("copy", from, to, [from |-> << >>, to |-> << >>, shape |-> << >>,
                                        size |-> DataSize(from)])>>

(***************************************************************************)
(* Running them.  The host copy and the conversion follow the strides of    *)
(* both sides; a DMA reads or writes LRAM contiguously.                     *)
(***************************************************************************)
VARIABLES
  from, to,   \* the memrefs
  ops,        \* operations still to run
  pc,         \* "lower", "run" or "done"
  mem         \* the cells written, with their contents

vars == <<from, to, ops, pc, mem>>

Indices(shape) ==
  {f \in [DOMAIN shape -> 0 .. Max({0} \cup {shape[i] - 1 : i \in DOMAIN shape})] :
     \A i \in DOMAIN shape : f[i] < shape[i]}

Contiguously(blocks) == [i \in DOMAIN blocks.shape |-> blocks.size * Product(blocks.shape, i + 1)]

(* The strides on the two sides of an operation: copyDimension for the      *)
(* host, createNdl for the DMA.                                             *)
ReadStrides(o) == IF o.kind = "store" THEN Contiguously(o.blocks) ELSE o.blocks.from
WriteStrides(o) == IF o.kind = "load" THEN Contiguously(o.blocks) ELSE o.blocks.to

(* The cells that an operation reads and writes. *)
Moves(o) ==
  {<<<<o.from.space, DataStart(o.from) + Dot(idx, ReadStrides(o)) + e>>,
     <<o.to.space, DataStart(o.to) + Dot(idx, WriteStrides(o)) + e>>>> :
     idx \in Indices(o.blocks.shape), e \in 0 .. o.blocks.size - 1}

Read(cell) == IF cell \in DOMAIN mem THEN mem[cell] ELSE cell

(***************************************************************************)
(* The memrefs of a copy: parts of two buffers, of the same shape.  Copies  *)
(* to and from the memories of the CSS are restricted to whole dense        *)
(* buffers: the raw copy moves as many bytes as the encoded size of its     *)
(* source, whatever the strides (Serialization.cpp:402-403), so what it     *)
(* would make of a part or of padded rows is left out.                      *)
(***************************************************************************)
Spaces == {<<"xram", "lram">>, <<"lram", "xram">>, <<"xram", "xram">>,
           <<"lram", "lram">>, <<"lram", "dtcm">>, <<"dtcm", "lram">>}

Parts(counts) ==
  {p \in [shape : Indices([i \in DOMAIN counts |-> counts[i] + 1]), start : Indices(counts)] :
     \A i \in DOMAIN counts : p.shape[i] > 0 /\ p.start[i] + p.shape[i] <= counts[i]}

Memrefs(space, addr, raw) ==
  UNION {{[space |-> space, addr |-> addr, counts |-> counts, enc |-> enc,
           shape |-> p.shape, start |-> p.start] :
            enc \in (IF raw THEN {<< >>} ELSE Encodings(counts)),
            p \in (IF raw THEN {[shape |-> counts, start |-> Zeros(counts)]}
                   ELSE Parts(counts))} :
         counts \in Counts}

(* The copies that are right: a part of a buffer that is not dense begins   *)
(* where the buffer does, and a load has no more strides than the DMA.      *)
Sound(f, t) ==
  /\ "padded parts" \in Included \/
       \A m \in {f, t} : LayoutOffset(m) = 0 \/ HasDenseEncoding(m)
  /\ f.space = "xram" /\ t.space = "lram" =>
       \/ "strided loads" \in Included
       \/ ~TooManyStrides(ComputeStrides(f, IF IsDenseInMemory(t) THEN t ELSE TmpLram(t.shape)))

Init ==
  /\ \E s \in Spaces :
       LET raw == "dtcm" \in {s[1], s[2]}
       IN  \E f \in Memrefs(s[1], 0, raw), t \in Memrefs(s[2], Area, raw) :
             /\ f.shape = t.shape
             /\ Sound(f, t)
             /\ from = f
             /\ to = t
  /\ ops = << >>
  /\ pc = "lower"
  /\ mem = << >>

Lower ==
  /\ pc = "lower"
  /\ ops' = CreateTorqCopy(from, to)
  /\ pc' = "run"
  /\ UNCHANGED <<from, to, mem>>

Run ==
  /\ pc = "run"
  /\ ops # << >>
  /\ LET moves == Moves(Head(ops))
         written == {m[2] : m \in moves}
     IN  mem' = [c \in DOMAIN mem \cup written |->
                   IF c \in written THEN Read((CHOOSE m \in moves : m[2] = c)[1]) ELSE mem[c]]
  /\ ops' = Tail(ops)
  /\ UNCHANGED <<from, to, pc>>

Done ==
  /\ pc = "run"
  /\ ops = << >>
  /\ pc' = "done"
  /\ UNCHANGED <<from, to, ops, mem>>

Next == Lower \/ Run \/ Done \/ (pc = "done" /\ UNCHANGED vars)

Spec == Init /\ [][Next]_vars

-----------------------------------------------------------------------------
(* Where an element of a memref really is: by the strides of its buffer.    *)
BufferStrides(t) == IF t.enc = << >> THEN NaturalStrides(t.counts) ELSE t.enc
Element(t, idx) ==
  <<t.space, t.addr + Dot([i \in DOMAIN idx |-> t.start[i] + idx[i]], BufferStrides(t))>>

Elements(t) == {Element(t, idx) : idx \in Indices(t.shape)}

Temporary == {"xram", "lram"} \X (2 * Area .. 4 * Area - 1)

(* After the operations of createTorqCopy have run, every element of the    *)
(* destination is the element of the source with the same index, whatever   *)
(* the layouts, strides and temporary buffers on the way.                   *)
CopyArrives ==
  pc = "done" => \A idx \in Indices(from.shape) : Read(Element(to, idx)) = Element(from, idx)

(* No operation of a copy writes a byte outside the destination's elements  *)
(* and its own temporary buffers: not the rest of a buffer the destination  *)
(* is a part of, not the padding of its rows, not the source.               *)
OnlyDestinationChanges == DOMAIN mem \subseteq Elements(to) \cup Temporary

(* What the DMA can do: each load or store has at most MaxDmaStrides        *)
(* strides, and its LRAM side is a buffer without gaps, which it reads or   *)
(* writes from end to end.                                                  *)
DmaIsPossible ==
  \A o \in {ops[i] : i \in DOMAIN ops} : o.kind \in {"load", "store"} =>
    LET lram == IF o.kind = "load" THEN o.to ELSE o.from
    IN  /\ Strides(o.blocks) <= MaxDmaStrides
        /\ Cardinality(Moves(o)) = Cardinality(Elements(lram))
        /\ {IF o.kind = "load" THEN m[2] ELSE m[1] : m \in Moves(o)} = Elements(lram)

(* The size that the serializer and the allocators take for a part of a     *)
(* dense buffer (getEncodedTotalSizeElements) reaches its last element and  *)
(* does not pass the end of the buffer.                                     *)
SizeCoversThePart ==
  \A t \in {from, to} : t.enc = << >> =>
    /\ DataSize(t) <= TotalSize(t)
    /\ DataStart(t) + TotalSize(t) <= t.addr + Product(t.counts, 1)
=============================================================================
