--------------------------- MODULE TorqTilingProofs ---------------------------
(***************************************************************************)
(* Proofs about TorqTiling, for operations and memories of any size, until  *)
(* the run meets one of the faults that the properties name.                *)
(***************************************************************************)
EXTENDS TorqTiling, FiniteSetTheorems, WellFoundedInduction, TLAPS

(***************************************************************************)
(* The operations of a rewriting.  A stripe may keep no row.                *)
(***************************************************************************)
Operation ==
  [kind : Kinds, float : BOOLEAN, bytes : Positive, inCh : Positive, outCh : Positive,
   h : Positive, w : Positive, outH : Nat, outW : Positive, k : Positive,
   stride : Positive, top : Nat, factor : Positive, crd : BOOLEAN, xram : BOOLEAN,
   to : Nat, weights : Nat, bias : Nat, from : Nat, row : Int, out : Int,
   keep : SUBSET Nat, inside : BOOLEAN]

(* What the whole operation gets when the pass begins.                      *)
LEMMA WholeFields ==
  ASSUME NEW o \in Operations
  PROVE  LET x == Whole(o)
         IN /\ x \in Operation /\ x.to = 0 /\ x.weights = 0 /\ x.bias = 0 /\ x.from = 0
            /\ x.row = 0 /\ x.out = 0 /\ x.keep = 0 .. x.outH - 1 /\ x.inside = TRUE
PROOF
<1>1. o \in [kind : Kinds, float : BOOLEAN, bytes : Positive, inCh : Positive, outCh : Positive,
        h : Positive, w : Positive, outH : Positive, outW : Positive, k : Positive,
        stride : Positive, top : Nat, factor : Positive, crd : BOOLEAN, xram : BOOLEAN]
  BY TilingAssumption
<1> QED BY <1>1 DEF Operation, Positive, Whole

(* What a tile takes from the operation it is cut from.                     *)
LEMMA TileFields ==
  ASSUME NEW o \in Operation, NEW first, NEW count, NEW st
  PROVE  LET t == Tile(o, first, count, st)
         IN  /\ t.kind = o.kind /\ t.float = o.float /\ t.bytes = o.bytes /\ t.k = o.k
             /\ t.stride = o.stride /\ t.top = o.top /\ t.factor = o.factor /\ t.crd = o.crd
             /\ t.xram = o.xram /\ t.w = o.w /\ t.outW = o.outW
             /\ t.outCh = count /\ t.to = o.to + first /\ t.weights = o.weights + first
             /\ t.bias = o.bias + Items(o) * first
             /\ t.inCh = (IF InPerOut(o) = 0 THEN o.inCh ELSE InPerOut(o) * count)
             /\ t.from = o.from + InPerOut(o) * first
             /\ t.row = o.row + st.row /\ t.h = st.h /\ t.outH = st.outH
             /\ t.out = o.out + st.to - st.drop
             /\ t.keep = {r \in st.drop .. st.drop + st.kept - 1 :
                            r + st.to - st.drop \in o.keep}
             /\ t.inside = (o.inside /\ Inside(st.row, st.h, o.h)
                              /\ Inside(first, count, o.outCh) /\ Inside(st.to, st.kept, o.outH))
PROOF
<1>1. LET t == Tile(o, first, count, st)
      IN  /\ t.kind = o.kind /\ t.float = o.float /\ t.bytes = o.bytes /\ t.k = o.k
          /\ t.stride = o.stride /\ t.top = o.top /\ t.factor = o.factor /\ t.crd = o.crd
          /\ t.xram = o.xram /\ t.w = o.w /\ t.outW = o.outW
  BY DEF Tile, Operation
<1>2. LET t == Tile(o, first, count, st)
      IN  /\ t.outCh = count /\ t.to = o.to + first /\ t.weights = o.weights + first
          /\ t.bias = o.bias + Items(o) * first
  BY DEF Tile, Operation
<1>3. LET t == Tile(o, first, count, st)
      IN  /\ t.inCh = (IF InPerOut(o) = 0 THEN o.inCh ELSE InPerOut(o) * count)
          /\ t.from = o.from + InPerOut(o) * first
          /\ t.row = o.row + st.row /\ t.h = st.h /\ t.outH = st.outH
          /\ t.out = o.out + st.to - st.drop
  BY DEF Tile, Operation
<1>4. LET t == Tile(o, first, count, st)
      IN  /\ t.keep = {r \in st.drop .. st.drop + st.kept - 1 :
                         r + st.to - st.drop \in o.keep}
          /\ t.inside = (o.inside /\ Inside(st.row, st.h, o.h)
                           /\ Inside(first, count, o.outCh) /\ Inside(st.to, st.kept, o.outH))
  BY DEF Tile, Operation
<1> QED BY <1>1, <1>2, <1>3, <1>4

(* A record with the fields of an operation.                                *)
LEMMA TileIsOperation ==
  ASSUME NEW o \in Operation, NEW first, NEW count, NEW st,
         Tile(o, first, count, st).outCh \in Positive, Tile(o, first, count, st).to \in Nat,
         Tile(o, first, count, st).weights \in Nat, Tile(o, first, count, st).bias \in Nat,
         Tile(o, first, count, st).inCh \in Positive, Tile(o, first, count, st).from \in Nat,
         Tile(o, first, count, st).row \in Int, Tile(o, first, count, st).h \in Positive,
         Tile(o, first, count, st).outH \in Nat, Tile(o, first, count, st).out \in Int,
         Tile(o, first, count, st).keep \in SUBSET Nat,
         Tile(o, first, count, st).inside \in BOOLEAN
  PROVE  Tile(o, first, count, st) \in Operation
PROOF
<1> DEFINE t == Tile(o, first, count, st)
           Fields == {"kind", "float", "bytes", "inCh", "outCh", "h", "w", "outH", "outW", "k",
                      "stride", "top", "factor", "crd", "xram", "to", "weights", "bias", "from",
                      "row", "out", "keep", "inside"}
<1>1. o = [f \in Fields |-> o[f]]
  BY Z3 DEF Operation
<1> DEFINE t1 == [o EXCEPT !.outCh = t.outCh, !.to = t.to, !.weights = t.weights, !.bias = t.bias]
           t2 == [t1 EXCEPT !.inCh = t.inCh, !.from = t.from, !.row = t.row, !.h = t.h]
           t3 == [t2 EXCEPT !.outH = t.outH, !.out = t.out, !.keep = t.keep, !.inside = t.inside]
<1>2. t = t3
  BY Z3 DEF Tile
<1>3. t1 = [f \in Fields |-> t1[f]]
  <2> HIDE DEF t, Fields
  <2> QED BY <1>1
<1>4. t2 = [f \in Fields |-> t2[f]]
  <2> HIDE DEF t, t1, Fields
  <2> QED BY <1>3
<1>5. t3 = [f \in Fields |-> t3[f]]
  <2> HIDE DEF t, t2, Fields
  <2> QED BY <1>4
<1>6. t = [f \in Fields |-> t[f]]
  <2> HIDE DEF t, t3, Fields
  <2> QED BY <1>2, <1>5
<1> HIDE DEF t
<1> QED BY <1>6, TileFields DEF Operation, t

-----------------------------------------------------------------------------
(* Products and division.                                                   *)
LEMMA Product ==
  ASSUME NEW a \in Int, NEW b \in Int
  PROVE  a * b \in Int /\ a * b = b * a
PROOF
BY Z3

LEMMA Quotient ==
  ASSUME NEW a \in Int, NEW b \in Int, NEW d \in Positive, a * d < b * d
  PROVE  a < b
PROOF
BY Z3 DEF Positive

LEMMA Division ==
  ASSUME NEW n \in Nat, NEW d \in Positive
  PROVE  /\ n \div d \in Nat /\ n % d \in 0 .. d - 1
         /\ n = d * (n \div d) + (n % d)
         /\ (n \div d) * d <= n /\ n < (n \div d) * d + d
PROOF
<1>1. n \div d \in Int /\ n % d \in 0 .. d - 1
  BY DEF Positive
<1>2. n = d * (n \div d) + (n % d)
  BY DEF Positive
<1>3. d * (n \div d) = (n \div d) * d
  BY <1>1, Product DEF Positive
<1>4. (n \div d) * d <= n /\ n < (n \div d) * d + d
  BY <1>1, <1>2, <1>3 DEF Positive
<1>5. n \div d >= 0
  <2> DEFINE a == n \div d
  <2>1. a \in Int /\ a + 1 \in Int /\ (a + 1) * d = a * d + d /\ 0 * d = 0 /\ a * d + d > 0
    BY <1>1, <1>4, Z3 DEF Positive
  <2> HIDE DEF a
  <2>2. 0 < a + 1
    BY <2>1, Quotient
  <2> QED BY <2>1, <2>2 DEF a
<1> QED BY <1>1, <1>2, <1>4, <1>5

(* The blocks of d elements.                                                *)
LEMMA OneBlock ==
  ASSUME NEW d \in Positive, NEW x \in Int, NEW i \in Int, NEW j \in Int,
         i * d <= x, x < i * d + d, j * d <= x, x < j * d + d
  PROVE  i = j
PROOF
<1>1. i * d < (j + 1) * d /\ j * d < (i + 1) * d /\ i + 1 \in Int /\ j + 1 \in Int
  BY Z3 DEF Positive
<1>2. i < j + 1 /\ j < i + 1
  BY <1>1, Quotient
<1> QED BY <1>2

LEMMA Blocks ==
  ASSUME NEW n \in Positive, NEW d \in Positive
  PROVE  /\ DivCeil(n, d) \in Positive
         /\ \A i \in 0 .. DivCeil(n, d) - 1 : i * d \in Nat /\ i * d < n
         /\ \A x \in 0 .. n - 1 :
              \E i \in 0 .. DivCeil(n, d) - 1 : i * d <= x /\ x < i * d + d
PROOF
<1> DEFINE q == DivCeil(n, d)
<1>1. q \in Nat /\ q * d <= n + d - 1 /\ n + d - 1 < q * d + d
  BY Division DEF DivCeil, Positive
<1>2. q > 0
  BY <1>1, Z3 DEF Positive
<1>3. ASSUME NEW i \in 0 .. q - 1 PROVE i * d \in Nat /\ i * d < n
  <2>1. i \in Int /\ i >= 0 /\ i + 1 <= q
    BY <1>1, <1>3
  <2>2. (i + 1) * d <= q * d /\ (i + 1) * d = i * d + d /\ i * d >= 0
    BY <1>1, <2>1, Z3 DEF Positive
  <2> QED BY <1>1, <2>1, <2>2, Z3 DEF Positive
<1>4. ASSUME NEW x \in 0 .. n - 1
      PROVE  \E i \in 0 .. q - 1 : i * d <= x /\ x < i * d + d
  <2>1. x \div d \in Nat /\ (x \div d) * d <= x /\ x < (x \div d) * d + d
    BY <1>4, Division DEF Positive
  <2>2. (x \div d) * d < q * d
    BY <1>1, <1>4, <2>1, Z3 DEF Positive
  <2>3. x \div d <= q - 1
    <3> DEFINE a == x \div d
    <3>1. a \in Int /\ q \in Int /\ a * d < q * d
      BY <1>1, <2>1, <2>2
    <3> HIDE DEF a, q
    <3>2. a < q
      BY <3>1, Quotient
    <3> QED BY <3>1, <3>2 DEF a
  <2> QED BY <1>1, <2>1, <2>3
<1> QED BY <1>1, <1>2, <1>3, <1>4 DEF Positive

LEMMA AlignCeilIsUp ==
  ASSUME NEW n \in Nat, NEW a \in Positive
  PROVE  AlignCeil(n, a) \in Nat /\ AlignCeil(n, a) >= n
PROOF
<1>1. n + a - 1 \in Nat
  BY DEF Positive
<1>2. AlignCeil(n, a) \in Int /\ n + a - 1 < AlignCeil(n, a) + a
  BY <1>1, Division DEF AlignCeil, Positive
<1> QED BY <1>2 DEF Positive
-----------------------------------------------------------------------------
(* Sizes are positive, and so is the number of channels of a tile.          *)
LEMMA Products ==
  ASSUME NEW a \in Positive, NEW b \in Positive
  PROVE  a * b \in Positive /\ a + b \in Positive
PROOF
BY Z3 DEF Positive

LEMMA Sizes ==
  ASSUME NEW o \in Operation
  PROVE  /\ InSize(o) \in Positive /\ OutSize(o) \in Nat /\ FilterSize(o) \in Positive
         /\ InFrame(o) \in Positive /\ OutFrame(o) \in Positive
         /\ Items(o) \in {1, 2}
         /\ OperandsSize(o) \in Positive /\ OperandsSize(o) - InSize(o) \in Positive
PROOF
<1>1. /\ o.bytes \in Positive /\ o.inCh \in Positive /\ o.outCh \in Positive
      /\ o.h \in Positive /\ o.w \in Positive /\ o.outH \in Nat /\ o.outW \in Positive
      /\ o.k \in Positive /\ o.factor \in Positive /\ o.float \in BOOLEAN
  BY DEF Operation
<1>2. InSize(o) \in Positive
  BY <1>1, Products DEF InSize
<1>3. OutSize(o) \in Nat
  <2>1. (IF o.kind = "conv1d" THEN o.factor ELSE 1) \in Nat
    BY <1>1 DEF Positive
  <2>2. \A a, b \in Nat : a * b \in Nat
    BY Z3
  <2>3. o.bytes * o.outCh * o.outH * o.outW \in Nat
    BY <1>1, <2>2 DEF Positive
  <2> QED BY <2>1, <2>2, <2>3 DEF OutSize
<1>4. FilterSize(o) \in Positive
  <2>1. (CASE o.kind = "conv1d" -> o.factor [] o.kind = "fc" -> 1 [] OTHER -> o.k * o.k)
          \in Positive
    <3>1. o.k * o.k \in Positive /\ 1 \in Positive
      BY <1>1, Products DEF Positive
    <3> QED BY <1>1, <3>1
  <2> QED BY <1>1, <2>1, Products DEF FilterSize
<1>5. Items(o) \in {1, 2}
  BY DEF Items
<1>6. ASSUME NEW h \in Nat, NEW w \in Positive
      PROVE  FrameSize(o, h, w) \in Positive
  <2>1. h + 2 \in Positive /\ 64 \in Positive
    BY DEF Positive
  <2>2. (h + 2) * w * o.bytes \in Positive
    BY <1>1, <2>1, Products
  <2> QED BY <2>1, <2>2, AlignCeilIsUp DEF FrameSize, Positive
<1>7. InFrame(o) \in Positive /\ OutFrame(o) \in Positive
  BY <1>1, <1>6 DEF InFrame, OutFrame, Positive
<1>8. /\ OperandsSize(o) = InSize(o) + OutSize(o) + o.outCh * (FilterSize(o) + 4 * Items(o))
      /\ o.outCh * (FilterSize(o) + 4 * Items(o)) \in Positive
  <2>1. 4 * Items(o) \in Positive
    BY <1>5 DEF Positive
  <2> QED BY <1>1, <1>4, <2>1, Products DEF OperandsSize
<1>9. OperandsSize(o) \in Positive /\ OperandsSize(o) - InSize(o) \in Positive
  <2> HIDE DEF InSize
  <2> QED BY <1>2, <1>3, <1>8 DEF Positive
<1> QED BY <1>2, <1>3, <1>4, <1>5, <1>7, <1>9

LEMMA Quotients ==
  ASSUME NEW a \in Int, NEW d \in Positive
  PROVE  a \div d \in Int
PROOF
BY DEF Positive

LEMMA BlocksAreInt ==
  ASSUME NEW n \in Int
  PROVE  InBlocks(n) \in Int /\ AlignFloor(n, 64) \in Int /\ AlignFloor(n, 4) \in Int
PROOF
BY DEF InBlocks, AlignFloor

LEMMA SignedIsInt ==
  ASSUME NEW n \in Int
  PROVE  Signed(n) \in Int
PROOF
<1>1. IntRange \in Int /\ IntRange > 0
  BY TilingAssumption DEF Positive
<1>2. PICK m \in Int : m = n % IntRange
  BY <1>1
<1>3. Signed(n) = IF 2 * m < IntRange THEN m ELSE m - IntRange
  BY <1>2 DEF Signed
<1> QED BY <1>1, <1>2, <1>3

(* Which patterns cut stripes, and what they extract for a channel.         *)
LEMMA KindFacts ==
  ASSUME NEW o \in Operation
  PROVE  /\ InPerOut(o) = (CASE o.kind \in {"conv1d", "conv2d", "fc"} -> 0
                             [] o.kind = "d2s" -> o.factor [] OTHER -> 1)
         /\ InPerOut(o) \in Nat
         /\ (Striped(o) <=> o.kind \in {"conv1d", "conv2d"})
PROOF
<1>1. o.kind \in Kinds /\ o.factor \in Positive
  BY DEF Operation
<1>2. CASE o.kind \in {"conv1d", "conv2d", "fc"}
  BY <1>2 DEF InPerOut, Striped, Pattern, Conv1D, Conv2D, FullyConnected
<1>3. CASE o.kind = "d2s"
  BY <1>1, <1>3 DEF InPerOut, Striped, Pattern, DepthToSpace, Positive
<1>4. CASE o.kind \in {"dw", "add", "maxpool", "scatter", "resize"}
  <2>1. InPerOut(o) = 1 /\ ~Striped(o)
    BY <1>4 DEF InPerOut, Striped, Pattern, DepthWise2D, Add, MaxPool, Scatter, ResizeNearest
  <2> QED BY <1>4, <2>1
<1> QED BY <1>1, <1>2, <1>3, <1>4 DEF Kinds

(* What a pattern decides for an operation that it tiles.                   *)
LEMMA PatternFacts ==
  ASSUME NEW o \in Operation, ~Pattern(o).tooLarge
  PROVE  /\ Pattern(o).channels \in Int /\ TileChannels(o) \in Positive
         /\ Striped(o) => Half \in Positive
PROOF
<1>1. /\ InSize(o) \in Positive /\ OutSize(o) \in Nat /\ FilterSize(o) \in Positive
      /\ InFrame(o) \in Positive /\ OutFrame(o) \in Positive
      /\ OperandsSize(o) \in Positive /\ OperandsSize(o) - InSize(o) \in Positive
  BY Sizes
<1>2. Half \in Int /\ Memory \in Int /\ Memory \in Positive /\ o.outCh \in Positive
      /\ o.factor \in Positive /\ o.kind \in Kinds
  BY TilingAssumption DEF Half, Positive, Operation
<1>3. Striped(o) <=> o.kind \in {"conv1d", "conv2d"}
  BY KindFacts
<1>4. Striped(o) => Half \in Positive
  <2>1. o.kind \in {"conv1d", "conv2d"} => ~(OutFrame(o) > Half)
    BY DEF Pattern, Conv1D, Conv2D
  <2> QED BY <1>1, <1>2, <1>3, <2>1 DEF Positive
<1>5. Pattern(o).channels \in Int
  <2>1. CASE o.kind = "conv1d"
    <3>1. OutFrame(o) + FilterSize(o) \in Positive
      BY <1>1, Products
    <3>2. InBlocks(Half \div (OutFrame(o) + FilterSize(o))) \in Int
      BY <1>2, <3>1, Quotients, BlocksAreInt
    <3> QED BY <2>1, <3>2 DEF Pattern, Conv1D
  <2>2. CASE o.kind = "conv2d"
    <3> DEFINE needed == Larger(OperandsSize(o), 2 * InSize(o))
               most == Half \div (OutFrame(o) + FilterSize(o))
    <3>1. OutFrame(o) + FilterSize(o) \in Positive
      BY <1>1, Products
    <3>2. most \in Int
      BY <1>2, <3>1, Quotients
    <3>3. needed \in Int /\ needed > 0
      BY <1>1 DEF Larger, Positive
    <3>4. needed < 2 * OutSize(o) => (most * needed) \div (2 * OutSize(o)) \in Int
      <4> HIDE DEF most, needed
      <4>1. needed < 2 * OutSize(o) => 2 * OutSize(o) \in Positive
        BY <1>1, <3>3 DEF Positive
      <4>2. most * needed \in Int
        BY <3>2, <3>3, Product
      <4> QED BY <4>1, <4>2, Quotients
    <3>5. (IF needed < 2 * OutSize(o) THEN (most * needed) \div (2 * OutSize(o)) ELSE most) \in Int
      BY <3>2, <3>4
    <3>6. InBlocks(IF needed < 2 * OutSize(o) THEN (most * needed) \div (2 * OutSize(o))
                   ELSE most) \in Int
      BY <3>5, BlocksAreInt
    <3> QED BY <2>2, <3>6 DEF Pattern, Conv2D
  <2>3. CASE o.kind = "dw"
    <3>1. InFrame(o) + Larger(OutFrame(o), InFrame(o)) \in Positive
      BY <1>1 DEF Larger, Positive
    <3>2. Smaller(Memory, 300 * 1024) \in Int
      BY <1>2 DEF Smaller, Positive
    <3>3. InBlocks(Smaller(Memory, 300 * 1024)
                     \div (InFrame(o) + Larger(OutFrame(o), InFrame(o)))) \in Int
      BY <3>1, <3>2, Quotients, BlocksAreInt
    <3> QED BY <2>3, <3>3 DEF Pattern, DepthWise2D
  <2>4. CASE o.kind = "fc"
    <3>1. DivCeil(OperandsSize(o) - InSize(o), o.outCh) \in Positive
      BY <1>1, <1>2, Blocks
    <3>2. (Memory - InSize(o)) % SizeRange \in Int
      BY <1>1, <1>2, TilingAssumption DEF Positive
    <3> DEFINE most == ((Memory - InSize(o)) % SizeRange)
                         \div DivCeil(OperandsSize(o) - InSize(o), o.outCh)
    <3>4. most \in Int
      BY <3>1, <3>2, Quotients
    <3>5. most % IntRange \in Int
      <4> HIDE DEF most
      <4> QED BY <3>4, TilingAssumption DEF Positive
    <3>3. Signed(AlignFloor(most % IntRange, 64)) \in Int
      BY <3>5, BlocksAreInt, SignedIsInt
    <3> QED BY <2>4, <3>3 DEF Pattern, FullyConnected
  <2>5. CASE o.kind = "add"
    <3>1. OutFrame(o) + 2 * InFrame(o) \in Positive
      BY <1>1 DEF Positive
    <3>2. AlignFloor(Memory \div (OutFrame(o) + 2 * InFrame(o)), 4) \in Int
      BY <1>2, <3>1, Quotients, BlocksAreInt
    <3> QED BY <2>5, <3>2 DEF Pattern, Add
  <2>6. CASE o.kind = "d2s"
    <3>1. OutFrame(o) + o.factor * InFrame(o) \in Positive
      BY <1>1, <1>2, Products
    <3>2. Memory \div (OutFrame(o) + o.factor * InFrame(o)) \in Int
      BY <1>2, <3>1, Quotients
    <3> QED BY <2>6, <3>2 DEF Pattern, DepthToSpace
  <2>7. CASE o.kind = "maxpool"
    <3> DEFINE second(out, in) == IF o.stride = 2 THEN in ELSE out
    <3>1. InFrame(o) + second(OutFrame(o), InFrame(o)) \in Positive
      BY <1>1 DEF Positive
    <3>2. InBlocks(Memory \div (InFrame(o) + second(OutFrame(o), InFrame(o)))) \in Int
      BY <1>2, <3>1, Quotients, BlocksAreInt
    <3> QED BY <2>7, <3>2 DEF Pattern, MaxPool
  <2>8. CASE o.kind \in {"scatter", "resize"}
    BY <2>8 DEF Pattern, Scatter, ResizeNearest
  <2> QED BY <1>2, <2>1, <2>2, <2>3, <2>4, <2>5, <2>6, <2>7, <2>8 DEF Kinds
<1>6. TileChannels(o) \in Positive
  BY <1>2, <1>5 DEF TileChannels, Positive
<1> QED BY <1>4, <1>5, <1>6

(* The count of the stripes that a channel tile is cut in.                  *)
LEMMA MaxIsElement ==
  ASSUME NEW n \in Int, NEW i \in Nat, NEW S \in SUBSET (n .. n + i), S # {}
  PROVE  Max(S) \in S
PROOF
<1> DEFINE T == {n + i - m : m \in S}
<1>1. IsWellFoundedOn(OpToRel(<, Nat), Nat)
  BY NatLessThanWellFounded
<1>2. T \subseteq Nat /\ T # {}
  <2>1. ASSUME NEW m \in S PROVE n + i - m \in Nat
    <3>1. m \in n .. n + i
      BY <2>1
    <3> QED BY <3>1
  <2> QED BY <2>1
<1>3. PICK x \in T : \A y \in T : ~ (<<y, x>> \in OpToRel(<, Nat))
  BY <1>1, <1>2, WFMin
<1>4. \A y \in T : x <= y
  <2>1. ASSUME NEW y \in T PROVE x <= y
    <3>1. x \in Nat /\ y \in Nat
      BY <1>2, <2>1
    <3>2. ~ (<<y, x>> \in OpToRel(<, Nat))
      BY <1>3, <2>1
    <3>3. ~ (y < x)
      BY <3>1, <3>2 DEF OpToRel
    <3> QED BY <3>1, <3>3
  <2> QED BY <2>1
<1>5. PICK m \in S : x = n + i - m
  OBVIOUS
<1>6. ASSUME NEW y \in S PROVE m >= y
  <2>1. m \in n .. n + i /\ y \in n .. n + i
    BY <1>5, <1>6
  <2>2. n + i - m <= n + i - y
    BY <1>4, <1>5, <1>6
  <2> QED BY <2>1, <2>2
<1> QED BY <1>6 DEF Max

LEMMA StripeCounts ==
  ASSUME NEW o \in Operation, NEW i \in Nat, Half \in Positive
  PROVE  StripeCount(o, i) \in Positive
PROOF
<1> DEFINE n == DivCeil(InSize(o), Half)
           S == {m \in n .. n + i : \A before \in n .. m - 1 : o.outH % before > 0}
<1>1. n \in Positive
  BY Sizes, Blocks
<1>2. S \in SUBSET (n .. n + i) /\ n \in S
  BY <1>1 DEF Positive
<1>3. Max(S) \in S
  <2>1. n \in Int /\ S # {}
    BY <1>1, <1>2 DEF Positive
  <2> HIDE DEF n, S
  <2> QED BY <1>2, <2>1, MaxIsElement
<1>4. Max(S) \in Positive
  BY <1>1, <1>2, <1>3 DEF Positive
<1> QED BY <1>4 DEF StripeCount
-----------------------------------------------------------------------------
(* The rows of a tile.  It reads rows of its operation and keeps rows that  *)
(* the operation computes.                                                  *)
PlacedStripe(o, st) ==
  /\ st.row \in Nat /\ st.h \in Positive /\ st.row + st.h <= o.h
  /\ st.to \in Nat /\ st.kept \in Nat /\ st.to + st.kept <= o.outH
  /\ st.drop \in Nat /\ st.outH \in Nat /\ st.drop + st.kept <= st.outH

(* Its kernel is as far down the tile's input as it is down the operation's,*)
(* and it leaves the one where it leaves the other.                         *)
GoodStripe(o, st) ==
  /\ PlacedStripe(o, st)
  /\ st.row = o.stride * (st.to - st.drop)
  /\ \A p \in Int :
       /\ p >= st.drop * o.stride - o.top
       /\ p <= (st.drop + st.kept - 1) * o.stride - o.top + o.k - 1
       => (p \in 0 .. st.h - 1 <=> st.row + p \in 0 .. o.h - 1)

LEMMA WholeHeightIsGood ==
  ASSUME NEW o \in Operation
  PROVE  GoodStripe(o, WholeHeight(o))
PROOF
BY DEF GoodStripe, PlacedStripe, WholeHeight, Operation, Positive

LEMMA Halos ==
  ASSUME NEW o \in Operation
  PROVE  /\ OutHalo(o) \in Nat /\ InHalo(o) \in Nat
         /\ (o.stride = 1 \/ (o.stride = 2 /\ o.k <= 4)) => InHalo(o) = o.stride * OutHalo(o)
PROOF
<1>1. o.k - 1 \in Nat /\ o.k \in Positive /\ o.stride \in Positive
  BY DEF Operation, Positive
<1>2. OutHalo(o) \in Nat
  BY <1>1, Division DEF OutHalo, Positive
<1>3. InHalo(o) \in Nat
  BY <1>2, AlignCeilIsUp DEF InHalo, Positive
<1>4. ASSUME o.stride = 2, o.k <= 4 PROVE InHalo(o) = 2 * OutHalo(o)
  <2>1. OutHalo(o) \in {0, 1}
    BY <1>1, <1>4 DEF OutHalo, Positive
  <2> QED BY <1>4, <2>1 DEF InHalo, AlignCeil
<1>5. ASSUME o.stride = 1 PROVE InHalo(o) = OutHalo(o)
  BY <1>5 DEF InHalo
<1> QED BY <1>2, <1>3, <1>4, <1>5

LEMMA StripeFields ==
  ASSUME NEW o \in Operation, NEW n \in Positive, NEW s \in Nat
  PROVE  LET st == Stripe(o, n, s)
             left == o.outH % n
             last == IF left > 0 THEN n ELSE n - 1
         IN  /\ st.row = s * (o.h \div n) - (IF s > 0 THEN InHalo(o) ELSE 0)
             /\ st.h = (IF s = last /\ left > 0 THEN o.h % n ELSE o.h \div n)
                         + (IF s > 0 THEN InHalo(o) ELSE 0) + (IF s < last THEN InHalo(o) ELSE 0)
             /\ st.outH = (IF s = last /\ left > 0 THEN left ELSE o.outH \div n)
                            + (IF s > 0 THEN OutHalo(o) ELSE 0)
                            + (IF s < last THEN OutHalo(o) ELSE 0)
             /\ st.drop = (IF s > 0 THEN OutHalo(o) ELSE 0)
             /\ st.kept = (IF s = last /\ left > 0 THEN left ELSE o.outH \div n)
             /\ st.to = s * (o.outH \div n)
PROOF
BY DEF Stripe

StripesOf(n, left) == IF left > 0 THEN n + 1 ELSE n

(* Stripes none of which is shorter than a halo.                            *)
Roomy(o, n) ==
  /\ o.h \div n >= 1 /\ o.h \div n >= InHalo(o)
  /\ o.outH % n > 0 => o.h % n >= 1 /\ o.h % n >= InHalo(o)

(* Stripes of an operation that none of the faults is about.                *)
Sound(o, n) ==
  /\ Roomy(o, n)
  /\ o.h \div n = o.stride * (o.outH \div n)
  /\ o.outH % n = DivCeil(o.h % n, o.stride)
  /\ (o.stride = 1 \/ (o.stride = 2 /\ o.k <= 4))
  /\ o.top <= InHalo(o) /\ o.k - o.top <= InHalo(o) + o.stride

LEMMA Steps ==
  ASSUME NEW s \in Nat, NEW n \in Nat, NEW d \in Nat
  PROVE  /\ s * d \in Nat /\ n * d \in Nat
         /\ s < n => s * d + d <= n * d
         /\ s + 1 < n => s * d + d + d <= n * d
         /\ s + 1 = n => s * d + d = n * d
         /\ s > 0 => s * d >= d
         /\ s = 0 => s * d = 0
PROOF
<1>1. s * d \in Nat /\ n * d \in Nat
  BY Z3
<1>2. ASSUME s < n PROVE s * d + d <= n * d
  BY <1>2, Z3
<1>3. ASSUME s + 1 < n PROVE s * d + d + d <= n * d
  BY <1>3, Z3
<1>4. ASSUME s > 0 PROVE s * d >= d
  BY <1>4, Z3
<1> QED BY <1>1, <1>2, <1>3, <1>4, Z3

LEMMA StripeIsPlaced ==
  ASSUME NEW o \in Operation, NEW n \in Positive, n > 1, Roomy(o, n),
         NEW s \in 0 .. StripesOf(n, o.outH % n) - 1
  PROVE  PlacedStripe(o, Stripe(o, n, s))
PROOF
<1> DEFINE d == o.outH \div n
           e == o.h \div n
           left == o.outH % n
           rest == o.h % n
           last == IF left > 0 THEN n ELSE n - 1
           hi == InHalo(o)
           ho == OutHalo(o)
           st == Stripe(o, n, s)
           x == s * d
           y == s * e
<1>1. o.outH \in Nat /\ o.h \in Nat /\ n \in Nat /\ s \in Nat /\ ho \in Nat /\ hi \in Nat
  <2>1. StripesOf(n, o.outH % n) \in Int
    BY Division DEF StripesOf, Operation, Positive
  <2> QED BY <2>1, Halos DEF Operation, Positive
<1>2. /\ d \in Nat /\ e \in Nat /\ left \in 0 .. n - 1 /\ rest \in 0 .. n - 1
      /\ o.outH = n * d + left /\ o.h = n * e + rest
  BY <1>1, Division
<1>3. e >= 1 /\ e >= hi /\ (left > 0 => rest >= 1 /\ rest >= hi)
  BY DEF Roomy
<1>4. s <= last /\ last \in Nat
  BY <1>1, <1>2 DEF StripesOf
<1>5. /\ st.row = y - (IF s > 0 THEN hi ELSE 0)
      /\ st.h = (IF s = last /\ left > 0 THEN rest ELSE e)
                  + (IF s > 0 THEN hi ELSE 0) + (IF s < last THEN hi ELSE 0)
      /\ st.outH = (IF s = last /\ left > 0 THEN left ELSE d)
                     + (IF s > 0 THEN ho ELSE 0) + (IF s < last THEN ho ELSE 0)
      /\ st.drop = (IF s > 0 THEN ho ELSE 0)
      /\ st.kept = (IF s = last /\ left > 0 THEN left ELSE d)
      /\ st.to = x
  BY <1>1, StripeFields
<1>6. /\ x \in Nat /\ n * d \in Nat
      /\ s < n => x + d <= n * d
      /\ s = n => x = n * d
  <2> HIDE DEF d
  <2> QED BY <1>1, <1>2, Steps
<1>7. /\ y \in Nat /\ n * e \in Nat
      /\ s < n => y + e <= n * e
      /\ s + 1 < n => y + e + e <= n * e
      /\ s > 0 => y >= e
      /\ s = 0 => y = 0
      /\ s = n => y = n * e
      /\ s + 1 = n => y + e = n * e
  <2> HIDE DEF e
  <2> QED BY <1>1, <1>2, Steps
<1> HIDE DEF d, e, left, rest, hi, ho, st, x, y
<1>8. st.row \in Nat
  BY <1>1, <1>2, <1>3, <1>5, <1>7
<1>9. st.h \in Positive /\ st.row + st.h <= o.h
  <2>1. CASE s = last /\ left > 0
    <3>1. y = n * e /\ st.h = rest + (IF s > 0 THEN hi ELSE 0)
      BY <1>1, <1>2, <1>5, <1>7, <2>1
    <3>2. rest \in Nat /\ rest > 0 /\ o.h = n * e + rest
      BY <1>2, <1>3, <2>1
    <3> DEFINE m == n * e
    <3> HIDE DEF last, m
    <3>3. y = m /\ o.h = m + rest /\ y \in Nat
      BY <1>7, <3>1, <3>2 DEF m
    <3>4. st.row = y - (IF s > 0 THEN hi ELSE 0)
      BY <1>5
    <3> QED BY <1>1, <1>8, <3>1, <3>2, <3>3, <3>4 DEF Positive
  <2>2. CASE s = last /\ left = 0
    <3>1. s + 1 = n /\ st.h = e + (IF s > 0 THEN hi ELSE 0)
      BY <1>1, <1>2, <1>5, <2>2
    <3>2. o.h >= n * e
      BY <1>1, <1>2, <1>7
    <3> HIDE DEF last
    <3> QED BY <1>1, <1>2, <1>3, <1>5, <1>7, <1>8, <3>1, <3>2 DEF Positive
  <2>3. CASE s < last
    <3>1. /\ st.h = e + (IF s > 0 THEN hi ELSE 0) + hi /\ s < n
          /\ s + 1 < n \/ (s + 1 = n /\ left > 0)
      BY <1>1, <1>2, <1>5, <2>3
    <3>2. y + e + hi <= o.h
      <4>1. CASE s + 1 < n
        BY <1>1, <1>2, <1>3, <1>7, <4>1
      <4>2. CASE s + 1 = n /\ left > 0
        BY <1>1, <1>2, <1>3, <1>7, <4>2
      <4> QED BY <3>1, <4>1, <4>2
    <3> HIDE DEF last
    <3> QED BY <1>1, <1>2, <1>3, <1>5, <1>7, <1>8, <3>1, <3>2 DEF Positive
  <2> QED BY <1>2, <1>4, <2>1, <2>2, <2>3
<1>10. /\ st.to \in Nat /\ st.kept \in Nat /\ st.to + st.kept <= o.outH
       /\ st.drop \in Nat /\ st.outH \in Nat /\ st.drop + st.kept <= st.outH
  <2>1. st.to = x /\ st.kept \in Nat /\ st.drop \in Nat
    BY <1>1, <1>2, <1>5
  <2>2. x + st.kept <= o.outH
    BY <1>1, <1>2, <1>4, <1>5, <1>6
  <2>3. st.outH \in Nat /\ st.drop + st.kept <= st.outH
    BY <1>1, <1>2, <1>5
  <2> QED BY <1>6, <2>1, <2>2, <2>3
<1> QED BY <1>8, <1>9, <1>10 DEF PlacedStripe, st

LEMMA StripeIsGood ==
  ASSUME NEW o \in Operation, NEW n \in Positive, n > 1, Sound(o, n),
         NEW s \in 0 .. StripesOf(n, o.outH % n) - 1
  PROVE  GoodStripe(o, Stripe(o, n, s))
PROOF
<1> DEFINE d == o.outH \div n
           e == o.h \div n
           left == o.outH % n
           rest == o.h % n
           last == IF left > 0 THEN n ELSE n - 1
           hi == InHalo(o)
           ho == OutHalo(o)
           st == Stripe(o, n, s)
           x == s * d
           y == s * e
<1>1. /\ o.stride \in {1, 2} /\ o.k \in Nat /\ o.k >= 1 /\ o.top \in Nat
      /\ o.outH \in Nat /\ o.h \in Nat /\ o.h >= 1 /\ n \in Nat /\ s \in Nat
      /\ o.h \in Positive
  <2>1. StripesOf(n, o.outH % n) \in Int
    BY Division DEF StripesOf, Operation, Positive
  <2> QED BY <2>1 DEF Sound, Operation, Positive
<1>2. ho \in Nat /\ hi \in Nat /\ hi = o.stride * ho
  BY <1>1, Halos DEF Sound
<1>3. /\ d \in Nat /\ e \in Nat /\ left \in 0 .. n - 1 /\ rest \in 0 .. n - 1
      /\ o.outH = n * d + left /\ o.h = n * e + rest
  BY <1>1, Division
<1>4. e = o.stride * d
  BY DEF Sound
<1>5. left = 0 <=> rest = 0
  <2>1. left = (rest + o.stride - 1) \div o.stride
    BY DEF Sound, DivCeil
  <2> HIDE DEF left, rest
  <2> QED BY <1>1, <1>3, <2>1
<1>6. s <= last /\ last \in Nat
  BY <1>1, <1>3 DEF StripesOf
<1>7. /\ st.row = y - (IF s > 0 THEN hi ELSE 0)
      /\ st.h = (IF s = last /\ left > 0 THEN rest ELSE e)
                  + (IF s > 0 THEN hi ELSE 0) + (IF s < last THEN hi ELSE 0)
      /\ st.outH = (IF s = last /\ left > 0 THEN left ELSE d)
                     + (IF s > 0 THEN ho ELSE 0) + (IF s < last THEN ho ELSE 0)
      /\ st.drop = (IF s > 0 THEN ho ELSE 0)
      /\ st.kept = (IF s = last /\ left > 0 THEN left ELSE d)
      /\ st.to = x
  BY <1>1, StripeFields
<1>10. /\ o.top <= hi /\ o.k - o.top <= hi + o.stride /\ e >= 1 /\ e >= hi
       /\ (left > 0 => rest >= hi)
  BY DEF Sound, Roomy
<1>8. d >= 1
  <2> HIDE DEF d, e
  <2> QED BY <1>1, <1>3, <1>4, <1>10
<1>9. /\ x \in Nat /\ n * d \in Nat /\ y = o.stride * x /\ n * e = o.stride * (n * d)
      /\ s < n => x + d <= n * d
      /\ s = n => x = n * d
      /\ s + 1 < n => x + d + d <= n * d
      /\ s + 1 = n => x + d = n * d
      /\ s > 0 => x >= d
      /\ s = 0 => x = 0
  <2>1. y = o.stride * x /\ n * e = o.stride * (n * d)
    <3>1. CASE o.stride = 1
      <4>1. e = d
        BY <1>3, <1>4, <3>1
      <4> HIDE DEF d, e
      <4> QED BY <1>1, <1>3, <3>1, <4>1, Product
    <3>2. CASE o.stride = 2
      <4>1. e = 2 * d
        BY <1>3, <1>4, <3>2
      <4> HIDE DEF d, e
      <4> QED BY <1>1, <1>3, <3>2, <4>1, Z3
    <3> QED BY <1>1, <3>1, <3>2
  <2> HIDE DEF d, e
  <2> QED BY <1>1, <1>3, <2>1, Steps
<1> HIDE DEF d, e, left, rest, hi, ho, st, x, y
<1>11. /\ st.row \in Nat /\ st.h \in Positive /\ st.row + st.h <= o.h
       /\ st.to \in Nat /\ st.kept \in Nat /\ st.to + st.kept <= o.outH
       /\ st.drop \in Nat /\ st.outH \in Nat /\ st.drop + st.kept <= st.outH
  <2>1. PlacedStripe(o, st)
    BY StripeIsPlaced DEF Sound, st
  <2> QED BY <2>1 DEF PlacedStripe
<1>12. st.kept \in Positive
  BY <1>3, <1>7, <1>8, <1>11 DEF Positive
<1>13. st.row = o.stride * (st.to - st.drop)
  BY <1>1, <1>2, <1>7, <1>9
<1>14. ASSUME NEW p \in Int, p >= st.drop * o.stride - o.top,
              p <= (st.drop + st.kept - 1) * o.stride - o.top + o.k - 1
       PROVE  p \in 0 .. st.h - 1 <=> st.row + p \in 0 .. o.h - 1
  <2>1. CASE s < last
    BY <1>1, <1>2, <1>3, <1>4, <1>5, <1>6, <1>7, <1>8, <1>9, <1>10, <1>11, <1>12, <1>14, <2>1
  <2>2. CASE s = last
    BY <1>1, <1>2, <1>3, <1>4, <1>5, <1>6, <1>7, <1>8, <1>9, <1>10, <1>11, <1>12, <1>14, <2>2
  <2> QED BY <1>1, <1>6, <2>1, <2>2
<1> QED BY <1>11, <1>13, <1>14 DEF GoodStripe, PlacedStripe, st

(* Every row of the operation is kept by one stripe.                        *)
Keeps(st, q) == st.to <= q /\ q < st.to + st.kept

LEMMA StripesPartition ==
  ASSUME NEW o \in Operation, NEW n \in Positive, n > 1,
         NEW q \in 0 .. o.outH - 1
  PROVE  \E s \in 0 .. StripesOf(n, o.outH % n) - 1 :
           /\ Keeps(Stripe(o, n, s), q)
           /\ \A t \in 0 .. StripesOf(n, o.outH % n) - 1 :
                Keeps(Stripe(o, n, t), q) => t = s
PROOF
<1> DEFINE d == o.outH \div n
           left == o.outH % n
           count == StripesOf(n, left)
<1>1. /\ n \in Nat /\ o.outH \in Nat /\ q \in Nat /\ q < o.outH
      /\ d \in Nat /\ left \in 0 .. n - 1 /\ o.outH = n * d + left
  <2>1. n \in Nat /\ o.outH \in Nat /\ q \in Nat /\ q < o.outH
    BY DEF Operation, Positive
  <2> QED BY <2>1, Division
<1>2. count \in {n, n + 1} /\ (count = n + 1 <=> left > 0)
  BY <1>1 DEF StripesOf
<1>3. ASSUME NEW s \in 0 .. count - 1
      PROVE  Keeps(Stripe(o, n, s), q) <=>
               s * d <= q /\ q < s * d + (IF s = n THEN left ELSE d)
  <2>1. s \in Nat /\ (s = n => left > 0)
    BY <1>1, <1>2
  <2>2. /\ Stripe(o, n, s).to = s * d
        /\ Stripe(o, n, s).kept = (IF s = n THEN left ELSE d)
    <3>1. /\ Stripe(o, n, s).to = s * d
          /\ Stripe(o, n, s).kept =
               (IF s = (IF left > 0 THEN n ELSE n - 1) /\ left > 0 THEN left ELSE d)
      BY <2>1, StripeFields
    <3> QED BY <1>1, <2>1, <3>1
  <2> QED BY <2>2 DEF Keeps
<1>4. n * d \in Nat
  BY <1>1, Product, Steps
<1> HIDE DEF d, left, count
<1>5. CASE q >= n * d
  <2>1. left > 0 /\ n \in 0 .. count - 1 /\ Keeps(Stripe(o, n, n), q)
    BY <1>1, <1>2, <1>3, <1>4, <1>5
  <2>2. ASSUME NEW t \in 0 .. count - 1, Keeps(Stripe(o, n, t), q)
        PROVE  t = n
    <3>1. t \in Nat /\ t <= n
      BY <1>1, <1>2
    <3>2. t < n => t * d + d <= n * d /\ t * d \in Nat
      BY <1>1, <3>1, Steps
    <3> QED BY <1>1, <1>3, <1>4, <1>5, <2>2, <3>1, <3>2
  <2> QED BY <2>1, <2>2 DEF count, left
<1>6. CASE q < n * d
  <2>1. d \in Positive
    <3>1. d # 0
      BY <1>1, <1>6
    <3> QED BY <1>1, <3>1 DEF Positive
  <2>2. q \div d \in Nat /\ (q \div d) * d <= q /\ q < (q \div d) * d + d
    BY <1>1, <2>1, Division
  <2>3. PICK s \in Nat : s * d <= q /\ q < s * d + d
    BY <2>2
  <2>4. s < n
    <3>1. s * d < n * d
      BY <1>1, <1>4, <1>6, <2>3, Product
    <3> QED BY <1>1, <2>1, <2>3, <3>1, Quotient
  <2>5. s \in 0 .. count - 1 /\ Keeps(Stripe(o, n, s), q)
    <3>1. s \in 0 .. count - 1 /\ s # n
      BY <1>1, <1>2, <2>4
    <3> QED BY <1>3, <2>3, <3>1
  <2>6. ASSUME NEW t \in 0 .. count - 1, Keeps(Stripe(o, n, t), q)
        PROVE  t = s
    <3>1. t \in Nat /\ t * d <= q /\ q < t * d + (IF t = n THEN left ELSE d)
      BY <1>1, <1>2, <1>3, <2>6
    <3>2. t # n
      BY <1>6, <1>1, <1>4, <3>1
    <3> QED BY <1>1, <2>1, <2>3, <3>1, <3>2, OneBlock
  <2> QED BY <2>5, <2>6 DEF count, left
<1> QED BY <1>1, <1>4, <1>5, <1>6
-----------------------------------------------------------------------------
(* An operation that a pattern tiles.                                       *)
Replaced(o) ==
  /\ o \in Operation
  /\ ~Pattern(o).fits /\ ~Pattern(o).tooLarge

HasRoom(o) == "short stripe" \notin Faults(o)
HasTable(o) == "float table" \notin SliceFaults(o)

TileRows(o, i) == IF Striped(o) THEN Stripes(o, i) ELSE {WholeHeight(o)}

LEMMA NoFault ==
  ASSUME NEW o, Replaced(o)
  PROVE  /\ HasRoom(o) => (Striped(o) => ~ShortStripe(o))
         /\ Faults(o) = {} =>
              /\ Striped(o) => ~OddStripes(o) /\ ~WideKernel(o) /\ ~ShortStripe(o)
              /\ o.kind = "d2s" => o.crd
              /\ ~Lost(o) /\ HasRoom(o)
PROOF
<1>1. ~Pattern(o).fits /\ ~Pattern(o).tooLarge
  BY DEF Replaced
<1>2. Striped(o) /\ ShortStripe(o) => "short stripe" \in Faults(o)
  BY <1>1 DEF Faults
<1>3. Striped(o) /\ OddStripes(o) => "odd stripes" \in Faults(o)
  BY <1>1 DEF Faults
<1>4. Striped(o) /\ WideKernel(o) => "wide kernel" \in Faults(o)
  BY <1>1 DEF Faults
<1>5. o.kind = "d2s" /\ ~o.crd => "dcr" \in Faults(o)
  BY <1>1 DEF Faults
<1>6. Lost(o) => "lost" \in Faults(o)
  BY <1>1 DEF Faults
<1> QED BY <1>2, <1>3, <1>4, <1>5, <1>6 DEF HasRoom

(* The channel tiles, and the channels of each; none may be left.           *)
LEMMA ChannelTilesOf ==
  ASSUME NEW o, Replaced(o)
  PROVE  LET ch == TileChannels(o)
             count(i) == Smaller(ch, o.outCh - i * ch)
         IN  /\ ChannelTiles(o) \in Nat
             /\ \A i \in 0 .. ChannelTiles(o) - 1 :
                  /\ i * ch \in Nat /\ count(i) \in Positive /\ i * ch + count(i) <= o.outCh
                  /\ \A x \in 0 .. o.outCh - 1 :
                       i * ch <= x /\ x < i * ch + count(i) <=> i * ch <= x /\ x < i * ch + ch
             /\ ~Lost(o) => \A x \in 0 .. o.outCh - 1 :
                  \E i \in 0 .. ChannelTiles(o) - 1 : i * ch <= x /\ x < i * ch + ch
PROOF
<1> DEFINE ch == TileChannels(o)
           tilesOf == DivCeil(o.outCh, ch)
           count(i) == Smaller(ch, o.outCh - i * ch)
<1>1. ch \in Positive /\ ch \in Nat /\ o.outCh \in Positive /\ o.outCh \in Nat
  BY PatternFacts DEF Replaced, Operation, Positive
<1>2. ChannelTiles(o) = (IF Lost(o) THEN 0 ELSE tilesOf)
  BY DEF ChannelTiles
<1> HIDE DEF ch
<1>3. /\ tilesOf \in Positive
      /\ \A i \in 0 .. tilesOf - 1 : i * ch \in Nat /\ i * ch < o.outCh
      /\ \A x \in 0 .. o.outCh - 1 : \E i \in 0 .. tilesOf - 1 : i * ch <= x /\ x < i * ch + ch
  BY <1>1, Blocks
<1> HIDE DEF tilesOf
<1>4. ASSUME NEW i \in 0 .. tilesOf - 1
      PROVE  /\ count(i) \in Positive /\ i * ch + count(i) <= o.outCh
             /\ \A x \in 0 .. o.outCh - 1 :
                  i * ch <= x /\ x < i * ch + count(i) <=> i * ch <= x /\ x < i * ch + ch
  <2> DEFINE a == i * ch
  <2>1. a \in Nat /\ a < o.outCh
    BY <1>3
  <2> HIDE DEF a
  <2>2. Smaller(ch, o.outCh - a) \in Positive /\ a + Smaller(ch, o.outCh - a) <= o.outCh
        /\ \A x \in 0 .. o.outCh - 1 :
             a <= x /\ x < a + Smaller(ch, o.outCh - a) <=> a <= x /\ x < a + ch
    BY <1>1, <2>1 DEF Smaller, Positive
  <2> QED BY <2>2 DEF a
<1>5. CASE Lost(o)
  <2>1. ChannelTiles(o) = 0 /\ 0 .. 0 - 1 = {}
    BY <1>2, <1>5
  <2> QED BY <1>5, <2>1
<1>6. CASE ~Lost(o)
  <2>1. ChannelTiles(o) = tilesOf /\ tilesOf \in Nat
    BY <1>2, <1>3, <1>6 DEF Positive
  <2> HIDE DEF count
  <2>2. /\ \A i \in 0 .. ChannelTiles(o) - 1 :
             /\ i * ch \in Nat /\ count(i) \in Positive /\ i * ch + count(i) <= o.outCh
             /\ \A x \in 0 .. o.outCh - 1 :
                  i * ch <= x /\ x < i * ch + count(i) <=> i * ch <= x /\ x < i * ch + ch
        /\ \A x \in 0 .. o.outCh - 1 :
             \E i \in 0 .. ChannelTiles(o) - 1 : i * ch <= x /\ x < i * ch + ch
    BY <1>3, <1>4, <2>1
  <2> QED BY <2>1, <2>2 DEF ch, count
<1> QED BY <1>5, <1>6

(* The stripes of an operation have room for their halos, or there is only  *)
(* one; and they are sound when no other fault is met.                      *)
LEMMA StripesAreRoomy ==
  ASSUME NEW o, Replaced(o), HasRoom(o), Striped(o),
         NEW i \in 0 .. ChannelTiles(o) - 1
  PROVE  /\ StripeCount(o, i) \in Positive
         /\ StripeCount(o, i) > 1 => Roomy(o, StripeCount(o, i))
PROOF
<1> DEFINE n == StripeCount(o, i)
<1>1. o \in Operation /\ i \in Nat /\ Half \in Positive
  <2>1. o \in Operation /\ Half \in Positive
    BY PatternFacts DEF Replaced
  <2>2. ChannelTiles(o) \in Nat
    BY ChannelTilesOf
  <2> QED BY <2>1, <2>2
<1>2. n \in Positive
  BY <1>1, StripeCounts
<1>3. ASSUME n > 1 PROVE Roomy(o, n)
  <2>1. n \in Counts(o) \ {1}
    <3>1. n \in Counts(o)
      BY DEF Counts
    <3> HIDE DEF n
    <3> QED BY <1>2, <1>3, <3>1 DEF Positive
  <2>2. ~ShortStripe(o)
    BY NoFault
  <2> HIDE DEF n
  <2>3. /\ ~(o.h \div n < Larger(1, InHalo(o)))
        /\ ~(o.outH % n > 0 /\ o.h % n < Larger(1, InHalo(o)))
    BY <2>1, <2>2 DEF ShortStripe
  <2>4. InHalo(o) \in Nat /\ o.h \in Nat /\ o.outH \in Nat
    BY <1>1, Halos DEF Operation, Positive
  <2>5. o.h \div n \in Int /\ o.h % n \in Int
    BY <1>2, <2>4 DEF Positive
  <2>6. \A a \in Int : ~(a < Larger(1, InHalo(o))) => a >= 1 /\ a >= InHalo(o)
    <3> DEFINE hi == InHalo(o)
    <3>1. hi \in Nat
      BY <2>4
    <3> HIDE DEF hi
    <3>2. \A a \in Int : ~(a < (IF 1 > hi THEN 1 ELSE hi)) => a >= 1 /\ a >= hi
      BY <3>1
    <3> QED BY <3>2 DEF hi, Larger
  <2> QED BY <2>3, <2>5, <2>6 DEF Roomy
<1> QED BY <1>2, <1>3

LEMMA StripesAreSound ==
  ASSUME NEW o, Replaced(o), Faults(o) = {}, Striped(o), NEW i \in 0 .. ChannelTiles(o) - 1
  PROVE  /\ StripeCount(o, i) \in Positive
         /\ StripeCount(o, i) > 1 => Sound(o, StripeCount(o, i))
PROOF
<1> DEFINE n == StripeCount(o, i)
<1>1. o \in Operation
  BY DEF Replaced
<1>2. n \in Positive /\ (n > 1 => Roomy(o, n))
  BY NoFault, StripesAreRoomy
<1>3. ASSUME n > 1 PROVE Sound(o, n)
  <2>1. n \in Counts(o) \ {1}
    BY <1>2, <1>3 DEF Counts, Positive
  <2>2. ~OddStripes(o) /\ ~WideKernel(o)
    BY NoFault
  <2> HIDE DEF n
  <2>3. /\ o.h \div n = o.stride * (o.outH \div n)
        /\ o.outH % n = DivCeil(o.h % n, o.stride)
        /\ ~(o.stride > 2) /\ ~(o.stride = 2 /\ o.k > 4)
    BY <2>1, <2>2 DEF OddStripes
  <2>4. ~(o.top > InHalo(o)) /\ ~(o.k - o.top > InHalo(o) + o.stride)
    BY <2>1, <2>2 DEF WideKernel
  <2>5. o.stride \in Nat /\ o.stride >= 1 /\ o.k \in Nat /\ o.top \in Nat /\ InHalo(o) \in Nat
    BY <1>1, Halos DEF Operation, Positive
  <2>6. o.top <= InHalo(o) /\ o.k - o.top <= InHalo(o) + o.stride
    BY <2>4, <2>5
  <2>7. o.stride = 1 \/ (o.stride = 2 /\ o.k <= 4)
    BY <2>3, <2>5
  <2> QED BY <1>2, <1>3, <2>3, <2>6, <2>7 DEF Sound
<1> QED BY <1>2, <1>3

(* What a tile that is not cut, or is cut in one stripe, has.               *)
LEMMA OneStripe ==
  ASSUME NEW o \in Operation, NEW i, Striped(o), StripeCount(o, i) = 1
  PROVE  TileRows(o, i) = {WholeHeight(o)}
PROOF
<1>1. o.outH \in Nat /\ o.h \in Nat
  BY DEF Operation, Positive
<1>2. o.outH % 1 = 0 /\ o.outH \div 1 = o.outH /\ o.h \div 1 = o.h
  BY <1>1
<1>3. Stripe(o, 1, 0) = WholeHeight(o)
  BY <1>1, <1>2 DEF Stripe, WholeHeight
<1>4. Stripes(o, i) = {Stripe(o, 1, s) : s \in 0 .. 0}
  BY <1>2 DEF Stripes
<1> QED BY <1>3, <1>4 DEF TileRows

LEMMA TileRowsArePlaced ==
  ASSUME NEW o, Replaced(o), HasRoom(o),
         NEW i \in 0 .. ChannelTiles(o) - 1
  PROVE  \A st \in TileRows(o, i) : PlacedStripe(o, st)
PROOF
<1> DEFINE n == StripeCount(o, i)
<1>1. o \in Operation
  BY DEF Replaced
<1>2. CASE TileRows(o, i) = {WholeHeight(o)}
  BY <1>1, <1>2, WholeHeightIsGood DEF GoodStripe
<1>3. CASE Striped(o) /\ n > 1
  <2>1. n \in Positive /\ Roomy(o, n)
    BY <1>3, StripesAreRoomy
  <2>2. TileRows(o, i) = {Stripe(o, n, s) : s \in 0 .. StripesOf(n, o.outH % n) - 1}
    BY <1>3 DEF TileRows, Stripes, StripesOf
  <2> HIDE DEF n
  <2> QED BY <1>1, <1>3, <2>1, <2>2, StripeIsPlaced
<1>4. Striped(o) => n = 1 \/ n > 1
  <2>1. Striped(o) => n \in Positive
    BY StripesAreRoomy
  <2> HIDE DEF n
  <2> QED BY <2>1 DEF Positive
<1>5. ~Striped(o) => TileRows(o, i) = {WholeHeight(o)}
  BY DEF TileRows
<1> QED BY <1>1, <1>2, <1>3, <1>4, <1>5, OneStripe

LEMMA TileRowsAreGood ==
  ASSUME NEW o, Replaced(o), Faults(o) = {}, NEW i \in 0 .. ChannelTiles(o) - 1
  PROVE  /\ \A st \in TileRows(o, i) : GoodStripe(o, st)
         /\ \A q \in 0 .. o.outH - 1 :
              \E st \in TileRows(o, i) :
                Keeps(st, q) /\ \A su \in TileRows(o, i) : Keeps(su, q) => su = st
PROOF
<1> DEFINE n == StripeCount(o, i)
<1>1. o \in Operation /\ o.outH \in Nat
  BY DEF Replaced, Operation
<1>2. CASE TileRows(o, i) = {WholeHeight(o)}
  <2>1. GoodStripe(o, WholeHeight(o))
    BY <1>1, WholeHeightIsGood
  <2>2. \A q \in 0 .. o.outH - 1 : Keeps(WholeHeight(o), q)
    BY <1>1 DEF Keeps, WholeHeight
  <2> QED BY <1>2, <2>1, <2>2
<1>3. CASE Striped(o) /\ n > 1
  <2>1. n \in Positive /\ Sound(o, n)
    BY <1>3, StripesAreSound
  <2>2. TileRows(o, i) = {Stripe(o, n, s) : s \in 0 .. StripesOf(n, o.outH % n) - 1}
    BY <1>3 DEF TileRows, Stripes, StripesOf
  <2> HIDE DEF n
  <2>3. \A st \in TileRows(o, i) : GoodStripe(o, st)
    BY <1>1, <1>3, <2>1, <2>2, StripeIsGood
  <2>4. ASSUME NEW q \in 0 .. o.outH - 1
        PROVE  \E st \in TileRows(o, i) :
                 Keeps(st, q) /\ \A su \in TileRows(o, i) : Keeps(su, q) => su = st
    <3>1. PICK s \in 0 .. StripesOf(n, o.outH % n) - 1 :
            /\ Keeps(Stripe(o, n, s), q)
            /\ \A t \in 0 .. StripesOf(n, o.outH % n) - 1 :
                 Keeps(Stripe(o, n, t), q) => t = s
      BY <1>1, <1>3, <2>1, StripesPartition
    <3> QED BY <2>2, <3>1
  <2> QED BY <2>3, <2>4
<1>4. Striped(o) => n = 1 \/ n > 1
  BY StripesAreSound DEF Positive
<1>5. ~Striped(o) => TileRows(o, i) = {WholeHeight(o)}
  BY DEF TileRows
<1> QED BY <1>1, <1>2, <1>3, <1>4, <1>5, OneStripe
-----------------------------------------------------------------------------
(* An operation t that is a part of o: it computes elements that o computes,*)
(* and from what o computes them.                                           *)
Sane(o) == o \in Operation /\ o.inside = TRUE /\ o.keep \subseteq 0 .. o.outH - 1

PartOf(t, o) ==
  /\ Sane(t)
  /\ \A c \in 0 .. t.outCh - 1, r \in t.keep :
       /\ Computes(o, c + t.to, r + t.out)
       /\ ComputedFrom(t, c, r) = ComputedFrom(o, c + t.to - o.to, r + t.out - o.out)

(* The operations of T compute what o computes, and each element once.      *)
Splits(T, o) ==
  /\ \A t \in T : PartOf(t, o)
  /\ \A c, r \in Int : Computes(o, c, r) =>
       \E t \in T : Computes(t, c, r) /\ \A u \in T : Computes(u, c, r) => u = t

LEMMA SelfSplit ==
  ASSUME NEW o, Sane(o)
  PROVE  Splits({o}, o)
PROOF
<1>1. o.to \in Nat /\ o.out \in Int /\ o.outCh \in Nat /\ o.keep \subseteq Int
  BY DEF Sane, Operation, Positive
<1>2. ASSUME NEW c \in 0 .. o.outCh - 1, NEW r \in o.keep
      PROVE  /\ Computes(o, c + o.to, r + o.out)
             /\ c + o.to - o.to = c /\ r + o.out - o.out = r
  BY <1>1 DEF Computes
<1> QED BY <1>2 DEF Splits, PartOf

LEMMA PartsOfParts ==
  ASSUME NEW o, NEW s, NEW t, Sane(o), PartOf(s, o), PartOf(t, s)
  PROVE  PartOf(t, o)
PROOF
<1>1. /\ o.to \in Int /\ o.out \in Int /\ s.to \in Int /\ s.out \in Int
      /\ t.to \in Int /\ t.out \in Int /\ t.outCh \in Int /\ t.keep \subseteq Int
  BY DEF PartOf, Sane, Operation, Positive
<1>2. ASSUME NEW c \in 0 .. t.outCh - 1, NEW r \in t.keep
      PROVE  /\ Computes(o, c + t.to, r + t.out)
             /\ ComputedFrom(t, c, r) = ComputedFrom(o, c + t.to - o.to, r + t.out - o.out)
  <2> DEFINE d == c + t.to - s.to
             q == r + t.out - s.out
  <2>1. c \in Int /\ r \in Int
    BY <1>1
  <2>2. /\ Computes(s, c + t.to, r + t.out)
        /\ ComputedFrom(t, c, r) = ComputedFrom(s, d, q)
    BY DEF PartOf
  <2>3. d \in 0 .. s.outCh - 1 /\ q \in s.keep
    <3>1. (c + t.to) - s.to \in 0 .. s.outCh - 1 /\ (r + t.out) - s.out \in s.keep
      BY <2>2 DEF Computes
    <3>2. (c + t.to) - s.to = d /\ (r + t.out) - s.out = q
      BY <1>1, <2>1
    <3> QED BY <3>1, <3>2
  <2>4. /\ Computes(o, d + s.to, q + s.out)
        /\ ComputedFrom(s, d, q) = ComputedFrom(o, d + s.to - o.to, q + s.out - o.out)
    BY <2>3 DEF PartOf
  <2>5. d + s.to = c + t.to /\ q + s.out = r + t.out
    BY <1>1, <2>1
  <2>6. Computes(o, c + t.to, r + t.out)
    BY <2>4, <2>5
  <2>7. ComputedFrom(s, d, q) = ComputedFrom(o, c + t.to - o.to, r + t.out - o.out)
    <3>1. d + s.to - o.to = c + t.to - o.to /\ q + s.out - o.out = r + t.out - o.out
      BY <1>1, <2>1
    <3> QED BY <2>4, <3>1
  <2> QED BY <2>2, <2>6, <2>7
<1> QED BY <1>2 DEF PartOf

(* The parts of the parts of an operation are its parts.                    *)
LEMMA SplitsOfParts ==
  ASSUME NEW o, NEW S, NEW f, Sane(o), Splits(S, o),
         \A s \in S : Splits(f[s], s)
  PROVE  Splits(UNION {f[s] : s \in S}, o)
PROOF
<1> DEFINE T == UNION {f[s] : s \in S}
<1>1. \A t \in T : PartOf(t, o)
  BY PartsOfParts DEF Splits
<1>2. ASSUME NEW c \in Int, NEW r \in Int, Computes(o, c, r)
      PROVE  \E t \in T : Computes(t, c, r) /\ \A u \in T : Computes(u, c, r) => u = t
  <2>1. PICK s \in S : Computes(s, c, r) /\ \A u \in S : Computes(u, c, r) => u = s
    BY <1>2 DEF Splits
  <2>2. PICK t \in f[s] : Computes(t, c, r) /\ \A u \in f[s] : Computes(u, c, r) => u = t
    BY <2>1 DEF Splits
  <2>3. ASSUME NEW u \in T, Computes(u, c, r) PROVE u = t
    <3>1. PICK p \in S : u \in f[p]
      OBVIOUS
    <3>2. PartOf(u, p)
      BY <3>1 DEF Splits
    <3>3. c - u.to \in 0 .. u.outCh - 1 /\ r - u.out \in u.keep /\ u.to \in Int /\ u.out \in Int
      BY <2>3, <3>2 DEF Computes, PartOf, Sane, Operation
    <3>4. (c - u.to) + u.to = c /\ (r - u.out) + u.out = r
      BY <3>3
    <3>5. Computes(p, c, r)
      BY <3>2, <3>3, <3>4 DEF PartOf
    <3> QED BY <2>1, <2>2, <2>3, <3>1, <3>5
  <2> QED BY <2>2, <2>3
<1> QED BY <1>1, <1>2 DEF Splits
-----------------------------------------------------------------------------
(* A tile computes its elements from what its operation computes them.      *)
LEMMA TileRowsRead ==
  ASSUME NEW o \in Operation, NEW t \in Operation, NEW st, GoodStripe(o, st),
         Striped(o) \/ st = WholeHeight(o),
         t.kind = o.kind, t.k = o.k, t.stride = o.stride, t.top = o.top,
         t.row = o.row + st.row, t.h = st.h,
         NEW r \in st.drop .. st.drop + st.kept - 1
  PROVE  RowsRead(t, r) = RowsRead(o, r + (st.to - st.drop))
PROOF
<1>1. Striped(t) <=> Striped(o)
  BY KindFacts
<1>2. CASE ~Striped(o)
  <2>1. t.row = o.row /\ t.h = o.h
    BY <1>2 DEF WholeHeight, Operation
  <2> QED BY <1>1, <1>2, <2>1 DEF RowsRead
<1>3. CASE Striped(o)
  <2>1. /\ o.stride \in Nat /\ o.stride >= 1 /\ o.top \in Nat /\ o.k \in Nat /\ o.row \in Int
        /\ o.h \in Nat /\ st.to \in Nat /\ st.drop \in Nat /\ st.kept \in Nat /\ st.h \in Nat
        /\ st.row \in Nat /\ st.row = o.stride * (st.to - st.drop) /\ r \in Nat
        /\ r >= st.drop /\ r <= st.drop + st.kept - 1
    BY DEF Operation, GoodStripe, PlacedStripe, Positive
  <2>2. ASSUME NEW j \in 0 .. o.k - 1
        PROVE  LET p == r * o.stride - o.top + j
                   u == (r + (st.to - st.drop)) * o.stride - o.top + j
               IN  (IF p \in 0 .. st.h - 1 THEN (o.row + st.row) + p ELSE -1000)
                     = (IF u \in 0 .. o.h - 1 THEN o.row + u ELSE -1000)
    <3> DEFINE p == r * o.stride - o.top + j
               u == (r + (st.to - st.drop)) * o.stride - o.top + j
    <3>1. j \in Int /\ j >= 0 /\ j <= o.k - 1
      BY <2>1
    <3>2. p \in Int
      BY <2>1, <3>1, Product
    <3>3. u = st.row + p
      <4> DEFINE a == st.to - st.drop
      <4>1. a \in Int
        BY <2>1
      <4>2. (r + a) * o.stride = r * o.stride + o.stride * a
        <5> HIDE DEF a
        <5> QED BY <2>1, <4>1, Z3
      <4> QED BY <2>1, <3>1, <4>2, Product
    <3>4. /\ st.drop * o.stride <= r * o.stride
          /\ r * o.stride <= (st.drop + st.kept - 1) * o.stride
      <4>1. \A a, b \in Int : a <= b => a * o.stride <= b * o.stride
        BY <2>1, Z3
      <4>2. st.drop + st.kept - 1 \in Int /\ r \in Int /\ st.drop \in Int
        BY <2>1
      <4> QED BY <2>1, <4>1, <4>2
    <3>5. /\ p >= st.drop * o.stride - o.top
          /\ p <= (st.drop + st.kept - 1) * o.stride - o.top + o.k - 1
      BY <2>1, <3>1, <3>4, Product
    <3>6. p \in 0 .. st.h - 1 <=> st.row + p \in 0 .. o.h - 1
      <4> HIDE DEF p
      <4> QED BY <3>2, <3>5 DEF GoodStripe
    <3>7. (o.row + st.row) + p = o.row + (st.row + p)
      <4> HIDE DEF p
      <4> QED BY <2>1, <3>2
    <3> HIDE DEF p, u
    <3>8. (IF p \in 0 .. st.h - 1 THEN (o.row + st.row) + p ELSE -1000)
            = (IF u \in 0 .. o.h - 1 THEN o.row + u ELSE -1000)
      BY <3>3, <3>6, <3>7
    <3> QED BY <3>8 DEF p, u
  <2> QED BY <1>1, <1>3, <2>2 DEF RowsRead
<1> QED BY <1>2, <1>3

LEMMA TileChannelsRead ==
  ASSUME NEW o \in Operation, NEW t \in Operation, NEW first \in Nat, NEW c \in Nat,
         t.kind = o.kind, t.factor = o.factor, t.crd = o.crd,
         o.kind = "d2s" => o.crd,
         InPerOut(o) = 0 => t.inCh = o.inCh,
         t.from = o.from + InPerOut(o) * first
  PROVE  ChannelsRead(t, c) = ChannelsRead(o, c + first)
PROOF
<1>1. /\ InPerOut(t) = InPerOut(o) /\ InPerOut(o) \in Nat /\ o.from \in Nat /\ o.inCh \in Nat
      /\ InPerOut(o) = 0 => o.kind # "d2s"
  <2>1. InPerOut(t) = InPerOut(o)
    <3>1. InPerOut(t) = (CASE t.kind \in {"conv1d", "conv2d", "fc"} -> 0
                           [] t.kind = "d2s" -> t.factor [] OTHER -> 1)
      BY KindFacts
    <3>2. InPerOut(o) = (CASE o.kind \in {"conv1d", "conv2d", "fc"} -> 0
                           [] o.kind = "d2s" -> o.factor [] OTHER -> 1)
      BY KindFacts
    <3> QED BY <3>1, <3>2
  <2>2. o.kind = "d2s" => InPerOut(o) = o.factor
    BY KindFacts
  <2> QED BY <2>1, <2>2, KindFacts DEF Operation, Positive
<1>2. CASE InPerOut(o) = 0
  BY <1>1, <1>2 DEF ChannelsRead
<1>3. CASE InPerOut(o) # 0
  <2> DEFINE ipo == InPerOut(o)
  <2>1. /\ ChannelsRead(t, c) = {t.from + j : j \in c * ipo .. (c + 1) * ipo - 1}
        /\ ChannelsRead(o, c + first) =
             {o.from + j : j \in (c + first) * ipo .. (c + first + 1) * ipo - 1}
    BY <1>1, <1>3 DEF ChannelsRead
  <2>2. /\ ipo * first \in Int /\ c * ipo \in Int /\ (c + 1) * ipo \in Int /\ ipo \in Nat
        /\ (c + first) * ipo = c * ipo + ipo * first
        /\ (c + first + 1) * ipo = (c + 1) * ipo + ipo * first
    <3> HIDE DEF ipo
    <3> SUFFICES ASSUME ipo \in Nat
                 PROVE  /\ ipo * first \in Int /\ c * ipo \in Int /\ (c + 1) * ipo \in Int
                        /\ (c + first) * ipo = c * ipo + ipo * first
                        /\ (c + first + 1) * ipo = (c + 1) * ipo + ipo * first
      BY <1>1 DEF ipo
    <3> QED BY Z3
  <2>3. ASSUME NEW x \in Int, NEW a \in Int, NEW b \in Int
        PROVE  {(o.from + x) + j : j \in a .. b - 1}
                 = {o.from + j : j \in a + x .. (b + x) - 1}
    <3>1. ASSUME NEW j \in a .. b - 1
          PROVE  (o.from + x) + j \in {o.from + i : i \in a + x .. (b + x) - 1}
      <4>1. j + x \in a + x .. (b + x) - 1 /\ (o.from + x) + j = o.from + (j + x)
        BY <1>1
      <4> QED BY <4>1
    <3>2. ASSUME NEW j \in a + x .. (b + x) - 1
          PROVE  o.from + j \in {(o.from + x) + i : i \in a .. b - 1}
      <4>1. j - x \in a .. b - 1 /\ o.from + j = (o.from + x) + (j - x)
        BY <1>1
      <4> QED BY <4>1
    <3> QED BY <3>1, <3>2
  <2> HIDE DEF ipo
  <2>4. t.from = o.from + ipo * first
    BY DEF ipo
  <2> DEFINE x == ipo * first
             a == c * ipo
             b == (c + 1) * ipo
  <2>5. {(o.from + x) + j : j \in a .. b - 1} = {o.from + j : j \in a + x .. (b + x) - 1}
    <3>1. x \in Int /\ a \in Int /\ b \in Int
      BY <2>2
    <3> HIDE DEF x, a, b
    <3> QED BY <2>3, <3>1
  <2>6. ChannelsRead(t, c) = {(o.from + x) + j : j \in a .. b - 1}
    BY <2>1, <2>4
  <2>7. ChannelsRead(o, c + first) = {o.from + j : j \in a + x .. (b + x) - 1}
    BY <2>1, <2>2
  <2> QED BY <2>5, <2>6, <2>7
<1> QED BY <1>2, <1>3

(* A tile of channels and rows of its operation.                            *)
LEMMA TileIsSane ==
  ASSUME NEW o, Sane(o),
         NEW first \in Nat, NEW count \in Positive, first + count <= o.outCh,
         NEW st, PlacedStripe(o, st)
  PROVE  Sane(Tile(o, first, count, st))
PROOF
<1> DEFINE t == Tile(o, first, count, st)
<1>1. o \in Operation /\ o.inside = TRUE /\ o.keep \subseteq 0 .. o.outH - 1
  BY DEF Sane
<1>2. /\ o.to \in Nat /\ o.weights \in Nat /\ o.bias \in Nat /\ o.inCh \in Positive
      /\ o.from \in Nat /\ o.row \in Int /\ o.out \in Int /\ o.outH \in Nat /\ o.outCh \in Nat
      /\ o.h \in Nat
  BY <1>1 DEF Operation, Positive
<1>3. /\ InPerOut(o) \in Nat /\ Items(o) \in {1, 2}
  BY <1>1, KindFacts, Sizes
<1>4. /\ st.row \in Nat /\ st.h \in Positive /\ st.h \in Nat /\ st.row + st.h <= o.h
      /\ st.to \in Nat /\ st.kept \in Nat /\ st.to + st.kept <= o.outH
      /\ st.drop \in Nat /\ st.outH \in Nat
      /\ st.drop + st.kept <= st.outH
  BY DEF PlacedStripe, Positive
<1>5. count \in Nat /\ count >= 1
  BY DEF Positive
<1>6. /\ t.outCh = count /\ t.to = o.to + first /\ t.weights = o.weights + first
      /\ t.bias = o.bias + Items(o) * first
      /\ t.inCh = (IF InPerOut(o) = 0 THEN o.inCh ELSE InPerOut(o) * count)
      /\ t.from = o.from + InPerOut(o) * first
      /\ t.row = o.row + st.row /\ t.h = st.h /\ t.outH = st.outH
      /\ t.out = o.out + st.to - st.drop
  BY <1>1, TileFields
<1>7. t.keep = {r \in st.drop .. st.drop + st.kept - 1 : r + st.to - st.drop \in o.keep}
  BY <1>1, TileFields
<1>8. t.inside = TRUE
  <2>1. t.inside = (o.inside /\ Inside(st.row, st.h, o.h)
                      /\ Inside(first, count, o.outCh) /\ Inside(st.to, st.kept, o.outH))
    BY <1>1, TileFields
  <2>2. Inside(st.row, st.h, o.h) /\ Inside(first, count, o.outCh) /\ Inside(st.to, st.kept, o.outH)
    BY <1>2, <1>4 DEF Inside
  <2> QED BY <1>1, <2>1, <2>2
<1> HIDE DEF t
<1>9. t.keep \subseteq 0 .. t.outH - 1
  BY <1>4, <1>6, <1>7
<1>10. t \in Operation
  <2>1. InPerOut(o) * first \in Nat /\ Items(o) * first \in Nat
    BY <1>3, Steps
  <2>2. InPerOut(o) # 0 => InPerOut(o) * count \in Positive
    BY <1>3, Products DEF Positive
  <2>3. /\ t.to \in Nat /\ t.weights \in Nat /\ t.bias \in Nat /\ t.from \in Nat
        /\ t.row \in Int /\ t.out \in Int /\ t.inCh \in Positive
    BY <1>2, <1>4, <1>6, <2>1, <2>2
  <2>4. t.keep \in SUBSET Nat /\ t.inside \in BOOLEAN
    <3>1. 0 .. t.outH - 1 \subseteq Nat
      BY <1>4, <1>6
    <3> QED BY <1>8, <1>9, <3>1
  <2> QED BY <1>1, <1>4, <1>6, <2>3, <2>4, TileIsOperation DEF t
<1> QED BY <1>8, <1>9, <1>10 DEF Sane, t

(* A tile is a part of its operation: the channels from first, the rows     *)
(* that the stripe keeps.                                                   *)
LEMMA TileIsPart ==
  ASSUME NEW o, Sane(o), o.kind = "d2s" => o.crd,
         NEW first \in Nat, NEW count \in Positive, first + count <= o.outCh,
         NEW st, GoodStripe(o, st), Striped(o) \/ st = WholeHeight(o)
  PROVE  /\ PartOf(Tile(o, first, count, st), o)
         /\ \A c, r \in Int :
              Computes(Tile(o, first, count, st), c, r) <=>
                /\ Computes(o, c, r)
                /\ first <= c - o.to /\ c - o.to < first + count
                /\ Keeps(st, r - o.out)
PROOF
<1> DEFINE t == Tile(o, first, count, st)
<1>1. o \in Operation /\ o.inside = TRUE /\ o.keep \subseteq 0 .. o.outH - 1
  BY DEF Sane
<1>2. /\ o.to \in Nat /\ o.weights \in Nat /\ o.bias \in Nat /\ o.inCh \in Positive
      /\ o.from \in Nat /\ o.row \in Int /\ o.out \in Int /\ o.outH \in Nat /\ o.outCh \in Nat
      /\ o.h \in Nat
  BY <1>1 DEF Operation, Positive
<1>3. /\ InPerOut(o) \in Nat /\ Items(o) \in {1, 2}
  BY <1>1, KindFacts, Sizes
<1>4. /\ st.row \in Nat /\ st.h \in Positive /\ st.h \in Nat /\ st.row + st.h <= o.h
      /\ st.to \in Nat /\ st.kept \in Nat /\ st.to + st.kept <= o.outH
      /\ st.drop \in Nat /\ st.outH \in Nat
      /\ st.drop + st.kept <= st.outH
  BY DEF GoodStripe, PlacedStripe, Positive
<1>5. count \in Nat /\ count >= 1
  BY DEF Positive
<1>6. /\ t.outCh = count /\ t.to = o.to + first /\ t.weights = o.weights + first
      /\ t.bias = o.bias + Items(o) * first
      /\ t.inCh = (IF InPerOut(o) = 0 THEN o.inCh ELSE InPerOut(o) * count)
      /\ t.from = o.from + InPerOut(o) * first
      /\ t.row = o.row + st.row /\ t.h = st.h /\ t.outH = st.outH
      /\ t.out = o.out + (st.to - st.drop)
      /\ t.kind = o.kind /\ t.float = o.float /\ t.k = o.k /\ t.stride = o.stride
      /\ t.top = o.top /\ t.factor = o.factor /\ t.crd = o.crd
  <2>1. o.out + st.to - st.drop = o.out + (st.to - st.drop)
    BY <1>2, <1>4
  <2> QED BY <1>1, <2>1, TileFields
<1>7. t.keep = {r \in st.drop .. st.drop + st.kept - 1 : r + (st.to - st.drop) \in o.keep}
  <2>1. t.keep = {r \in st.drop .. st.drop + st.kept - 1 : r + st.to - st.drop \in o.keep}
    BY <1>1, TileFields
  <2> QED BY <2>1
<1>8. Sane(t)
  BY TileIsSane DEF GoodStripe
<1>10. t \in Operation
  BY <1>8 DEF Sane
<1> HIDE DEF t
<1>11. ASSUME NEW c \in Int, NEW r \in Int
       PROVE  Computes(t, c, r) <=>
                /\ Computes(o, c, r)
                /\ first <= c - o.to /\ c - o.to < first + count
                /\ Keeps(st, r - o.out)
  <2>1. c - t.to \in 0 .. t.outCh - 1 <=>
          /\ c - o.to \in 0 .. o.outCh - 1
          /\ first <= c - o.to /\ c - o.to < first + count
    BY <1>2, <1>5, <1>6
  <2>2. r - t.out \in t.keep <=> r - o.out \in o.keep /\ Keeps(st, r - o.out)
    <3> DEFINE x == r - t.out
               y == r - o.out
    <3>1. x \in Int /\ y \in Int /\ x + (st.to - st.drop) = y
      BY <1>2, <1>4, <1>6
    <3>2. x \in st.drop .. st.drop + st.kept - 1 <=> st.to <= y /\ y < st.to + st.kept
      <4> HIDE DEF x, y
      <4> QED BY <1>4, <3>1
    <3> HIDE DEF x, y
    <3>3. x \in t.keep <=> y \in o.keep /\ Keeps(st, y)
      BY <1>7, <3>1, <3>2 DEF Keeps
    <3> QED BY <3>3 DEF x, y
  <2> QED BY <2>1, <2>2 DEF Computes
<1>12. ASSUME NEW c \in 0 .. t.outCh - 1, NEW r \in t.keep
       PROVE  /\ Computes(o, c + t.to, r + t.out)
              /\ ComputedFrom(t, c, r) = ComputedFrom(o, c + t.to - o.to, r + t.out - o.out)
  <2>1. c \in Nat /\ r \in Int /\ r \in st.drop .. st.drop + st.kept - 1
    BY <1>4, <1>5, <1>6, <1>7
  <2>2. c + t.to \in Int /\ r + t.out \in Int /\ (c + t.to) - t.to = c /\ (r + t.out) - t.out = r
    BY <1>2, <1>4, <1>6, <2>1
  <2>3. Computes(t, c + t.to, r + t.out)
    <3>1. ASSUME NEW a, NEW b, a - t.to = c, b - t.out = r
          PROVE  Computes(t, a, b)
      BY <3>1 DEF Computes
    <3> QED BY <2>2, <3>1
  <2>4. Computes(o, c + t.to, r + t.out)
    BY <1>11, <2>2, <2>3
  <2>5. c + t.to - o.to = c + first /\ r + t.out - o.out = r + (st.to - st.drop)
    BY <1>2, <1>4, <1>6, <2>1
  <2>6. ChannelsRead(t, c) = ChannelsRead(o, c + first)
    BY <1>1, <1>6, <1>10, <2>1, TileChannelsRead
  <2>7. RowsRead(t, r) = RowsRead(o, r + (st.to - st.drop))
    BY <1>1, <1>6, <1>10, <2>1, TileRowsRead
  <2>8. /\ t.weights + c = o.weights + (c + first)
        /\ Items(t) = Items(o)
        /\ t.bias + Items(t) * c = o.bias + Items(o) * (c + first)
    <3>1. Items(t) = Items(o)
      BY <1>6 DEF Items
    <3>2. t.weights + c = o.weights + (c + first)
      BY <1>2, <1>6, <2>1
    <3>3. t.bias + Items(t) * c = o.bias + Items(o) * (c + first)
      <4>1. CASE Items(o) = 1
        BY <1>2, <1>6, <2>1, <3>1, <4>1
      <4>2. CASE Items(o) = 2
        BY <1>2, <1>6, <2>1, <3>1, <4>2
      <4> QED BY <1>3, <4>1, <4>2
    <3> QED BY <3>1, <3>2, <3>3
  <2>9. ComputedFrom(t, c, r) = ComputedFrom(o, c + first, r + (st.to - st.drop))
    BY <2>6, <2>7, <2>8 DEF ComputedFrom
  <2> QED BY <2>4, <2>5, <2>9
<1> QED BY <1>8, <1>11, <1>12 DEF PartOf, t

(* The tiles of an operation: by channels, and by stripes in each.          *)
TileAt(o, i, st) ==
  Tile(o, i * TileChannels(o), Smaller(TileChannels(o), o.outCh - i * TileChannels(o)), st)

LEMMA TiledIs ==
  ASSUME NEW o
  PROVE  Tiled(o) = UNION {{TileAt(o, i, st) : st \in TileRows(o, i)} :
                             i \in 0 .. ChannelTiles(o) - 1}
PROOF
BY DEF Tiled, TileRows, TileAt

LEMMA TiledAreSane ==
  ASSUME NEW o, Sane(o), Replaced(o), HasRoom(o)
  PROVE  \A t \in Tiled(o) : Sane(t)
PROOF
<1> DEFINE ch == TileChannels(o)
           count(i) == Smaller(ch, o.outCh - i * ch)
<1>1. ASSUME NEW i \in 0 .. ChannelTiles(o) - 1, NEW st \in TileRows(o, i)
      PROVE  Sane(TileAt(o, i, st))
  <2>1. i * ch \in Nat /\ count(i) \in Positive /\ i * ch + count(i) <= o.outCh
    BY ChannelTilesOf
  <2>2. PlacedStripe(o, st)
    BY TileRowsArePlaced
  <2> DEFINE a == i * ch
             n == count(i)
  <2>3. a \in Nat /\ n \in Positive /\ a + n <= o.outCh
    BY <2>1
  <2> HIDE DEF a, n
  <2>4. Sane(Tile(o, a, n, st))
    BY <2>2, <2>3, TileIsSane
  <2> QED BY <2>4 DEF a, n, TileAt
<1>2. ASSUME NEW t \in Tiled(o) PROVE Sane(t)
  <2>1. PICK i \in 0 .. ChannelTiles(o) - 1 : t \in {TileAt(o, i, st) : st \in TileRows(o, i)}
    BY TiledIs
  <2> QED BY <1>1, <2>1
<1> QED BY <1>2

(* The tiles of an operation compute what it computes.                      *)
LEMMA TiledSplits ==
  ASSUME NEW o, Sane(o), Replaced(o), Faults(o) = {}
  PROVE  Splits(Tiled(o), o)
PROOF
<1> DEFINE ch == TileChannels(o)
           tilesOf == ChannelTiles(o)
           count(i) == Smaller(ch, o.outCh - i * ch)
           PartAt(i, st) == TileAt(o, i, st)
<1>1. /\ o \in Operation /\ ch \in Positive /\ ch \in Nat /\ ch >= 1 /\ o.outCh \in Positive
      /\ o.outCh \in Nat /\ o.to \in Nat /\ o.out \in Int /\ o.keep \subseteq 0 .. o.outH - 1
      /\ o.outH \in Nat
  <2>1. o \in Operation /\ ch \in Positive
    BY PatternFacts DEF Replaced
  <2> QED BY <2>1 DEF Operation, Positive, Sane
<1>2. o.kind = "d2s" => o.crd
  BY NoFault
<1>3. Tiled(o) = UNION {{PartAt(i, st) : st \in TileRows(o, i)} : i \in 0 .. tilesOf - 1}
  BY TiledIs
<1>4. /\ \A x \in 0 .. o.outCh - 1 : \E i \in 0 .. tilesOf - 1 : i * ch <= x /\ x < i * ch + ch
      /\ tilesOf \in Nat
  BY NoFault, ChannelTilesOf
<1>5. ASSUME NEW i \in 0 .. tilesOf - 1
      PROVE  /\ i * ch \in Nat /\ count(i) \in Positive /\ i * ch + count(i) <= o.outCh
             /\ \A x \in 0 .. o.outCh - 1 :
                  i * ch <= x /\ x < i * ch + count(i) <=> i * ch <= x /\ x < i * ch + ch
  BY ChannelTilesOf
<1>6. ASSUME NEW i \in 0 .. tilesOf - 1
      PROVE  /\ \A st \in TileRows(o, i) : GoodStripe(o, st) /\ (Striped(o) \/ st = WholeHeight(o))
             /\ \A q \in 0 .. o.outH - 1 :
                  \E st \in TileRows(o, i) :
                    Keeps(st, q) /\ \A su \in TileRows(o, i) : Keeps(su, q) => su = st
  BY <1>6, TileRowsAreGood DEF TileRows
<1>7. ASSUME NEW i \in 0 .. tilesOf - 1, NEW st \in TileRows(o, i)
      PROVE  /\ PartOf(PartAt(i, st), o)
             /\ \A c, r \in Int :
                  Computes(PartAt(i, st), c, r) <=>
                    /\ Computes(o, c, r)
                    /\ i * ch <= c - o.to /\ c - o.to < i * ch + count(i)
                    /\ Keeps(st, r - o.out)
  <2> DEFINE a == i * ch
             n == count(i)
  <2>1. a \in Nat /\ n \in Positive /\ a + n <= o.outCh
    BY <1>5
  <2>2. GoodStripe(o, st) /\ (Striped(o) \/ st = WholeHeight(o))
    BY <1>6
  <2> HIDE DEF a, n
  <2>3. /\ PartOf(Tile(o, a, n, st), o)
        /\ \A c, r \in Int :
             Computes(Tile(o, a, n, st), c, r) <=>
               Computes(o, c, r) /\ a <= c - o.to /\ c - o.to < a + n /\ Keeps(st, r - o.out)
    BY <1>1, <1>2, <2>1, <2>2, TileIsPart
  <2> QED BY <2>3 DEF a, n, TileAt
<1> HIDE DEF ch, tilesOf
<1>8. ASSUME NEW c \in Int, NEW r \in Int, Computes(o, c, r)
      PROVE  \E t \in Tiled(o) :
               Computes(t, c, r) /\ \A u \in Tiled(o) : Computes(u, c, r) => u = t
  <2> DEFINE x == c - o.to
             q == r - o.out
  <2>1. x \in 0 .. o.outCh - 1 /\ q \in 0 .. o.outH - 1
    BY <1>1, <1>8 DEF Computes
  <2>2. PICK i \in 0 .. tilesOf - 1 : i * ch <= x /\ x < i * ch + ch
    BY <1>4, <2>1
  <2>3. PICK st \in TileRows(o, i) :
          Keeps(st, q) /\ \A su \in TileRows(o, i) : Keeps(su, q) => su = st
    BY <1>6, <2>1
  <2>4. Computes(PartAt(i, st), c, r)
    BY <1>5, <1>7, <1>8, <2>1, <2>2, <2>3
  <2>5. ASSUME NEW j \in 0 .. tilesOf - 1, NEW su \in TileRows(o, j),
               Computes(PartAt(j, su), c, r)
        PROVE  PartAt(j, su) = PartAt(i, st)
    <3>1. j * ch <= x /\ x < j * ch + ch /\ Keeps(su, q)
      BY <1>5, <1>7, <2>1, <2>5
    <3>2. j = i
      <4>1. i \in Int /\ j \in Int /\ x \in Int
        BY <1>4, <2>1
      <4> HIDE DEF x
      <4> QED BY <1>1, <2>2, <3>1, <4>1, OneBlock
    <3> QED BY <2>3, <2>5, <3>1, <3>2
  <2> HIDE DEF PartAt
  <2>6. PartAt(i, st) \in Tiled(o)
    BY <1>3
  <2>7. ASSUME NEW u \in Tiled(o), Computes(u, c, r)
        PROVE  u = PartAt(i, st)
    <3>1. PICK j \in 0 .. tilesOf - 1 : u \in {PartAt(j, su) : su \in TileRows(o, j)}
      BY <1>3
    <3> QED BY <2>5, <2>7, <3>1
  <2> QED BY <2>4, <2>6, <2>7
<1>9. \A t \in Tiled(o) : PartOf(t, o)
  <2> HIDE DEF PartAt
  <2> SUFFICES ASSUME NEW t \in Tiled(o) PROVE PartOf(t, o)
    OBVIOUS
  <2>1. PICK j \in 0 .. tilesOf - 1 : t \in {PartAt(j, su) : su \in TileRows(o, j)}
    BY <1>3
  <2> QED BY <1>7, <2>1
<1> QED BY <1>8, <1>9 DEF Splits
-----------------------------------------------------------------------------
(* The slices of an operation divide its channels evenly, and a slice takes *)
(* the scale and bias entries of its channels.                              *)
LEMMA Groups ==
  ASSUME NEW o \in Operation
  PROVE  Grouping(o) \in Positive
PROOF
<1>1. o.k \in Positive
  BY DEF Operation
<1>2. ParallelOuts(o) \in {4, 8, 16}
  BY DEF ParallelOuts
<1> QED BY <1>1, <1>2 DEF Grouping, Positive

LEMMA EvenSlices ==
  ASSUME NEW o \in Operation, CanBeSliced(o), SliceFaults(o) = {}
  PROVE  /\ SliceChannels(o) \in Positive
         /\ o.outCh = SliceCount * SliceChannels(o)
         /\ SlicePattern(o).items = Items(o) * SliceChannels(o)
PROOF
<1> DEFINE n == SliceChannels(o)
           N == SliceCount
<1>1. N \in Positive /\ N \in Nat /\ o.outCh \in Positive /\ o.outCh \in Nat /\ Items(o) \in {1, 2}
  BY TilingAssumption, Sizes DEF Operation, Positive
<1>2. n \in Nat /\ o.outCh = N * n + (o.outCh % N)
  BY <1>1, Division DEF SliceChannels
<1>3. CASE o.kind = "fc"
  <2>1. SlicePattern(o) = SliceFullyConnected(o)
    BY <1>3 DEF SlicePattern
  <2>2. n > 0 /\ SlicePattern(o).items = n * 2
    <3>1. SliceFullyConnected(o).applies /\ SliceFullyConnected(o).items = SliceChannels(o) * 2
      BY <2>1 DEF CanBeSliced, SliceFullyConnected
    <3>2. SliceChannels(o) > 0
      BY <3>1 DEF SliceFullyConnected
    <3> QED BY <2>1, <3>1, <3>2
  <2>3. ~(o.outCh % SliceCount # 0) /\ ~o.float
    <3>1. "odd channels" \notin SliceFaults(o) /\ "float table" \notin SliceFaults(o)
      OBVIOUS
    <3>2. ~(o.outCh % SliceCount # 0)
      BY <1>3, <3>1 DEF SliceFaults
    <3>3. ~o.float
      BY <1>3, <3>1 DEF SliceFaults
    <3> QED BY <3>2, <3>3
  <2>4. Items(o) = 2
    BY <2>3 DEF Items
  <2>5. o.outCh % N = 0
    BY <2>3
  <2> HIDE DEF n
  <2>6. o.outCh = N * n /\ n \in Positive /\ n * 2 = 2 * n
    BY <1>1, <1>2, <2>2, <2>5, Product DEF Positive
  <2> QED BY <2>2, <2>4, <2>6 DEF n
<1>4. CASE o.kind # "fc"
  <2>1. /\ o.outCh % (N * Grouping(o)) = 0
        /\ SlicePattern(o).items = (Items(o) * o.outCh) \div N
    BY <1>4 DEF CanBeSliced, SlicePattern, SliceConv2D, SliceDepthWise2D
  <2>2. PICK g \in Positive : g = Grouping(o)
    BY Groups
  <2>3. N * g \in Positive
    BY <1>1, <2>2, Products
  <2>4. PICK m \in Nat : o.outCh = (N * g) * m
    <3>1. /\ o.outCh \div (N * g) \in Nat
          /\ o.outCh = (N * g) * (o.outCh \div (N * g)) + (o.outCh % (N * g))
      BY <1>1, <2>3, Division
    <3>2. o.outCh % (N * g) = 0
      BY <2>1, <2>2
    <3> DEFINE m == o.outCh \div (N * g)
    <3> HIDE DEF m
    <3>3. m \in Nat /\ o.outCh = (N * g) * m + 0
      BY <3>1, <3>2 DEF m
    <3>4. (N * g) * m \in Int
      BY <2>3, <3>3, Product DEF Positive
    <3> QED BY <3>3, <3>4
  <2>5. g * m \in Nat /\ o.outCh = N * (g * m) /\ (g * m) * N = o.outCh
    BY <1>1, <2>2, <2>4, Z3 DEF Positive
  <2>6. g * m > 0
    BY <1>1, <2>5, Z3 DEF Positive
  <2>7. \A a \in Nat : (a * N) \div N = a
    <3> SUFFICES ASSUME NEW a \in Nat PROVE (a * N) \div N = a
      OBVIOUS
    <3>1. a * N \in Nat
      BY <1>1, Steps
    <3>2. PICK q \in Nat : q = (a * N) \div N
      BY <1>1, <3>1, Division
    <3>3. q * N <= a * N /\ a * N < q * N + N
      BY <1>1, <3>1, <3>2, Division
    <3>4. a * N <= a * N /\ a * N < a * N + N
      BY <1>1, <3>1 DEF Positive
    <3>5. a = q
      BY <1>1, <3>1, <3>3, <3>4, OneBlock
    <3> QED BY <3>2, <3>5
  <2>8. n = g * m
    BY <2>5, <2>7 DEF SliceChannels
  <2>9. (Items(o) * o.outCh) \div N = Items(o) * (g * m)
    <3>1. Items(o) * (g * m) \in Nat
      BY <1>1, <2>5, Steps
    <3>2. Items(o) * o.outCh = (Items(o) * (g * m)) * N
      <4> DEFINE a == g * m
      <4> HIDE DEF a
      <4>1. a \in Nat /\ o.outCh = a * N
        BY <2>5 DEF a
      <4>2. a * N \in Int /\ (2 * a) * N = 2 * (a * N) /\ 1 * a = a
        BY <1>1, <4>1, Z3
      <4>3. Items(o) * o.outCh = (Items(o) * a) * N
        <5>1. CASE Items(o) = 1
          BY <4>1, <4>2, <5>1
        <5>2. CASE Items(o) = 2
          BY <4>1, <4>2, <5>2
        <5> QED BY <1>1, <5>1, <5>2
      <4> QED BY <4>3 DEF a
    <3> QED BY <2>7, <3>1, <3>2
  <2> QED BY <2>1, <2>5, <2>6, <2>8, <2>9 DEF Positive
<1> QED BY <1>3, <1>4

LEMMA SlicesSplit ==
  ASSUME NEW o, Sane(o), SliceFaults(o) = {}
  PROVE  Splits(Slices(o), o)
PROOF
<1> DEFINE n == SliceChannels(o)
           N == SliceCount
           PartAt(i) == Tile(o, i * n, n, WholeHeight(o))
<1>1. /\ o \in Operation /\ o.outCh \in Nat /\ o.to \in Nat /\ o.out \in Int /\ o.bias \in Nat
      /\ o.keep \subseteq 0 .. o.outH - 1 /\ o.outH \in Nat /\ N \in Positive /\ N \in Nat
      /\ Items(o) \in {1, 2}
  BY TilingAssumption, Sizes DEF Sane, Operation, Positive
<1>2. CASE ~CanBeSliced(o)
  BY <1>2, SelfSplit DEF Slices
<1>3. CASE CanBeSliced(o)
  <2>1. /\ n \in Positive /\ n \in Nat /\ o.outCh = N * n
        /\ SlicePattern(o).items = Items(o) * n
    BY <1>1, <1>3, EvenSlices DEF Positive
  <2>2. o.kind \in {"fc", "conv2d", "dw"}
    BY <1>3 DEF CanBeSliced, SlicePattern
  <2>3. ASSUME NEW i \in 0 .. N - 1
        PROVE  /\ i \in Nat /\ i * n \in Nat /\ i * n + n <= o.outCh
    BY <1>1, <2>1, Steps
  <2>4. GoodStripe(o, WholeHeight(o))
    BY <1>1, WholeHeightIsGood
  <2>5. ASSUME NEW i \in 0 .. N - 1
        PROVE  /\ PartOf(PartAt(i), o)
               /\ \A c, r \in Int :
                    Computes(PartAt(i), c, r) <=>
                      /\ Computes(o, c, r)
                      /\ i * n <= c - o.to /\ c - o.to < i * n + n
                      /\ Keeps(WholeHeight(o), r - o.out)
    <3> DEFINE a == i * n
    <3>1. a \in Nat /\ a + n <= o.outCh
      BY <2>3
    <3> HIDE DEF a, n
    <3>2. /\ PartOf(Tile(o, a, n, WholeHeight(o)), o)
          /\ \A c, r \in Int :
               Computes(Tile(o, a, n, WholeHeight(o)), c, r) <=>
                 /\ Computes(o, c, r)
                 /\ a <= c - o.to /\ c - o.to < a + n
                 /\ Keeps(WholeHeight(o), r - o.out)
      BY <1>1, <2>1, <2>2, <2>4, <3>1, TileIsPart
    <3> QED BY <3>2 DEF a
  <2>6. ASSUME NEW i \in 0 .. N - 1
        PROVE  Slice(o, i) = PartAt(i)
    <3> DEFINE t == PartAt(i)
               items == SlicePattern(o).items
               bias == o.bias + i * items
               inside == t.inside /\ Inside(i * items, items, Items(o) * o.outCh)
    <3>1. t \in Operation /\ t.inside = TRUE
      BY <2>5 DEF PartOf, Sane
    <3>2. Slice(o, i) = [t EXCEPT !.bias = bias, !.inside = inside]
      BY DEF Slice
    <3>3. i * items = Items(o) * (i * n) /\ i * items \in Nat
      <4> HIDE DEF n
      <4>1. i * n \in Nat /\ i * (2 * n) = 2 * (i * n) /\ 1 * n = n /\ 1 * (i * n) = i * n
        BY <2>1, <2>3, Z3
      <4>2. CASE Items(o) = 1
        BY <2>1, <4>1, <4>2
      <4>3. CASE Items(o) = 2
        BY <2>1, <4>1, <4>3
      <4> QED BY <1>1, <4>2, <4>3
    <3>4. t.bias = bias
      BY <1>1, <3>3, TileFields
    <3>5. inside = TRUE
      <4>1. /\ items = Items(o) * n /\ items \in Nat
        BY <1>1, <2>1, Steps
      <4>2. i * items + items <= Items(o) * o.outCh
        <5>1. i * n + n <= o.outCh /\ i * n \in Nat /\ n \in Nat /\ o.outCh \in Nat
          BY <1>1, <2>1, <2>3
        <5> HIDE DEF n
        <5>2. CASE Items(o) = 1
          BY <3>3, <4>1, <5>1, <5>2
        <5>3. CASE Items(o) = 2
          BY <3>3, <4>1, <5>1, <5>3
        <5> QED BY <1>1, <5>2, <5>3
      <4> QED BY <3>1, <3>3, <4>1, <4>2 DEF Inside
    <3> HIDE DEF t, bias, inside
    <3>6. [t EXCEPT !.bias = bias, !.inside = inside] = t
      BY <3>1, <3>4, <3>5 DEF Operation
    <3> QED BY <3>2, <3>6 DEF t
  <2>7. Slices(o) = {PartAt(i) : i \in 0 .. N - 1}
    <3> HIDE DEF PartAt
    <3> QED BY <1>3, <2>6 DEF Slices
  <2>8. ASSUME NEW c \in Int, NEW r \in Int, Computes(o, c, r)
        PROVE  \E t \in Slices(o) :
                 Computes(t, c, r) /\ \A u \in Slices(o) : Computes(u, c, r) => u = t
    <3> DEFINE x == c - o.to
               q == r - o.out
    <3>1. x \in 0 .. o.outCh - 1 /\ q \in 0 .. o.outH - 1
      BY <1>1, <2>8 DEF Computes
    <3>2. Keeps(WholeHeight(o), q)
      BY <1>1, <3>1 DEF Keeps, WholeHeight
    <3>3. PICK i \in 0 .. N - 1 : i * n <= x /\ x < i * n + n
      <4>0. x \in Nat
        BY <1>1, <3>1
      <4> HIDE DEF n, x
      <4>1. x \div n \in Nat /\ (x \div n) * n <= x /\ x < (x \div n) * n + n
        BY <2>1, <4>0, Division
      <4>2. PICK i \in Nat : i * n <= x /\ x < i * n + n
        BY <4>1
      <4>3. i * n < N * n
        <5>1. i * n \in Nat
          BY <2>1, Steps
        <5> QED BY <1>1, <2>1, <3>1, <4>2, <5>1
      <4>4. i < N
        BY <1>1, <2>1, <4>3, Quotient
      <4> QED BY <1>1, <4>2, <4>4
    <3>4. Computes(PartAt(i), c, r)
      BY <2>5, <2>8, <3>2, <3>3
    <3>5. ASSUME NEW j \in 0 .. N - 1, Computes(PartAt(j), c, r)
          PROVE  j = i
      <4>1. j * n <= x /\ x < j * n + n
        BY <2>5, <3>5
      <4>2. i \in Int /\ j \in Int /\ x \in Int
        BY <1>1, <3>1
      <4> HIDE DEF x, n
      <4> QED BY <2>1, <3>3, <4>1, <4>2, OneBlock
    <3> HIDE DEF PartAt
    <3> QED BY <2>7, <3>4, <3>5
  <2>9. \A t \in Slices(o) : PartOf(t, o)
    <3> HIDE DEF PartAt
    <3> QED BY <2>5, <2>7
  <2> QED BY <2>8, <2>9 DEF Splits
<1> QED BY <1>2, <1>3

(* A slice lies inside the channels and inside the scale and bias table of  *)
(* its operation, also when some channels are left over.                    *)
LEMMA SlicesStayInside ==
  ASSUME NEW o, Sane(o), HasTable(o)
  PROVE  \A t \in Slices(o) : t.inside = TRUE
PROOF
<1> DEFINE n == SliceChannels(o)
           N == SliceCount
           items == SlicePattern(o).items
           table == Items(o) * o.outCh
<1>1. /\ o \in Operation /\ o.inside = TRUE /\ o.outCh \in Nat /\ o.h \in Nat /\ o.outH \in Nat
      /\ N \in Positive /\ N \in Nat /\ Items(o) \in {1, 2}
  BY TilingAssumption, Sizes DEF Sane, Operation, Positive
<1>2. table \in Nat
  BY <1>1, Steps
<1>3. n \in Nat /\ N * n <= o.outCh
  <2>1. n \in Nat /\ n * N <= o.outCh
    BY <1>1, Division DEF SliceChannels
  <2> HIDE DEF n
  <2>2. N * n = n * N
    BY <1>1, <2>1, Z3
  <2> QED BY <2>1, <2>2
<1>4. ASSUME CanBeSliced(o) PROVE items \in Nat /\ N * items <= table
  <2>1. CASE o.kind = "fc"
    <3>1. items = n * 2
      BY <2>1 DEF SlicePattern, SliceFullyConnected
    <3>2. ~o.float
      BY <1>4, <2>1 DEF HasTable, SliceFaults
    <3>3. table = 2 * o.outCh
      BY <3>2 DEF Items
    <3> HIDE DEF n, items, table, N
    <3>4. N * (n * 2) = 2 * (N * n) /\ N * n \in Nat /\ n * 2 \in Nat
      <4>1. \A a, b \in Nat : a * (b * 2) = 2 * (a * b) /\ a * b \in Nat /\ b * 2 \in Nat
        BY Z3
      <4> QED BY <1>1, <1>3, <4>1
    <3> DEFINE m == N * n
    <3> HIDE DEF m
    <3>5. m \in Nat /\ m <= o.outCh /\ N * items = 2 * m /\ items \in Nat
      BY <1>3, <3>1, <3>4 DEF m
    <3> QED BY <1>1, <3>3, <3>5
  <2>2. CASE o.kind # "fc"
    <3>1. items = table \div N
      BY <1>4, <2>2 DEF CanBeSliced, SlicePattern, SliceConv2D, SliceDepthWise2D
    <3>2. items \in Nat /\ items * N <= table
      BY <1>1, <1>2, <3>1, Division
    <3> HIDE DEF items, table
    <3>3. N * items = items * N
      BY <1>1, <3>2, Z3
    <3> QED BY <3>2, <3>3
  <2> QED BY <2>1, <2>2
<1>5. ASSUME CanBeSliced(o), NEW i \in 0 .. N - 1
      PROVE  Slice(o, i).inside = TRUE
  <2> DEFINE t == Tile(o, i * n, n, WholeHeight(o))
  <2>0. i \in Nat /\ i < N
    BY <1>1
  <2>1. \A d \in Nat : i * d \in Nat /\ i * d + d <= N * d
    BY <1>1, <2>0, Steps
  <2>2. Inside(i * n, n, o.outCh) /\ Inside(i * items, items, table)
    <3>1. i * n \in Nat /\ i * n + n <= N * n /\ N * n \in Nat
      BY <1>1, <1>3, <2>1, Steps
    <3>2. i * items \in Nat /\ i * items + items <= N * items /\ N * items \in Nat
      BY <1>1, <1>4, <1>5, <2>1, Steps
    <3>3. items \in Nat /\ N * items <= table
      BY <1>4, <1>5
    <3> DEFINE a == i * n
               b == N * n
               c == i * items
               d == N * items
    <3>6. a \in Nat /\ n \in Nat /\ b \in Nat /\ a + n <= b /\ b <= o.outCh
      BY <1>3, <3>1
    <3>7. c \in Nat /\ items \in Nat /\ d \in Nat /\ c + items <= d /\ d <= table
      BY <3>2, <3>3
    <3> HIDE DEF n, items, table, a, b, c, d
    <3>4. a >= 0 /\ a + n <= o.outCh
      BY <1>1, <3>6
    <3>5. c >= 0 /\ c + items <= table
      BY <1>2, <3>7
    <3> QED BY <3>4, <3>5 DEF Inside, a, c
  <2>3. t.inside = TRUE
    <3> DEFINE st == WholeHeight(o)
    <3>1. st.row = 0 /\ st.h = o.h /\ st.to = 0 /\ st.kept = o.outH
      BY DEF WholeHeight
    <3>2. Inside(st.row, st.h, o.h) /\ Inside(st.to, st.kept, o.outH)
      <4>1. \A a \in Nat : Inside(0, a, a)
        BY DEF Inside
      <4> QED BY <1>1, <3>1, <4>1
    <3> HIDE DEF st, n
    <3>3. t.inside = (o.inside /\ Inside(st.row, st.h, o.h)
                        /\ Inside(i * n, n, o.outCh) /\ Inside(st.to, st.kept, o.outH))
      BY <1>1, TileFields DEF st
    <3> HIDE DEF t
    <3> QED BY <1>1, <2>2, <3>2, <3>3
  <2>4. "inside" \in DOMAIN t /\ "bias" \in DOMAIN t
    BY <1>1 DEF Tile, Operation
  <2>5. Slice(o, i) = [t EXCEPT !.bias = o.bias + i * items,
                                !.inside = @ /\ Inside(i * items, items, table)]
    BY DEF Slice
  <2> HIDE DEF t, n, items, table
  <2>6. Slice(o, i).inside = (t.inside /\ Inside(i * items, items, table))
    BY <2>4, <2>5
  <2> QED BY <2>2, <2>3, <2>6
<1>6. CASE CanBeSliced(o)
  BY <1>5, <1>6 DEF Slices
<1>7. CASE ~CanBeSliced(o)
  BY <1>1, <1>7 DEF Slices
<1> QED BY <1>6, <1>7
-----------------------------------------------------------------------------
(* The inductive invariant.  The operations that the pass has still to      *)
(* visit and those it has left are operations, inside their tensors, until  *)
(* a run meets a stripe shorter than its neighbour's halo; together they    *)
(* compute the whole result, each element once and from what it must be     *)
(* computed, until it meets any fault; and so do the kernels at the end.    *)
Outside == {"short stripe", "float table"}

TilingInv ==
  /\ Sane(whole)
  /\ whole.to = 0 /\ whole.out = 0 /\ whole.keep = 0 .. whole.outH - 1
  /\ met \cap Outside = {} =>
       /\ \A o \in pending \cup tiles : Sane(o)
       /\ \A o \in kernels : o.inside = TRUE
  /\ met = {} =>
       /\ Splits(pending \cup tiles, whole)
       /\ phase = "done" => Splits(kernels, whole)
  /\ \A o \in tiles : Pattern(o).fits \/ Pattern(o).tooLarge
  /\ phase \in {"slice", "done"} => pending = {}
  /\ phase # "done" => kernels = {}

LEMMA TilingInvInit == Init => TilingInv
PROOF
<1> SUFFICES ASSUME Init PROVE TilingInv
  OBVIOUS
<1>1. PICK o \in Operations : whole = Whole(o)
  BY DEF Init
<1>2. /\ whole \in Operation /\ whole.to = 0 /\ whole.out = 0
      /\ whole.keep = 0 .. whole.outH - 1 /\ whole.inside = TRUE
  BY <1>1, WholeFields
<1>3. Sane(whole)
  BY <1>2 DEF Sane
<1>4. pending \cup tiles = {whole} /\ tiles = {} /\ kernels = {} /\ phase = "tile"
  BY DEF Init
<1> QED BY <1>2, <1>3, <1>4, SelfSplit DEF TilingInv

(* A visit that replaces an operation by its tiles.                         *)
LEMMA ReplaceStep ==
  ASSUME TilingInv, NEW o \in pending, Replace(o)
  PROVE  TilingInv'
PROOF
<1> DEFINE P == pending \cup tiles
           f == [s \in P |-> IF s = o THEN Tiled(o) ELSE {s}]
<1>1. /\ Sane(whole) /\ phase = "tile" /\ kernels = {} /\ phase' \in {"tile", "outside"}
      /\ pending' = (pending \ {o}) \cup Tiled(o) /\ met' = met \cup Faults(o)
      /\ UNCHANGED <<whole, tiles, kernels>>
      /\ ~Pattern(o).fits /\ ~Pattern(o).tooLarge
  BY DEF TilingInv, Replace, Visit
<1>2. ASSUME met' \cap Outside = {}
      PROVE  /\ \A s \in P : Sane(s)
             /\ \A t \in Tiled(o) : Sane(t)
  <2>1. met \cap Outside = {} /\ HasRoom(o)
    BY <1>1, <1>2 DEF Outside, HasRoom
  <2>2. \A s \in P : Sane(s)
    BY <2>1 DEF TilingInv
  <2>3. Replaced(o)
    BY <1>1, <2>2 DEF Replaced, Sane
  <2> QED BY <2>1, <2>2, <2>3, TiledAreSane
<1>3. ASSUME met' = {} PROVE Splits(pending' \cup tiles', whole)
  <2>1. met = {} /\ Faults(o) = {}
    BY <1>1, <1>3
  <2>2. /\ Splits(P, whole) /\ \A s \in P : Sane(s)
    BY <1>2, <1>3, <2>1 DEF TilingInv
  <2>3. Replaced(o)
    BY <1>1, <2>2 DEF Replaced, Sane
  <2>4. ASSUME NEW s \in P PROVE Splits(f[s], s)
    BY <2>1, <2>2, <2>3, TiledSplits, SelfSplit
  <2>5. Splits(UNION {f[s] : s \in P}, whole)
    <3> HIDE DEF f, P
    <3> QED BY <1>1, <2>2, <2>4, SplitsOfParts
  <2>6. o \in P /\ o \notin tiles
    BY <1>1 DEF TilingInv
  <2>7. pending' \cup tiles' = UNION {f[s] : s \in P}
    <3>1. ASSUME NEW t \in pending' \cup tiles' PROVE t \in UNION {f[s] : s \in P}
      <4>1. CASE t \in Tiled(o)
        BY <2>6, <4>1
      <4>2. CASE t \in P \ {o}
        BY <4>2
      <4> QED BY <1>1, <2>6, <3>1, <4>1, <4>2
    <3>2. ASSUME NEW s \in P, NEW t \in f[s] PROVE t \in pending' \cup tiles'
      BY <1>1, <3>2
    <3> QED BY <3>1, <3>2
  <2> QED BY <2>5, <2>7
<1>4. ASSUME NEW s \in pending' \cup tiles' PROVE s \in P \/ s \in Tiled(o)
  BY <1>1
<1>5. /\ Sane(whole') /\ whole'.to = 0 /\ whole'.out = 0 /\ whole'.keep = 0 .. whole'.outH - 1
      /\ whole' = whole
  BY <1>1 DEF TilingInv
<1>6. met' \cap Outside = {} => \A s \in pending' \cup tiles' : Sane(s)
  BY <1>2, <1>4
<1>7. kernels' = {} /\ phase' \notin {"slice", "done"}
  BY <1>1
<1>8. \A s \in tiles' : Pattern(s).fits \/ Pattern(s).tooLarge
  BY <1>1 DEF TilingInv
<1>9. /\ met' \cap Outside = {} =>
            /\ \A s \in pending' \cup tiles' : Sane(s)
            /\ \A s \in kernels' : s.inside = TRUE
      /\ met' = {} =>
            /\ Splits(pending' \cup tiles', whole')
            /\ phase' = "done" => Splits(kernels', whole')
      /\ phase' \in {"slice", "done"} => pending' = {}
      /\ phase' # "done" => kernels' = {}
  BY <1>3, <1>5, <1>6, <1>7
<1> QED BY <1>5, <1>8, <1>9 DEF TilingInv

LEMMA SlicingStep ==
  ASSUME TilingInv, SlicingPass
  PROVE  TilingInv'
PROOF
<1> DEFINE f == [s \in tiles |-> Slices(s)]
<1>1. /\ phase = "slice" /\ pending = {} /\ phase' = "done" /\ kernels' = UNION {Slices(s) : s \in tiles}
      /\ met' = met \cup UNION {SliceFaults(s) : s \in tiles}
      /\ UNCHANGED <<whole, pending, tiles>>
  BY DEF TilingInv, SlicingPass
<1>2. ASSUME met' \cap Outside = {}
      PROVE  /\ \A s \in pending' \cup tiles' : Sane(s)
             /\ \A t \in kernels' : t.inside = TRUE
  <2>1. met \cap Outside = {} /\ \A s \in tiles : HasTable(s)
    BY <1>1, <1>2 DEF Outside, HasTable
  <2>2. \A s \in tiles : Sane(s)
    BY <2>1 DEF TilingInv
  <2>3. \A t \in kernels' : t.inside = TRUE
    BY <1>1, <2>1, <2>2, SlicesStayInside
  <2> QED BY <1>1, <2>2, <2>3
<1>3. ASSUME met' = {}
      PROVE  Splits(kernels', whole) /\ Splits(pending' \cup tiles', whole)
  <2>1. met = {} /\ \A s \in tiles : SliceFaults(s) = {}
    BY <1>1, <1>3
  <2>2. pending \cup tiles = tiles /\ pending' \cup tiles' = tiles
    BY <1>1
  <2>3. Sane(whole) /\ Splits(tiles, whole) /\ \A s \in tiles : Sane(s)
    BY <1>1, <1>2, <1>3, <2>1, <2>2 DEF TilingInv
  <2>4. ASSUME NEW s \in tiles PROVE Splits(f[s], s)
    BY <2>1, <2>3, SlicesSplit
  <2>5. Splits(UNION {f[s] : s \in tiles}, whole)
    <3> HIDE DEF f
    <3> QED BY <2>3, <2>4, SplitsOfParts
  <2>6. kernels' = UNION {f[s] : s \in tiles}
    BY <1>1
  <2> QED BY <2>2, <2>3, <2>5, <2>6
<1>4. /\ Sane(whole') /\ whole'.to = 0 /\ whole'.out = 0 /\ whole'.keep = 0 .. whole'.outH - 1
      /\ whole' = whole
  BY <1>1 DEF TilingInv
<1>5. pending' = {} /\ \A s \in tiles' : Pattern(s).fits \/ Pattern(s).tooLarge
  BY <1>1 DEF TilingInv
<1>9. /\ met' \cap Outside = {} =>
            /\ \A s \in pending' \cup tiles' : Sane(s)
            /\ \A s \in kernels' : s.inside = TRUE
      /\ met' = {} =>
            /\ Splits(pending' \cup tiles', whole')
            /\ phase' = "done" => Splits(kernels', whole')
      /\ phase' \in {"slice", "done"} => pending' = {}
      /\ phase' # "done" => kernels' = {}
  BY <1>1, <1>2, <1>3, <1>4, <1>5
<1> QED BY <1>4, <1>5, <1>9 DEF TilingInv

LEMMA TilingInvStep ==
  ASSUME TilingInv, [Next]_vars
  PROVE  TilingInv'
PROOF
<1>1. ASSUME NEW o \in pending, Keep(o) \/ Refuse(o) PROVE TilingInv'
  <2>1. /\ tiles' = tiles \cup {o} /\ pending' = pending \ {o}
        /\ phase = "tile" /\ UNCHANGED <<whole, kernels, met, phase>>
        /\ Pattern(o).fits \/ Pattern(o).tooLarge
    BY <1>1 DEF Keep, Refuse, Visit
  <2>2. pending' \cup tiles' = pending \cup tiles
    BY <2>1
  <2> QED BY <2>1, <2>2 DEF TilingInv
<1>2. ASSUME NEW o \in pending, Trap(o) PROVE TilingInv'
  BY <1>2 DEF TilingInv, Trap, Visit
<1>3. ASSUME NEW o \in pending, Replace(o) PROVE TilingInv'
  BY <1>3, ReplaceStep
<1>4. CASE Converged
  BY <1>4 DEF TilingInv, Converged
<1>5. CASE SlicingPass
  BY <1>5, SlicingStep
<1>6. CASE UNCHANGED vars
  BY <1>6 DEF TilingInv, vars
<1> QED BY <1>1, <1>2, <1>3, <1>4, <1>5, <1>6 DEF Next

(* In every state of the passes the operations to visit, the tiles and the  *)
(* kernels split the whole operation, as long as no fault was met.          *)
THEOREM TilingInvariant == Spec => []TilingInv
PROOF
<1>1. Init => TilingInv
  BY TilingInvInit
<1>2. TilingInv /\ [Next]_vars => TilingInv'
  BY TilingInvStep
<1> QED BY <1>1, <1>2, PTL DEF Spec

(* No slice that the passes extract or insert reaches outside its tensor in *)
(* a run that has met no stripe shorter than its neighbour's halo and no    *)
(* fully connected operation with a table of one entry a channel to slice.  *)
THEOREM TilingSlicesAreInside == Spec => []SlicesAreInside
PROOF
<1>1. TilingInv => SlicesAreInside
  BY DEF TilingInv, SlicesAreInside, Sane, Outside
<1> QED BY <1>1, TilingInvariant, PTL

(* Every element of the result is computed once, from the weights, scale    *)
(* and bias, channels and rows that the whole operation uses for it, in a   *)
(* run that met none of the faults.                                         *)
THEOREM TilingComputesTheResult == Spec => []TilesComputeTheResult
PROOF
<1>1. TilingInv => TilesComputeTheResult
  <2> SUFFICES ASSUME TilingInv, phase = "done", met = {},
                      NEW c \in 0 .. whole.outCh - 1, NEW r \in 0 .. whole.outH - 1
               PROVE  LET by == {o \in kernels : Computes(o, c, r)}
                      IN  /\ Cardinality(by) = 1
                          /\ \A o \in by :
                               ComputedFrom(o, c - o.to, r - o.out) = ComputedFrom(whole, c, r)
    BY DEF TilesComputeTheResult
  <2> DEFINE by == {o \in kernels : Computes(o, c, r)}
  <2>1. /\ Splits(kernels, whole) /\ whole.to = 0 /\ whole.out = 0
        /\ whole.keep = 0 .. whole.outH - 1 /\ whole.outCh \in Nat /\ whole.outH \in Nat
    BY DEF TilingInv, Sane, Operation, Positive
  <2>2. c \in Int /\ r \in Int /\ c - 0 = c /\ r - 0 = r
    BY <2>1
  <2>3. Computes(whole, c, r)
    BY <2>1, <2>2 DEF Computes
  <2>4. PICK t \in kernels : Computes(t, c, r) /\ \A u \in kernels : Computes(u, c, r) => u = t
    BY <2>1, <2>2, <2>3 DEF Splits
  <2>5. by = {t}
    BY <2>4
  <2>6. Cardinality(by) = 1
    BY <2>5, FS_Singleton
  <2>7. ComputedFrom(t, c - t.to, r - t.out) = ComputedFrom(whole, c, r)
    <3>1. PartOf(t, whole) /\ t.to \in Int /\ t.out \in Int
      BY <2>1 DEF Splits, PartOf, Sane, Operation
    <3>2. c - t.to \in 0 .. t.outCh - 1 /\ r - t.out \in t.keep
      BY <2>4 DEF Computes
    <3>3. ComputedFrom(t, c - t.to, r - t.out)
            = ComputedFrom(whole, (c - t.to) + (t.to - whole.to), (r - t.out) + (t.out - whole.out))
      BY <3>1, <3>2 DEF PartOf
    <3>4. (c - t.to) + (t.to - whole.to) = c /\ (r - t.out) + (t.out - whole.out) = r
      BY <2>1, <2>2, <3>1
    <3> QED BY <3>3, <3>4
  <2> QED BY <2>5, <2>6, <2>7
<1> QED BY <1>1, TilingInvariant, PTL
=============================================================================
