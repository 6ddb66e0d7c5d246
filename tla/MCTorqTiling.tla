---------------------------- MODULE MCTorqTiling ----------------------------
(* Operations of every kind around a memory of 3696 bytes: inputs of one to *)
(* four stripes, with heights that the stripes divide and that they do not, *)
(* and outputs of one to several channel tiles, with and without a rest.    *)
EXTENDS TorqTiling

Op(kind, inCh, outCh, h, w, k, stride, top) ==
  [kind |-> kind, float |-> FALSE, bytes |-> 1, inCh |-> inCh, outCh |-> outCh,
   h |-> h, w |-> w, outH |-> DivCeil(h, stride), outW |-> DivCeil(w, stride),
   k |-> k, stride |-> stride, top |-> top, factor |-> 1, crd |-> TRUE, xram |-> TRUE]

Convolutions ==
  {Op("conv2d", i, c, h, 8, k, s, t) : i \in {8, 32, 44}, c \in {3, 6, 16, 18},
     h \in {5, 6, 8, 9, 12}, k \in {1, 2, 3, 5}, s \in 1 .. 3, t \in {0, 1, 2}}
  \cup {Op("conv2d", 80, 6, h, 8, k, 1, t) : h \in {6, 9}, k \in {1, 3, 7}, t \in {1, 3}}

SamePadded(o) == IF o.stride = 1 THEN o.top = (o.k - 1) \div 2
                 ELSE o.top \in {(o.k - 1) \div 2, o.k \div 3}

OneDimensional ==
  {[Op("conv1d", i, c, 1, 64, 1, 1, 0) EXCEPT !.factor = f] :
     i \in {2, 16}, c \in {3, 8, 20}, f \in {2, 3, 9}}

Channelwise ==
  {Op(kind, c, c, 3, w, k, s, 0) : kind \in {"dw", "maxpool"},
     c \in {3, 8, 22, 36, 40}, w \in {8, 60, 400}, k \in {2, 3}, s \in {1, 2}}
  \cup {Op(kind, c, c, 3, w, 1, 1, 0) : kind \in {"add", "scatter"},
          c \in {1, 3, 22, 70}, w \in {8, 60, 400}}
  \cup {[Op("resize", c, c, 1, w, 1, 1, 0) EXCEPT !.outH = 2, !.outW = 2 * w] :
          c \in {3, 64, 100}, w \in {8, 16, 800}}
  \cup {[Op("d2s", 4 * c, c, 2, 2 * w, 1, 1, 0) EXCEPT
           !.h = 1, !.w = w, !.factor = 4, !.crd = crd] :
          c \in {1, 3, 9}, w \in {32, 60, 150}, crd \in BOOLEAN}

FullyConnectedOps ==
  {[Op("fc", i, c, 1, 1, 1, 1, 0) EXCEPT !.float = f] :
     i \in {10, 48, 100, 4000, 4086, 4087}, c \in {10, 64, 128, 129, 200}, f \in BOOLEAN}

MCOperations ==
  UNION {{o, [o EXCEPT !.xram = FALSE]} :
    o \in {p \in Convolutions : SamePadded(p)} \cup OneDimensional \cup Channelwise
            \cup FullyConnectedOps}
=============================================================================
